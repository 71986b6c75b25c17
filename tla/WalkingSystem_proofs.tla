------------------------ MODULE WalkingSystem_proofs ------------------------
(***************************************************************************)
(* Theorems about WalkingSystem, for every value of its constants.         *)
(***************************************************************************)
EXTENDS WalkingSystem, FiniteSetTheorems, TLAPS

----------------------------------------------------------------------------
(***************************************************************************)
(* The writes to route_legs.                                               *)
(***************************************************************************)

\* A step writes the table with one of the statements of RouteLegs, or not
\* at all; what an INSERT writes are the local variables of its process.
WritesTable ==
    \/ legs' = legs
    \/ \E ids \in SUBSET Caches : legs' = DeleteTouching(legs, ids)
    \/ \E pairs \in SUBSET Pairs : legs' = DeleteSuspiciousLegs(legs, pairs, versionFile)
    \/ \E w \in Workers :
          /\ At(w, "cells")
          /\ legs' = UpsertMatrixCells(legs, run[w].cells, run[w].version)
    \/ \E w \in Workers :
          /\ At(w, "noroutes")
          /\ legs' = UpsertNorouteCells(legs, run[w].noroutes, run[w].version)
    \/ \E r \in Requests :
          /\ req[r].pc = "cells"
          /\ \/ legs' = UpsertLegs(legs, req[r].cells, req[r].version)
             \/ legs' = UpsertMatrixCells(legs, req[r].cells, req[r].version)
    \/ \E r \in Requests :
          /\ req[r].pc = "noroutes"
          /\ legs' = UpsertNorouteCells(legs, req[r].noroutes, req[r].version)

\* Which handlers write route_legs, and what: every action of the system is
\* one of the statements WritesTable lists, or leaves the table alone.
LEMMA TableIsWrittenByStatements == [Next]_vars => WritesTable
<1> SUFFICES ASSUME [Next]_vars PROVE WritesTable
  OBVIOUS
<1> USE DEF storeVars, queueVars
<1>1. CASE Produce
  <2>1. ASSUME NEW e \in EditIds, Upload(e) PROVE WritesTable
    <3>1. PICK ids \in Batches : \E at \in [ids -> Locations] : UpsertFromGpx(ids, at)
      BY <2>1 DEF Upload, Commit
    <3>2. PICK at \in [ids -> Locations] : UpsertFromGpx(ids, at)
      BY <3>1
    <3> DEFINE relocated == {c \in ids \cap Present : loc[c] # at[c]}
    <3>3. relocated \in SUBSET Caches /\ legs' = DeleteTouching(legs, relocated)
      BY <3>2 DEF UpsertFromGpx, Present
    <3> QED BY <3>3 DEF WritesTable
  <2>2. ASSUME NEW e \in EditIds, NEW j \in JobIds, Enqueue(e, j) PROVE WritesTable
    BY <2>2 DEF Enqueue, WritesTable
  <2>3. ASSUME NEW e \in EditIds, EnqueueFails(e) PROVE WritesTable
    BY <2>3 DEF EnqueueFails, WritesTable
  <2>4. ASSUME NEW j \in JobIds, NEW o \in Owners, RetriggerStale(j, o) PROVE WritesTable
    BY <2>4 DEF RetriggerStale, WritesTable
  <2>5. ASSUME NEW j \in JobIds, NEW c \in Caches, RetriggerOne(j, c) PROVE WritesTable
    BY <2>5 DEF RetriggerOne, WritesTable
  <2>6. ASSUME NEW e \in EditIds, ClearSolvedRequest(e) PROVE WritesTable
    <3>1. PICK c \in Caches : legs' = DeleteTouching(legs, {c})
      BY <2>6 DEF ClearSolvedRequest, Revert, ClearSolved
    <3>2. {c} \in SUBSET Caches
      OBVIOUS
    <3> QED BY <3>1, <3>2 DEF WritesTable
  <2> QED BY <1>1, <2>1, <2>2, <2>3, <2>4, <2>5, <2>6 DEF Produce
<1>2. CASE Work
  <2>1. PICK w \in Workers : Process(w) \/ StatementFails(w)
    BY <1>2 DEF Work
  <2>2. CASE PersistCells(w)
    BY <2>2 DEF PersistCells, WritesTable
  <2>3. CASE PersistNoroutes(w)
    BY <2>3 DEF PersistNoroutes, WritesTable
  <2>4. CASE ~PersistCells(w) /\ ~PersistNoroutes(w)
    <3>1. UNCHANGED legs
      BY <2>1, <2>4 DEF Process, StatementFails, Take, ResolveScope,
         MarkInProgress, ReadCoords, ReadNeighbours, ReadVersion, FilterCached,
         FetchOrigin, MarkFresh, MarkFailed, FetchFails
    <3> QED BY <3>1 DEF WritesTable
  <2> QED BY <2>2, <2>3, <2>4
<1>3. CASE Store
  <2>1. ASSUME NEW c \in Caches, DeleteCache(c) PROVE WritesTable
    <3>1. {c} \in SUBSET Caches /\ legs' = DeleteTouching(legs, {c})
      BY <2>1 DEF DeleteCache
    <3> QED BY <3>1 DEF WritesTable
  <2>2. ASSUME NEW o \in Owners, NEW ids \in SUBSET Caches, PurgeSuspiciousLegs(o, ids)
        PROVE  WritesTable
    <3> DEFINE apart == {p \in Pairs : /\ {p[1], p[2]} \subseteq ids \cap Present
                                       /\ Owner[p[1]] = o /\ Owner[p[2]] = o
                                       /\ loc[p[1]] # loc[p[2]]}
    <3>1. apart \in SUBSET Pairs /\ legs' = DeleteSuspiciousLegs(legs, apart, versionFile)
      BY <2>2 DEF PurgeSuspiciousLegs
    <3> QED BY <3>1 DEF WritesTable
  <2> QED BY <1>3, <2>1, <2>2 DEF Store
<1>4. CASE Osrm
  BY <1>4 DEF Osrm, StopEngine, PublishVersion, StartEngine, WritesTable
<1>5. ASSUME NEW r \in Requests, Serve(r) PROVE WritesTable
  <2>1. CASE StoreCells(r)
    <3>1. /\ req[r].pc = "cells"
          /\ \/ legs' = legs
             \/ legs' = UpsertLegs(legs, req[r].cells, req[r].version)
             \/ legs' = UpsertMatrixCells(legs, req[r].cells, req[r].version)
      BY <2>1 DEF StoreCells, Stored
    <3> QED BY <3>1 DEF WritesTable
  <2>2. CASE StoreNoroutes(r)
    BY <2>2 DEF StoreNoroutes, WritesTable
  <2>3. CASE ~StoreCells(r) /\ ~StoreNoroutes(r)
    <3>1. UNCHANGED legs
      BY <1>5, <2>3 DEF Serve, AnyLeg, GetLeg, GetMatrix, ReadRequestCoords,
         ReadRequestVersion, FindStored, AskOsrm, OsrmFails
    <3> QED BY <3>1 DEF WritesTable
  <2> QED BY <2>1, <2>2, <2>3
<1>6. CASE Crash
  BY <1>6 DEF Crash, WritesTable
<1>7. CASE UNCHANGED vars
  BY <1>7 DEF vars, WritesTable
<1> QED BY <1>1, <1>2, <1>3, <1>4, <1>5, <1>6, <1>7 DEF Next

----------------------------------------------------------------------------
(***************************************************************************)
(* NoDowngradeWithinVersion.  No invariant is needed: the guards of the    *)
(* statements do it alone, whoever issues them with whatever data.         *)
(***************************************************************************)

KeepsRoutes(l, m) ==
    \A p \in Pairs :
        (/\ l[p] # None
         /\ l[p].source = "route"
         /\ m[p] # None
         /\ m[p].version = l[p].version)
        => m[p].source = "route"

\* Each statement of RouteLegs keeps the route rows of its version.
LEMMA StatementsKeepRoutes ==
    ASSUME NEW l, NEW ids, NEW pairs, NEW cells, NEW noroutes, NEW v
    PROVE  /\ KeepsRoutes(l, l)
           /\ KeepsRoutes(l, DeleteTouching(l, ids))
           /\ KeepsRoutes(l, DeleteSuspiciousLegs(l, pairs, v))
           /\ KeepsRoutes(l, UpsertLegs(l, cells, v))
           /\ KeepsRoutes(l, UpsertMatrixCells(l, cells, v))
           /\ KeepsRoutes(l, UpsertNorouteCells(l, noroutes, v))
<1>1. KeepsRoutes(l, l)
  BY DEF KeepsRoutes
<1>2. KeepsRoutes(l, DeleteTouching(l, ids))
  BY DEF KeepsRoutes, DeleteTouching
<1>3. KeepsRoutes(l, DeleteSuspiciousLegs(l, pairs, v))
  BY DEF KeepsRoutes, DeleteSuspiciousLegs
<1>4. KeepsRoutes(l, UpsertLegs(l, cells, v))
  BY DEF KeepsRoutes, UpsertLegs
<1>5. KeepsRoutes(l, UpsertMatrixCells(l, cells, v))
  BY DEF KeepsRoutes, UpsertMatrixCells, StoredAt
<1>6. KeepsRoutes(l, UpsertNorouteCells(l, noroutes, v))
  BY DEF KeepsRoutes, UpsertNorouteCells, StoredAt
<1> QED BY <1>1, <1>2, <1>3, <1>4, <1>5, <1>6

\* Neither the job, nor getMatrix, nor a noroute marker ever replaces a row
\* with a geometry by one without, within one extract: RoutingRepository's
\* promise to the planner, in every interleaving of its callers.
THEOREM RoutesAreNotDowngraded == Spec => NoDowngradeWithinVersion
<1>1. ASSUME [Next]_vars PROVE KeepsRoutes(legs, legs')
  BY <1>1, TableIsWrittenByStatements, StatementsKeepRoutes DEF WritesTable
<1>2. [Next]_vars => [KeepsRoutes(legs, legs')]_vars
  BY <1>1
<1> QED BY <1>2, PTL DEF Spec, NoDowngradeWithinVersion, KeepsRoutes

----------------------------------------------------------------------------
(***************************************************************************)
(* TypeOK.  The inductive invariant adds what the processes know of their  *)
(* own local variables and of the job they hold.                           *)
(***************************************************************************)

QueueInv == QueueTypeOK /\ JobsHeld /\ JobsWithinLimits /\ RunsKnow

RequestInv == RequestTypeOK /\ RequestsKnow

Inv == StoreTypeOK /\ QueueInv /\ RequestInv

LEMMA ConstantTypes ==
    /\ MaxAttempts \in Nat \ {0} /\ MaxStalls \in Nat
    /\ MaxEdits \in Nat /\ MaxRetriggers \in Nat
    /\ MaxFaults \in Nat /\ MaxRestarts \in Nat
    /\ EditIds \subseteq Nat /\ JobIds \subseteq Nat
    /\ Owner \in [Caches -> Owners]
    /\ InitVersion \in Versions
    /\ None \notin Versions /\ None \notin Locations /\ None \notin Figure
    /\ \A ids \in Batches : ids \in SUBSET Caches
    /\ \A ids \in RequestSets : ids \in SUBSET Caches
BY PrecomputeQueueAssumption, CacheStoreAssumption, RouteLegsAssumption,
   WalkingSystemAssumption, RoutingServiceAssumption DEF EditIds, JobIds

\* The statements of RouteLegs turn tables into tables: a row without
\* figures is a noroute marker, and the other way round (the CHECK of
\* migration 1779640000000).
LEMMA TableTypes ==
    ASSUME NEW l \in Table, NEW ids, NEW pairs, NEW noroutes,
           NEW cells \in [Pairs -> Figure \cup {None}], NEW v \in Versions
    PROVE  /\ DeleteTouching(l, ids) \in Table
           /\ DeleteSuspiciousLegs(l, pairs, v) \in Table
           /\ UpsertLegs(l, cells, v) \in Table
           /\ UpsertMatrixCells(l, cells, v) \in Table
           /\ UpsertNorouteCells(l, noroutes, v) \in Table
<1> USE DEF Table
<1>1. DeleteTouching(l, ids) \in Table
  BY DEF DeleteTouching
<1>2. DeleteSuspiciousLegs(l, pairs, v) \in Table
  BY DEF DeleteSuspiciousLegs
<1>3. \A p \in Pairs : cells[p] # None =>
        /\ [source |-> "route", version |-> v, figure |-> cells[p]] \in Row
        /\ [source |-> "table", version |-> v, figure |-> cells[p]] \in Row
  BY DEF Row
<1>4. [source |-> "noroute", version |-> v, figure |-> None] \in Row
  BY DEF Row
<1>5. UpsertLegs(l, cells, v) \in Table
  BY <1>3 DEF UpsertLegs
<1>6. UpsertMatrixCells(l, cells, v) \in Table
  BY <1>3 DEF UpsertMatrixCells
<1>7. UpsertNorouteCells(l, noroutes, v) \in Table
  BY <1>4 DEF UpsertNorouteCells
<1> QED BY <1>1, <1>2, <1>5, <1>6, <1>7

\* The queries return what their names say.
LEMMA QueryTypes ==
    ASSUME StoreTypeOK, NEW owner, NEW ids
    PROVE  /\ NearestNeighbors(owner, ids) \in SUBSET Pairs
           /\ FindAffected(owner, ids) \in SUBSET Caches
           /\ CoordsFor(owner, ids) \in [Caches -> Locations \cup {None}]
           /\ StaleCacheIds(owner) \in SUBSET Caches
<1>1. NearestNeighbors(owner, ids) \in SUBSET Pairs
  BY DEF NearestNeighbors
<1>2. FindAffected(owner, ids) \in SUBSET Caches
  BY DEF FindAffected
<1>3. CoordsFor(owner, ids) \in [Caches -> Locations \cup {None}]
  BY DEF CoordsFor, StoreTypeOK
<1>4. StaleCacheIds(owner) \in SUBSET Caches
  BY DEF StaleCacheIds, Present
<1> QED BY <1>1, <1>2, <1>3, <1>4

LEMMA MarkBulkType ==
    ASSUME StoreTypeOK, NEW ids, NEW v \in Versions \cup {None},
           NEW s \in {"missing", "in_progress", "fresh", "failed"}
    PROVE  MarkBulk(ids, s, v) \in [Caches -> PrecomputeState]
BY DEF MarkBulk, PrecomputeState, StoreTypeOK

\* What OSRM answered an origin for a destination is a figure, or nothing.
LEMMA CellType ==
    ASSUME QueueInv, NEW w \in Workers, At(w, "fetch"), engine \in Versions,
           NEW o \in run[w].todo, NEW d
    PROVE  Cell(run[w], o, d) \in Figure \cup {None}
<1> DEFINE r == run[w]
           figures == {<<engine, r.coords[o], r.coords[e]>> : e \in Columns(r, o, d)}
           routed == {f \in figures : Answer[f] # "noroute"}
<1>1. r.coords[o] \in Locations
  BY DEF QueueInv, QueueTypeOK, Run, RunsKnow
<1>2. \A e \in Columns(r, o, d) : r.coords[e] \in Locations
  BY DEF Columns, Destinations, QueueInv, QueueTypeOK, Run
<1>3. routed \in SUBSET Figure
  BY <1>1, <1>2 DEF Figure
<1>4. CASE routed = {}
  BY <1>4 DEF Cell
<1>5. CASE routed # {}
  <2>1. (CHOOSE f \in routed : TRUE) \in routed
    BY <1>5
  <2>2. Cell(r, o, d) = CHOOSE f \in routed : TRUE
    BY <1>5 DEF Cell
  <2> QED BY <2>1, <2>2, <1>3
<1> QED BY <1>4, <1>5

----------------------------------------------------------------------------
(***************************************************************************)
(* Steps of the store.                                                     *)
(***************************************************************************)

LEMMA UploadKeepsTypes ==
    ASSUME Inv, NEW e \in EditIds, Upload(e)
    PROVE  StoreTypeOK' /\ QueueInv'
<1> USE DEF Inv
<1>1. PICK ids \in Batches, owner \in Owners :
        \E at \in [ids -> Locations] : Commit(e, owner, ids, at)
  BY DEF Upload
<1>2. PICK at \in [ids -> Locations] : Commit(e, owner, ids, at)
  BY <1>1
<1>3. ids \in SUBSET Caches
  BY ConstantTypes
<1>4. legs' \in Table
  BY <1>2, TableTypes DEF Commit, UpsertFromGpx, StoreTypeOK, DeleteTouching, Table
<1>5. StoreTypeOK'
  BY <1>2, <1>3, <1>4 DEF Commit, UpsertFromGpx, StoreTypeOK
<1>6. QueueTypeOK'
  BY <1>2, <1>3 DEF Commit, QueueInv, QueueTypeOK, Edit
<1>7. JobsHeld' /\ JobsWithinLimits' /\ RunsKnow'
  BY <1>2 DEF Commit, QueueInv, JobsHeld, JobsWithinLimits, RunsKnow, At, JobOf
<1> QED BY <1>5, <1>6, <1>7 DEF QueueInv

LEMMA ClearSolvedKeepsTypes ==
    ASSUME Inv, NEW e \in EditIds, ClearSolvedRequest(e)
    PROVE  StoreTypeOK' /\ QueueInv'
<1> USE DEF Inv
<1>1. PICK c \in Caches, at \in Locations : Revert(e, c, at)
  BY DEF ClearSolvedRequest
<1>2. Owner[c] \in Owners /\ {c} \in SUBSET Caches
  BY ConstantTypes
<1>3. legs' \in Table
  BY <1>1, TableTypes DEF Revert, ClearSolved, StoreTypeOK, DeleteTouching, Table
<1>4. StoreTypeOK'
  BY <1>1, <1>3 DEF Revert, ClearSolved, StoreTypeOK
<1>5. QueueTypeOK'
  BY <1>1, <1>2 DEF Revert, QueueInv, QueueTypeOK, Edit
<1>6. JobsHeld' /\ JobsWithinLimits' /\ RunsKnow'
  BY <1>1 DEF Revert, QueueInv, JobsHeld, JobsWithinLimits, RunsKnow, At, JobOf
<1> QED BY <1>4, <1>5, <1>6 DEF QueueInv

LEMMA StoreKeepsTypes ==
    ASSUME Inv, Store \/ Osrm
    PROVE  StoreTypeOK'
<1> USE DEF Inv, StoreTypeOK
<1>1. ASSUME NEW c \in Caches, DeleteCache(c) PROVE StoreTypeOK'
  <2>1. legs' \in Table
    BY <1>1 DEF DeleteCache, DeleteTouching, Table
  <2>2. pstate' \in [Caches -> PrecomputeState]
    BY <1>1 DEF DeleteCache, PrecomputeState
  <2>3. faults' \in 0..MaxFaults
    BY <1>1, ConstantTypes DEF DeleteCache, Inject
  <2> QED BY <1>1, <2>1, <2>2, <2>3 DEF DeleteCache
<1>2. ASSUME NEW o \in Owners, NEW ids \in SUBSET Caches, PurgeSuspiciousLegs(o, ids)
      PROVE  StoreTypeOK'
  BY <1>2 DEF PurgeSuspiciousLegs, DeleteSuspiciousLegs, Table
<1>3. CASE StopEngine
  BY <1>3, ConstantTypes DEF StopEngine
<1>4. ASSUME NEW v \in Versions, PublishVersion(v) PROVE StoreTypeOK'
  BY <1>4 DEF PublishVersion
<1>5. CASE StartEngine
  BY <1>5 DEF StartEngine
<1> QED BY <1>1, <1>2, <1>3, <1>4, <1>5 DEF Store, Osrm

----------------------------------------------------------------------------
(***************************************************************************)
(* Steps of the producers.                                                 *)
(***************************************************************************)

\* A new job has all its attempts, and nobody holds it yet.
LEMMA AddJobKeepsQueue ==
    ASSUME QueueInv, NEW j \in JobIds, NEW owner \in Owners \cup {None},
           NEW ids \in SUBSET Caches, AddJob(j, owner, ids),
           UNCHANGED run, edits' \in [EditIds -> Edit]
    PROVE  QueueInv'
<1> USE DEF QueueInv
<1>1. jobs[j].status = "unused"
  BY ConstantTypes DEF AddJob, IsNextJob
<1> DEFINE new == NewJob(owner, ids)
<1>2. new \in Job /\ new.status = "waiting" /\ new.attempts = 0 /\ new.stalls = 0
  <2>1. 0 \in 0..MaxAttempts /\ 0 \in 0..(MaxStalls + 1)
    BY ConstantTypes
  <2> QED BY <2>1 DEF NewJob, Job
<1>3. jobs' = [jobs EXCEPT ![j] = new]
  BY DEF AddJob
<1> HIDE DEF new
<1>4. QueueTypeOK'
  BY <1>2, <1>3 DEF QueueTypeOK
<1>5. JobsHeld'
  BY <1>1, <1>3 DEF JobsHeld, QueueTypeOK, At, JobOf
<1>6. JobsWithinLimits'
  BY <1>2, <1>3, ConstantTypes DEF JobsWithinLimits, QueueTypeOK
<1>7. RunsKnow'
  BY DEF RunsKnow, At
<1> QED BY <1>4, <1>5, <1>6, <1>7

LEMMA ProduceKeepsTypes ==
    ASSUME Inv, Produce
    PROVE  StoreTypeOK' /\ QueueInv'
<1> USE DEF Inv
<1>1. ASSUME NEW e \in EditIds, NEW j \in JobIds, Enqueue(e, j)
      PROVE  StoreTypeOK' /\ QueueInv'
  <2>1. edits[e].owner \in Owners \cup {None} /\ edits[e].ids \in SUBSET Caches
    BY DEF QueueInv, QueueTypeOK, Edit
  <2>2. edits' \in [EditIds -> Edit]
    BY <1>1 DEF Enqueue, QueueInv, QueueTypeOK, Edit
  <2>3. QueueInv'
    BY <1>1, <2>1, <2>2, AddJobKeepsQueue DEF Enqueue
  <2> QED BY <1>1, <2>3 DEF Enqueue, StoreTypeOK, storeVars
<1>2. ASSUME NEW e \in EditIds, EnqueueFails(e) PROVE StoreTypeOK' /\ QueueInv'
  <2>1. QueueTypeOK'
    BY <1>2 DEF EnqueueFails, QueueInv, QueueTypeOK, Edit
  <2>2. JobsHeld' /\ JobsWithinLimits' /\ RunsKnow'
    BY <1>2 DEF EnqueueFails, QueueInv, JobsHeld, JobsWithinLimits, RunsKnow, At, JobOf
  <2>3. StoreTypeOK'
    BY <1>2, ConstantTypes DEF EnqueueFails, Inject, StoreTypeOK
  <2> QED BY <2>1, <2>2, <2>3 DEF QueueInv
<1>3. ASSUME NEW j \in JobIds, NEW owner \in Owners, RetriggerStale(j, owner)
      PROVE  StoreTypeOK' /\ QueueInv'
  <2>1. StaleCacheIds(owner) \in SUBSET Caches
    BY QueryTypes
  <2>2. QueueInv'
    BY <1>3, <2>1, AddJobKeepsQueue DEF RetriggerStale, QueueInv, QueueTypeOK
  <2> QED BY <1>3, <2>2 DEF RetriggerStale, StoreTypeOK, storeVars
<1>4. ASSUME NEW j \in JobIds, NEW c \in Caches, RetriggerOne(j, c)
      PROVE  StoreTypeOK' /\ QueueInv'
  <2>1. Owner[c] \in Owners /\ {c} \in SUBSET Caches
    BY ConstantTypes
  <2>2. QueueInv'
    BY <1>4, <2>1, AddJobKeepsQueue DEF RetriggerOne, QueueInv, QueueTypeOK
  <2> QED BY <1>4, <2>2 DEF RetriggerOne, StoreTypeOK, storeVars
<1> QED BY <1>1, <1>2, <1>3, <1>4, UploadKeepsTypes, ClearSolvedKeepsTypes DEF Produce

----------------------------------------------------------------------------
(***************************************************************************)
(* Steps of the processor.                                                 *)
(***************************************************************************)

\* A step of process() that changes only its own local variables, and keeps
\* the job it holds.
LEMMA LocalStepKeepsQueue ==
    ASSUME QueueInv, NEW w \in Workers, NEW r \in Run,
           ~At(w, "idle"),
           run' = [run EXCEPT ![w] = r], r.pc # "idle", r.job = run[w].job,
           r.pc = "fetch" => \A o \in r.todo : r.coords[o] # None,
           r.pc \in {"cached", "fetch", "cells", "noroutes"} => r.version # None,
           UNCHANGED <<edits, jobs>>
    PROVE  QueueInv'
<1> USE DEF QueueInv
<1>1. QueueTypeOK'
  BY DEF QueueTypeOK
<1>2. JobsHeld'
  BY DEF JobsHeld, QueueTypeOK, At, JobOf
<1>3. JobsWithinLimits'
  BY DEF JobsWithinLimits
<1>4. RunsKnow'
  BY DEF RunsKnow, QueueTypeOK, At
<1> QED BY <1>1, <1>2, <1>3, <1>4

LEMMA IdleType == Idle \in Run /\ Idle.pc = "idle" /\ Idle.todo = {}
BY DEF Idle, Run, Nowhere, NoCells

\* process() returns or throws: it lets go of its job, which is completed,
\* failed, or waits for another attempt.
LEMMA EndKeepsQueue ==
    ASSUME QueueInv, NEW w \in Workers, ~At(w, "idle"), NEW job \in Job,
           jobs' = [jobs EXCEPT ![run[w].job] = job],
           job.status = "waiting" => job.attempts < MaxAttempts /\ job.stalls <= MaxStalls,
           job.status # "active",
           run' = [run EXCEPT ![w] = Idle], UNCHANGED edits
    PROVE  QueueInv'
<1> USE DEF QueueInv
<1>1. QueueTypeOK'
  BY IdleType DEF QueueTypeOK
<1>2. JobsHeld'
  BY IdleType DEF JobsHeld, QueueTypeOK, At, JobOf
<1>3. JobsWithinLimits'
  BY DEF JobsWithinLimits, JobsHeld, QueueTypeOK
<1>4. RunsKnow'
  BY IdleType DEF RunsKnow, QueueTypeOK, At
<1> QED BY <1>1, <1>2, <1>3, <1>4

LEMMA ThrowKeepsQueue ==
    ASSUME QueueInv, NEW w \in Workers, ~At(w, "idle"), Throw(w), UNCHANGED edits
    PROVE  QueueInv'
<1> DEFINE old == jobs[run[w].job]
           attempts == old.attempts + 1
           job == [old EXCEPT !.attempts = attempts,
                              !.status = IF attempts >= MaxAttempts THEN "failed"
                                                                    ELSE "waiting"]
<1>1. old \in Job /\ old.status = "active"
  BY DEF QueueInv, QueueTypeOK, JobsHeld, JobOf
<1>2. old.attempts < MaxAttempts /\ old.stalls <= MaxStalls
  BY <1>1 DEF QueueInv, JobsWithinLimits, JobsHeld
<1>3. job \in Job
  <2>1. attempts \in 0..MaxAttempts
    BY <1>1, <1>2, ConstantTypes DEF Job
  <2> HIDE DEF attempts
  <2> QED BY <1>1, <2>1 DEF Job
<1>4. job.status = "waiting" => job.attempts < MaxAttempts /\ job.stalls <= MaxStalls
  BY <1>1, <1>2, ConstantTypes DEF Job
<1>5. job.status # "active"
  BY <1>1 DEF Job
<1>6. jobs' = [jobs EXCEPT ![run[w].job] = job] /\ run' = [run EXCEPT ![w] = Idle]
  BY <1>1 DEF Throw, QueueInv, QueueTypeOK, JobsHeld, Job
<1> HIDE DEF job
<1> QED BY <1>3, <1>4, <1>5, <1>6, EndKeepsQueue

\* The steps of process() that change nothing but its local variables.
LocalStep(w) ==
    \/ ResolveScope(w)
    \/ ReadCoords(w)
    \/ ReadNeighbours(w)
    \/ ReadVersion(w)
    \/ FilterCached(w)
    \/ \E o \in Caches : FetchOrigin(w, o)

LEMMA LocalStepsKeepTypes ==
    ASSUME Inv, NEW w \in Workers, LocalStep(w)
    PROVE  StoreTypeOK' /\ QueueInv'
<1> USE DEF Inv
<1>1. run[w] \in Run /\ run \in [Workers -> Run]
  BY DEF QueueInv, QueueTypeOK
<1>2. ~At(w, "idle")
  BY DEF LocalStep, ResolveScope, ReadCoords, ReadNeighbours, ReadVersion,
     FilterCached, FetchOrigin, At
<1>3. JobOf(w).ids \in SUBSET Caches
  BY <1>2 DEF QueueInv, QueueTypeOK, JobsHeld, JobOf, Job
<1>4. At(w, "fetch") => \A o \in run[w].todo : run[w].coords[o] # None
  BY DEF QueueInv, RunsKnow
<1>5. UNCHANGED <<edits, jobs>> /\ UNCHANGED storeVars
  BY DEF LocalStep, ResolveScope, ReadCoords, ReadNeighbours, ReadVersion,
     FilterCached, FetchOrigin
<1>6. StoreTypeOK'
  BY <1>5 DEF StoreTypeOK, storeVars
<1>7. CASE ResolveScope(w)
  <2> DEFINE scope == JobOf(w).ids \cup FindAffected(JobOf(w).owner, JobOf(w).ids)
             r == [run[w] EXCEPT !.scope = scope, !.pc = "mark"]
  <2>1. scope \in SUBSET Caches
    BY <1>3, QueryTypes
  <2>2. run' = [run EXCEPT ![w] = r]
    BY <1>1, <1>7 DEF ResolveScope
  <2> HIDE DEF scope
  <2>3. r \in Run /\ r.pc = "mark" /\ r.job = run[w].job
    BY <1>1, <2>1 DEF Run
  <2> HIDE DEF r
  <2> QED BY <1>2, <1>5, <1>6, <2>2, <2>3, LocalStepKeepsQueue
<1>8. CASE ReadCoords(w)
  <2> DEFINE coords == CoordsFor(JobOf(w).owner, run[w].scope)
             r == [run[w] EXCEPT !.coords = coords, !.pc = "neighbours"]
  <2>1. coords \in [Caches -> Locations \cup {None}]
    BY QueryTypes
  <2>2. run' = [run EXCEPT ![w] = r]
    BY <1>1, <1>8 DEF ReadCoords
  <2> HIDE DEF coords
  <2>3. r \in Run /\ r.pc = "neighbours" /\ r.job = run[w].job
    BY <1>1, <2>1 DEF Run
  <2> HIDE DEF r
  <2> QED BY <1>2, <1>5, <1>6, <2>2, <2>3, LocalStepKeepsQueue
<1>9. CASE ReadNeighbours(w)
  <2> DEFINE pairs == NearestNeighbors(JobOf(w).owner, run[w].scope)
             r == [run[w] EXCEPT !.pairs = pairs, !.at = loc, !.pc = "version"]
  <2>1. pairs \in SUBSET Pairs /\ loc \in [Caches -> Locations \cup {None}]
    BY QueryTypes DEF StoreTypeOK
  <2>2. run' = [run EXCEPT ![w] = r]
    BY <1>1, <1>9 DEF ReadNeighbours
  <2> HIDE DEF pairs
  <2>3. r \in Run /\ r.pc = "version" /\ r.job = run[w].job
    BY <1>1, <2>1 DEF Run
  <2> HIDE DEF r
  <2> QED BY <1>2, <1>5, <1>6, <2>2, <2>3, LocalStepKeepsQueue
<1>10. CASE ReadVersion(w)
  <2> DEFINE next == IF run[w].pairs = {} THEN "fresh" ELSE "cached"
             r == [run[w] EXCEPT !.version = versionFile, !.pc = next]
  <2>1. versionFile \in Versions /\ versionFile # None
    BY ConstantTypes DEF StoreTypeOK
  <2>2. run' = [run EXCEPT ![w] = r]
    BY <1>1, <1>10 DEF ReadVersion
  <2>3. next \in {"fresh", "cached"}
    OBVIOUS
  <2> HIDE DEF next
  <2>4. r \in Run /\ r.pc = next /\ r.version = versionFile /\ r.job = run[w].job
    BY <1>1, <2>1, <2>3 DEF Run
  <2> HIDE DEF r
  <2> QED BY <1>2, <2>3, <1>5, <1>6, <2>1, <2>2, <2>4, LocalStepKeepsQueue
<1>11. CASE FilterCached(w)
  <2> DEFINE missing == run[w].pairs \ FindMatrixCells(legs, run[w].pairs, run[w].version)
             todo == {o \in Caches :
                        /\ run[w].coords[o] # None
                        /\ \E d \in Destinations(missing, o) : run[w].coords[d] # None}
             next == IF todo = {} THEN "cells" ELSE "fetch"
             r == [run[w] EXCEPT !.missing = missing, !.todo = todo, !.pc = next]
  <2>1. missing \in SUBSET Pairs
    BY <1>1 DEF Run
  <2>2. todo \in SUBSET Caches /\ \A o \in todo : run[w].coords[o] # None
    OBVIOUS
  <2>3. run[w].version # None
    BY <1>11 DEF FilterCached, At, QueueInv, RunsKnow
  <2>4. run' = [run EXCEPT ![w] = r]
    BY <1>1, <1>11 DEF FilterCached
  <2>5. next \in {"cells", "fetch"}
    OBVIOUS
  <2> HIDE DEF missing, todo, next
  <2>6. r \in Run /\ r.pc # "idle" /\ r.version = run[w].version /\ r.job = run[w].job
        /\ r.todo = todo /\ r.coords = run[w].coords
    BY <1>1, <2>1, <2>2, <2>5 DEF Run
  <2> HIDE DEF r
  <2> QED BY <1>2, <1>5, <1>6, <2>2, <2>3, <2>4, <2>6, LocalStepKeepsQueue
<1>12. ASSUME NEW o \in Caches, FetchOrigin(w, o) PROVE QueueInv'
  <2> DEFINE asked == {p \in run[w].missing : p[1] = o}
             cells == [p \in Pairs |-> IF p \in asked THEN Cell(run[w], o, p[2])
                                                      ELSE run[w].cells[p]]
             noroutes == run[w].noroutes \cup {p \in asked : Cell(run[w], o, p[2]) = None}
             todo == run[w].todo \ {o}
             next == IF run[w].todo = {o} THEN "cells" ELSE "fetch"
             r == [run[w] EXCEPT !.cells = cells, !.noroutes = noroutes,
                                 !.todo = todo, !.pc = next]
  <2>1. /\ o \in run[w].todo /\ At(w, "fetch")
        /\ engine \in Versions /\ run[w].version # None
    BY <1>12 DEF FetchOrigin, At, QueueInv, RunsKnow, StoreTypeOK
  <2>2. asked \in SUBSET Pairs /\ noroutes \in SUBSET Pairs
    BY <1>1 DEF Run
  <2>3. \A d : Cell(run[w], o, d) \in Figure \cup {None}
    BY <2>1, CellType
  <2>4. cells \in [Pairs -> Figure \cup {None}]
    BY <1>1, <2>3 DEF Run
  <2>5. todo \in SUBSET Caches /\ \A c \in todo : run[w].coords[c] # None
    BY <1>1, <1>4, <2>1 DEF Run
  <2>6. next \in {"cells", "fetch"}
    OBVIOUS
  <2>7. run' = [run EXCEPT ![w] = r]
    BY <1>1, <1>12 DEF FetchOrigin
  <2> HIDE DEF asked, cells, noroutes, todo, next
  <2>8. r \in Run /\ r.pc # "idle" /\ r.version = run[w].version /\ r.job = run[w].job
        /\ r.todo = todo /\ r.coords = run[w].coords
    BY <1>1, <2>2, <2>4, <2>5, <2>6 DEF Run
  <2> HIDE DEF r
  <2> QED BY <1>2, <1>5, <2>1, <2>5, <2>7, <2>8, LocalStepKeepsQueue
<1> QED BY <1>6, <1>7, <1>8, <1>9, <1>10, <1>11, <1>12 DEF LocalStep

\* The steps that write: to the database, and to the queue when process()
\* returns or throws.
LEMMA WritingStepsKeepTypes ==
    ASSUME Inv, NEW w \in Workers, Process(w) \/ StatementFails(w), ~LocalStep(w)
    PROVE  StoreTypeOK' /\ QueueInv'
<1> USE DEF Inv
<1>1. run[w] \in Run /\ run \in [Workers -> Run]
  BY DEF QueueInv, QueueTypeOK
<1>2. ASSUME ~At(w, "idle"), NEW pc, Goto(w, pc), UNCHANGED <<edits, jobs>>,
             pc \in {"coords", "noroutes", "fresh", "catch"},
             pc = "noroutes" => At(w, "cells")
      PROVE  QueueInv'
  <2> DEFINE r == [run[w] EXCEPT !.pc = pc]
  <2>1. r \in Run /\ r.pc = pc /\ r.job = run[w].job /\ r.version = run[w].version
    BY <1>1, <1>2 DEF Run
  <2>2. run' = [run EXCEPT ![w] = r]
    BY <1>1, <1>2 DEF Goto
  <2>3. pc = "noroutes" => run[w].version # None
    BY <1>2 DEF QueueInv, RunsKnow, At
  <2> HIDE DEF r
  <2> QED BY <1>2, <2>1, <2>2, <2>3, LocalStepKeepsQueue
<1>3. ASSUME NEW j \in JobIds, Take(w, j) PROVE StoreTypeOK' /\ QueueInv'
  <2> DEFINE r == [Idle EXCEPT !.pc = "affected", !.job = j]
             job == [jobs[j] EXCEPT !.status = "active"]
  <2>1. /\ r \in Run /\ r.pc = "affected" /\ r.job = j
    BY DEF Idle, Run, Nowhere, NoCells
  <2>2. job \in Job /\ job.status = "active"
        /\ job.attempts = jobs[j].attempts /\ job.stalls = jobs[j].stalls
    BY DEF Job, QueueInv, QueueTypeOK
  <2>3. jobs' = [jobs EXCEPT ![j] = job] /\ run' = [run EXCEPT ![w] = r]
    BY <1>3 DEF Take, QueueInv, QueueTypeOK
  <2>4. jobs[j].status = "waiting" /\ UNCHANGED edits /\ UNCHANGED storeVars
    BY <1>3 DEF Take
  <2> HIDE DEF r, job
  <2>5. QueueTypeOK'
    BY <2>1, <2>2, <2>3, <2>4 DEF QueueInv, QueueTypeOK
  <2>6. JobsHeld'
    BY <1>1, <2>1, <2>2, <2>3, <2>4 DEF QueueInv, JobsHeld, QueueTypeOK, At, JobOf
  <2>7. JobsWithinLimits'
    BY <2>2, <2>3, <2>4 DEF QueueInv, JobsWithinLimits, QueueTypeOK
  <2>8. RunsKnow'
    BY <1>1, <2>1, <2>3 DEF QueueInv, RunsKnow, At
  <2>9. StoreTypeOK'
    BY <2>4 DEF StoreTypeOK, storeVars
  <2> QED BY <2>5, <2>6, <2>7, <2>8, <2>9 DEF QueueInv
<1>4. CASE MarkInProgress(w)
  <2>1. MarkBulk(run[w].scope, "in_progress", None) \in [Caches -> PrecomputeState]
    BY MarkBulkType
  <2>2. StoreTypeOK'
    BY <1>4, <2>1 DEF MarkInProgress, StoreTypeOK
  <2>3. QueueInv'
    BY <1>2, <1>4, ThrowKeepsQueue DEF MarkInProgress, At
  <2> QED BY <2>2, <2>3
<1>5. CASE PersistCells(w)
  <2>1. run[w].version \in Versions /\ run[w].cells \in [Pairs -> Figure \cup {None}]
    BY <1>1, <1>5 DEF PersistCells, At, QueueInv, RunsKnow, Run
  <2>2. UpsertMatrixCells(legs, run[w].cells, run[w].version) \in Table
    BY <2>1, TableTypes DEF StoreTypeOK
  <2>3. StoreTypeOK'
    BY <1>5, <2>2 DEF PersistCells, StoreTypeOK
  <2>4. QueueInv'
    BY <1>2, <1>5 DEF PersistCells, At
  <2> QED BY <2>3, <2>4
<1>6. CASE PersistNoroutes(w)
  <2>1. run[w].version \in Versions /\ run[w].cells \in [Pairs -> Figure \cup {None}]
    BY <1>1, <1>6 DEF PersistNoroutes, At, QueueInv, RunsKnow, Run
  <2>2. UpsertNorouteCells(legs, run[w].noroutes, run[w].version) \in Table
    BY <2>1, TableTypes DEF StoreTypeOK
  <2>3. StoreTypeOK'
    BY <1>6, <2>2 DEF PersistNoroutes, StoreTypeOK
  <2>4. QueueInv'
    BY <1>2, <1>6 DEF PersistNoroutes, At
  <2> QED BY <2>3, <2>4
<1>7. CASE MarkFresh(w)
  <2>1. MarkBulk(run[w].scope, "fresh", run[w].version) \in [Caches -> PrecomputeState]
    BY <1>1, MarkBulkType DEF Run
  <2>2. StoreTypeOK'
    BY <1>7, <2>1 DEF MarkFresh, StoreTypeOK
  <2>3. CASE run[w].scope \subseteq Present
    <3> DEFINE job == [jobs[run[w].job] EXCEPT !.status = "completed"]
    <3>1. job \in Job /\ job.status = "completed"
      BY <1>7 DEF MarkFresh, At, QueueInv, QueueTypeOK, JobsHeld, Job
    <3>2. jobs' = [jobs EXCEPT ![run[w].job] = job]
      BY <1>7, <2>3 DEF MarkFresh, At, QueueInv, QueueTypeOK, JobsHeld
    <3>3. run' = [run EXCEPT ![w] = Idle] /\ UNCHANGED edits /\ ~At(w, "idle")
      BY <1>7, <2>3 DEF MarkFresh, At
    <3> HIDE DEF job
    <3> QED BY <2>2, <3>1, <3>2, <3>3, EndKeepsQueue
  <2>4. CASE ~(run[w].scope \subseteq Present)
    <3>1. QueueInv'
      BY <1>2, <1>7, <2>4 DEF MarkFresh, At
    <3> QED BY <2>2, <3>1
  <2> QED BY <2>3, <2>4
<1>8. CASE MarkFailed(w)
  <2>1. MarkBulk(run[w].scope, "failed", None) \in [Caches -> PrecomputeState]
    BY MarkBulkType
  <2>2. StoreTypeOK'
    BY <1>8, <2>1 DEF MarkFailed, StoreTypeOK
  <2>3. QueueInv'
    BY <1>8, ThrowKeepsQueue DEF MarkFailed, At
  <2> QED BY <2>2, <2>3
<1>9. CASE FetchFails(w)
  <2>1. StoreTypeOK'
    BY <1>9, ConstantTypes DEF FetchFails, Inject, StoreTypeOK
  <2>2. QueueInv'
    BY <1>2, <1>9 DEF FetchFails, At
  <2> QED BY <2>1, <2>2
<1>10. CASE StatementFails(w)
  <2>1. StoreTypeOK'
    BY <1>10, ConstantTypes DEF StatementFails, Inject, StoreTypeOK
  <2>2. ~At(w, "idle") /\ UNCHANGED edits
    BY <1>10 DEF StatementFails, At
  <2>3. \/ Goto(w, "catch") /\ UNCHANGED jobs
        \/ Throw(w)
    BY <1>10 DEF StatementFails
  <2>4. QueueInv'
    BY <1>2, <2>2, <2>3, ThrowKeepsQueue
  <2> QED BY <2>1, <2>4
<1> QED BY <1>3, <1>4, <1>5, <1>6, <1>7, <1>8, <1>9, <1>10 DEF Process, LocalStep

----------------------------------------------------------------------------
(***************************************************************************)
(* Steps of the requests, and a crash.                                     *)
(***************************************************************************)

\* A request whose local variables become q.
LEMMA RequestStepKeepsRequests ==
    ASSUME RequestInv, NEW r \in Requests, NEW q \in Request,
           req' = [req EXCEPT ![r] = q],
           \A p \in q.wanted : q.coords[p[1]] # None /\ q.coords[p[2]] # None,
           q.pc = "osrm" => q.missing \subseteq q.wanted,
           q.pc \in {"find", "osrm", "cells", "noroutes"} => q.version # None
    PROVE  RequestInv'
<1>1. RequestTypeOK'
  BY DEF RequestInv, RequestTypeOK
<1>2. RequestsKnow'
  BY DEF RequestInv, RequestsKnow, RequestTypeOK
<1> QED BY <1>1, <1>2 DEF RequestInv

LEMMA DoneType ==
    /\ NoRequest \in Request /\ Done \in Request
    /\ Done.wanted = {} /\ Done.missing = {} /\ Done.pc = "done"
    /\ NoRequest.wanted = {} /\ NoRequest.missing = {} /\ NoRequest.pc = "unused"
BY DEF NoRequest, Done, Request

LEMMA DoneKeepsRequests ==
    ASSUME RequestInv, NEW r \in Requests, req' = [req EXCEPT ![r] = Done]
    PROVE  RequestInv'
BY DoneType, RequestStepKeepsRequests

LEMMA ReadCoordsKeepsRequests ==
    ASSUME Inv, NEW r \in Requests, NEW kind \in {"leg", "matrix"},
           NEW owner \in Owners, NEW ids \in SUBSET Caches, NEW wanted \in SUBSET Pairs,
           \A p \in wanted : p[1] \in ids /\ p[2] \in ids,
           ReadRequestCoords(r, kind, owner, ids, wanted)
    PROVE  StoreTypeOK' /\ RequestInv'
<1> USE DEF Inv
<1> DEFINE coords == CoordsFor(owner, ids)
           q == [req[r] EXCEPT !.pc = "version", !.kind = kind,
                               !.wanted = wanted, !.coords = coords]
<1>1. req[r] \in Request /\ req \in [Requests -> Request]
  BY DEF RequestInv, RequestTypeOK
<1>2. coords \in [Caches -> Locations \cup {None}]
  BY QueryTypes
<1>3. \A c \in ids : coords[c] # None
  BY DEF ReadRequestCoords, CoordsFor, Present
<1>4. req' = [req EXCEPT ![r] = q]
  BY <1>1 DEF ReadRequestCoords
<1> HIDE DEF coords
<1>5. q \in Request /\ q.pc = "version" /\ q.wanted = wanted
      /\ q.coords = coords
  BY <1>1, <1>2 DEF Request
<1> HIDE DEF q
<1>6. RequestInv'
  BY <1>3, <1>4, <1>5, RequestStepKeepsRequests
<1> QED BY <1>6 DEF ReadRequestCoords, StoreTypeOK, storeVars

LEMMA ServeKeepsTypes ==
    ASSUME Inv, NEW r \in Requests, Serve(r)
    PROVE  StoreTypeOK' /\ RequestInv'
<1> USE DEF Inv
<1>1. req[r] \in Request /\ req \in [Requests -> Request]
  BY DEF RequestInv, RequestTypeOK
<1>2. \A p \in req[r].wanted :
        req[r].coords[p[1]] # None /\ req[r].coords[p[2]] # None
  BY DEF RequestInv, RequestsKnow
<1>3. ASSUME NEW p \in Pairs, GetLeg(r, p) PROVE StoreTypeOK' /\ RequestInv'
  <2>1. Owner[p[1]] \in Owners /\ {p[1], p[2]} \in SUBSET Caches /\ {p} \in SUBSET Pairs
    BY ConstantTypes DEF Pairs
  <2> QED BY <1>3, <2>1, ReadCoordsKeepsRequests DEF GetLeg
<1>4. ASSUME NEW ids \in RequestSets, NEW owner \in Owners, GetMatrix(r, ids, owner)
      PROVE  StoreTypeOK' /\ RequestInv'
  <2>1. ids \in SUBSET Caches
    BY ConstantTypes
  <2>2. \A p \in Pairs \cap (ids \X ids) : p[1] \in ids /\ p[2] \in ids
    OBVIOUS
  <2> QED BY <1>4, <2>1, <2>2, ReadCoordsKeepsRequests DEF GetMatrix
<1>5. CASE ReadRequestVersion(r)
  <2> DEFINE q == [req[r] EXCEPT !.version = versionFile, !.pc = "find"]
  <2>1. versionFile \in Versions /\ versionFile # None
    BY ConstantTypes DEF StoreTypeOK
  <2>2. q \in Request /\ q.pc = "find" /\ q.wanted = req[r].wanted
        /\ q.coords = req[r].coords /\ q.version = versionFile
    BY <1>1, <2>1 DEF Request
  <2>3. req' = [req EXCEPT ![r] = q]
    BY <1>1, <1>5 DEF ReadRequestVersion
  <2> HIDE DEF q
  <2>4. RequestInv'
    BY <1>2, <2>1, <2>2, <2>3, RequestStepKeepsRequests
  <2> QED BY <1>5, <2>4 DEF ReadRequestVersion, StoreTypeOK, storeVars
<1>6. CASE FindStored(r)
  <2> DEFINE found == IF req[r].kind = "leg"
                      THEN FindLegs(legs, req[r].wanted, req[r].version)
                      ELSE FindMatrixCells(legs, req[r].wanted, req[r].version)
             missing == req[r].wanted \ found
             q == [req[r] EXCEPT !.missing = missing, !.pc = "osrm"]
  <2>1. missing \subseteq req[r].wanted /\ missing \in SUBSET Pairs
    BY <1>1 DEF Request
  <2>2. req[r].version # None
    BY <1>6 DEF FindStored, RequestInv, RequestsKnow
  <2>3. req' = [req EXCEPT ![r] = Done] \/ req' = [req EXCEPT ![r] = q]
    BY <1>6 DEF FindStored
  <2> HIDE DEF found, missing
  <2>4. q \in Request /\ q.pc = "osrm" /\ q.wanted = req[r].wanted
        /\ q.coords = req[r].coords /\ q.version = req[r].version /\ q.missing = missing
    BY <1>1, <2>1 DEF Request
  <2> HIDE DEF q
  <2>5. CASE req' = [req EXCEPT ![r] = Done]
    BY <1>6, <2>5, DoneKeepsRequests DEF FindStored, StoreTypeOK, storeVars
  <2>6. CASE req' = [req EXCEPT ![r] = q]
    <3>1. RequestInv'
      BY <1>2, <2>1, <2>2, <2>4, <2>6, RequestStepKeepsRequests
    <3> QED BY <1>6, <3>1 DEF FindStored, StoreTypeOK, storeVars
  <2> QED BY <2>3, <2>5, <2>6
<1>7. ASSUME NEW o \in Caches, AskOsrm(r, o) PROVE StoreTypeOK' /\ RequestInv'
  <2> DEFINE asked == {p \in req[r].missing : p[1] = o}
             figure == [p \in Pairs |->
                          <<engine, req[r].coords[p[1]], req[r].coords[p[2]]>>]
             routed == {p \in asked : Answer[figure[p]] # "noroute"}
             cells == [p \in Pairs |-> IF p \in routed THEN figure[p]
                                                       ELSE req[r].cells[p]]
             noroutes == req[r].noroutes \cup (asked \ routed)
             missing == req[r].missing \ asked
             next == IF req[r].missing = asked THEN "cells" ELSE "osrm"
             q == [req[r] EXCEPT !.cells = cells, !.noroutes = noroutes,
                                 !.missing = missing, !.pc = next]
  <2>1. req[r].missing \subseteq req[r].wanted /\ req[r].version # None
    BY <1>7 DEF AskOsrm, RequestInv, RequestsKnow
  <2>2. engine \in Versions
    BY <1>7 DEF AskOsrm, StoreTypeOK
  <2>3. asked \in SUBSET Pairs /\ routed \in SUBSET Pairs /\ asked \subseteq req[r].wanted
        /\ routed \subseteq asked
    BY <1>1, <2>1 DEF Request
  <2>4. \A p \in routed : figure[p] \in Figure
    <3> SUFFICES ASSUME NEW p \in routed PROVE figure[p] \in Figure
      OBVIOUS
    <3>1. p \in Pairs /\ p[1] \in Caches /\ p[2] \in Caches
      BY <2>3 DEF Pairs
    <3>2. req[r].coords[p[1]] \in Locations /\ req[r].coords[p[2]] \in Locations
      BY <1>1, <1>2, <2>3, <3>1 DEF Request
    <3> QED BY <2>2, <3>1, <3>2 DEF Figure
  <2>5. cells \in [Pairs -> Figure \cup {None}]
    BY <1>1, <2>4 DEF Request
  <2>6. noroutes \in SUBSET Pairs /\ missing \in SUBSET Pairs /\ missing \subseteq req[r].wanted
    BY <1>1, <2>1, <2>3 DEF Request
  <2>7. next \in {"cells", "osrm"}
    OBVIOUS
  <2>8. req' = [req EXCEPT ![r] = q]
    BY <1>1, <1>7 DEF AskOsrm
  <2> HIDE DEF asked, figure, routed, cells, noroutes, missing, next
  <2>9. q \in Request /\ q.wanted = req[r].wanted
        /\ q.coords = req[r].coords /\ q.version = req[r].version /\ q.missing = missing
    BY <1>1, <2>5, <2>6, <2>7 DEF Request
  <2> HIDE DEF q
  <2>10. RequestInv'
    BY <1>2, <2>1, <2>6, <2>8, <2>9, RequestStepKeepsRequests
  <2> QED BY <1>7, <2>10 DEF AskOsrm, StoreTypeOK, storeVars
<1>8. CASE OsrmFails(r)
  <2>1. RequestInv'
    BY <1>8, DoneKeepsRequests DEF OsrmFails
  <2> QED BY <1>8, <2>1, ConstantTypes DEF OsrmFails, Inject, StoreTypeOK
<1>9. CASE StoreCells(r)
  <2>1. req[r].version \in Versions /\ req[r].cells \in [Pairs -> Figure \cup {None}]
    BY <1>1, <1>9 DEF StoreCells, RequestInv, RequestsKnow, Request
  <2>2. Stored(req[r]) \in Table
    BY <2>1, TableTypes DEF Stored, StoreTypeOK
  <2>3. StoreTypeOK'
    BY <1>9, <2>2 DEF StoreCells, StoreTypeOK
  <2> DEFINE q == [req[r] EXCEPT !.pc = "noroutes"]
  <2>4. req' = [req EXCEPT ![r] = Done] \/ req' = [req EXCEPT ![r] = q]
    BY <1>9 DEF StoreCells
  <2>5. q \in Request /\ q.pc = "noroutes" /\ q.wanted = req[r].wanted
        /\ q.coords = req[r].coords /\ q.version = req[r].version
    BY <1>1 DEF Request
  <2> HIDE DEF q
  <2>6. q.version # None
    BY <2>1, <2>5, ConstantTypes
  <2>7. RequestInv'
    BY <1>2, <2>4, <2>5, <2>6, DoneKeepsRequests, RequestStepKeepsRequests
  <2> QED BY <2>3, <2>7
<1>10. CASE StoreNoroutes(r)
  <2>1. req[r].version \in Versions
    BY <1>1, <1>10 DEF StoreNoroutes, RequestInv, RequestsKnow, Request
  <2>2. UpsertNorouteCells(legs, req[r].noroutes, req[r].version) \in Table
    <3>1. req[r].cells \in [Pairs -> Figure \cup {None}]
      BY <1>1 DEF Request
    <3> QED BY <2>1, <3>1, TableTypes DEF StoreTypeOK
  <2>3. StoreTypeOK'
    BY <1>10, <2>2 DEF StoreNoroutes, StoreTypeOK
  <2> QED BY <1>10, <2>3, DoneKeepsRequests DEF StoreNoroutes
<1> QED BY <1>3, <1>4, <1>5, <1>6, <1>7, <1>8, <1>9, <1>10 DEF Serve, AnyLeg

\* A crash empties the local variables and hands the active jobs back.
LEMMA CrashKeepsTypes ==
    ASSUME Inv, Crash
    PROVE  Inv'
<1> USE DEF Inv
<1>1. StoreTypeOK'
  BY ConstantTypes DEF Crash, Inject, StoreTypeOK
<1>2. run' = [w \in Workers |-> Idle]
  BY DEF Crash, CrashQueue
<1> DEFINE Stalled(job) ==
             IF job.status # "active" THEN job
             ELSE [job EXCEPT !.stalls = @ + 1,
                              !.status = IF job.stalls >= MaxStalls THEN "failed"
                                                                    ELSE "waiting"]
<1>3. jobs' = [j \in JobIds |-> Stalled(jobs[j])]
  BY DEF Crash, CrashQueue
<1>4. ASSUME NEW j \in JobIds
      PROVE  /\ Stalled(jobs[j]) \in Job
             /\ Stalled(jobs[j]).status \in {"waiting", "active"} =>
                  /\ Stalled(jobs[j]).attempts < MaxAttempts
                  /\ Stalled(jobs[j]).stalls <= MaxStalls
  <2>1. jobs[j] \in Job
    BY DEF QueueInv, QueueTypeOK
  <2>2. jobs[j].status \in {"waiting", "active"}
          => jobs[j].attempts < MaxAttempts /\ jobs[j].stalls <= MaxStalls
    BY DEF QueueInv, JobsWithinLimits
  <2>3. CASE jobs[j].status # "active"
    BY <2>1, <2>2, <2>3
  <2>4. CASE jobs[j].status = "active"
    <3> DEFINE stalls == jobs[j].stalls + 1
               status == IF jobs[j].stalls >= MaxStalls THEN "failed" ELSE "waiting"
               job == [jobs[j] EXCEPT !.stalls = stalls, !.status = status]
    <3>1. stalls \in 0..(MaxStalls + 1) /\ (status = "waiting" => stalls <= MaxStalls)
      BY <2>1, <2>2, <2>4, ConstantTypes DEF Job
    <3>2. status \in {"failed", "waiting"}
      OBVIOUS
    <3>3. Stalled(jobs[j]) = job
      BY <2>1, <2>4 DEF Job
    <3> HIDE DEF stalls, status
    <3>4. job \in Job /\ job.status = status /\ job.stalls = stalls
          /\ job.attempts = jobs[j].attempts
      BY <2>1, <3>1, <3>2 DEF Job
    <3> HIDE DEF job, Stalled
    <3> QED BY <2>2, <2>4, <3>1, <3>2, <3>3, <3>4
  <2> QED BY <2>3, <2>4
<1> HIDE DEF Stalled
<1>5. QueueTypeOK'
  <2>1. edits' \in [EditIds -> Edit]
    BY DEF Crash, CrashQueue, QueueInv, QueueTypeOK, Edit
  <2> QED BY <1>2, <1>3, <1>4, <2>1, IdleType DEF QueueTypeOK
<1>6. JobsHeld'
  BY <1>2, IdleType DEF JobsHeld, At
<1>7. JobsWithinLimits'
  BY <1>3, <1>4 DEF JobsWithinLimits
<1>8. RunsKnow'
  BY <1>2, IdleType DEF RunsKnow, At
<1>9. RequestInv'
  BY DoneType DEF Crash, CrashRequests, RequestInv, RequestTypeOK, RequestsKnow
<1> QED BY <1>1, <1>5, <1>6, <1>7, <1>8, <1>9 DEF QueueInv

----------------------------------------------------------------------------
(***************************************************************************)
(* The theorem.                                                            *)
(***************************************************************************)

LEMMA InitInv == Init => Inv
<1> SUFFICES ASSUME Init PROVE Inv
  OBVIOUS
<1>1. StoreTypeOK
  BY ConstantTypes DEF Init, StoreInit, StoreTypeOK, Table, PrecomputeState
<1>2. QueueTypeOK
  <2>1. 0 \in 0..MaxAttempts /\ 0 \in 0..(MaxStalls + 1)
    BY ConstantTypes
  <2>2. UnusedJob \in Job
    BY <2>1 DEF UnusedJob, Job
  <2> QED BY <2>2, IdleType DEF Init, QueueInit, QueueTypeOK, Edit
<1>3. JobsHeld /\ JobsWithinLimits /\ RunsKnow
  BY IdleType DEF Init, QueueInit, JobsHeld, JobsWithinLimits, RunsKnow, At, UnusedJob
<1>4. RequestInv
  BY DoneType DEF Init, RequestInit, RequestInv, RequestTypeOK, RequestsKnow
<1> QED BY <1>1, <1>2, <1>3, <1>4 DEF Inv, QueueInv

LEMMA NextInv == Inv /\ [Next]_vars => Inv'
<1> SUFFICES ASSUME Inv, [Next]_vars PROVE Inv'
  OBVIOUS
<1>1. UNCHANGED req => RequestInv'
  BY DEF Inv, RequestInv, RequestTypeOK, RequestsKnow
<1>2. UNCHANGED queueVars => QueueInv'
  BY DEF Inv, queueVars, QueueInv, QueueTypeOK, JobsHeld, JobsWithinLimits,
     RunsKnow, At, JobOf
<1>3. CASE Produce /\ UNCHANGED req
  BY <1>1, <1>3, ProduceKeepsTypes DEF Inv
<1>4. CASE Work /\ UNCHANGED req
  <2>1. PICK w \in Workers : Process(w) \/ StatementFails(w)
    BY <1>4 DEF Work
  <2> QED BY <1>1, <1>4, <2>1, LocalStepsKeepTypes, WritingStepsKeepTypes DEF Inv
<1>5. CASE (Store \/ Osrm) /\ UNCHANGED <<queueVars, req>>
  BY <1>1, <1>2, <1>5, StoreKeepsTypes DEF Inv
<1>6. CASE (\E r \in Requests : Serve(r)) /\ UNCHANGED queueVars
  BY <1>2, <1>6, ServeKeepsTypes DEF Inv
<1>7. CASE Crash
  BY <1>7, CrashKeepsTypes
<1>8. CASE UNCHANGED vars
  <2>1. StoreTypeOK'
    BY <1>8 DEF Inv, StoreTypeOK, vars, storeVars
  <2> QED BY <1>1, <1>2, <1>8, <2>1 DEF Inv, vars
<1> QED BY <1>3, <1>4, <1>5, <1>6, <1>7, <1>8 DEF Next

\* The whole inductive invariant: besides the types, no job is worked by two
\* workers, none that will run again is out of attempts, and neither
\* process() nor a request uses a coordinate or a version it does not have.
THEOREM Invariance == Spec => []Inv
BY InitInv, NextInv, PTL DEF Spec

\* Every variable keeps its type: in particular every stored row is complete
\* (figures for "table" and "route", none for "noroute") and carries the
\* version of an extract, whatever the interleaving of its writers.
THEOREM TypeCorrect == Spec => []TypeOK
<1>1. Inv => TypeOK
  BY DEF Inv, QueueInv, RequestInv, TypeOK
<1> QED BY <1>1, Invariance, PTL

----------------------------------------------------------------------------
(***************************************************************************)
(* SameOwnerLegs.  The table has no owner column: that no row joins two    *)
(* owners' caches rests on what the queries put into the local variables.  *)
(***************************************************************************)

OwnerInv == SameOwnerLegs /\ LocalsHaveOneOwner

LEMMA InitOwner == Init => OwnerInv
<1> SUFFICES ASSUME Init PROVE OwnerInv
  OBVIOUS
<1>1. SameOwnerLegs
  BY DEF Init, StoreInit, SameOwnerLegs
<1>2. LocalsHaveOneOwner
  BY DEF Init, QueueInit, RequestInit, LocalsHaveOneOwner, RunHasOneOwner,
     RequestHasOneOwner, Idle, NoCells, NoRequest
<1> QED BY <1>1, <1>2 DEF OwnerInv

\* What is inserted has one owner if the local variables have.
LEMMA NextSameOwnerLegs ==
    ASSUME OwnerInv, [Next]_vars
    PROVE  SameOwnerLegs'
<1> USE DEF OwnerInv, SameOwnerLegs
<1>1. CASE legs' = legs
  BY <1>1 DEF SameOwner
<1>2. ASSUME NEW ids, legs' = DeleteTouching(legs, ids) PROVE SameOwnerLegs'
  BY <1>2 DEF DeleteTouching, SameOwner
<1>3. ASSUME NEW pairs, legs' = DeleteSuspiciousLegs(legs, pairs, versionFile)
      PROVE  SameOwnerLegs'
  BY <1>3 DEF DeleteSuspiciousLegs, SameOwner
<1>4. ASSUME NEW cells, NEW v, \A p \in Pairs : cells[p] # None => SameOwner(p),
             legs' = UpsertMatrixCells(legs, cells, v) \/ legs' = UpsertLegs(legs, cells, v)
      PROVE  SameOwnerLegs'
  BY <1>4 DEF UpsertMatrixCells, UpsertLegs, SameOwner
<1>5. ASSUME NEW noroutes, NEW v, \A p \in noroutes : SameOwner(p),
             legs' = UpsertNorouteCells(legs, noroutes, v)
      PROVE  SameOwnerLegs'
  BY <1>5 DEF UpsertNorouteCells, SameOwner
<1>6. /\ \A w \in Workers : RunHasOneOwner(run[w])
      /\ \A r \in Requests : RequestHasOneOwner(req[r])
  BY DEF LocalsHaveOneOwner
<1>7. WritesTable
  BY TableIsWrittenByStatements
<1>8. ASSUME NEW w \in Workers,
             \/ legs' = UpsertMatrixCells(legs, run[w].cells, run[w].version)
             \/ legs' = UpsertNorouteCells(legs, run[w].noroutes, run[w].version)
      PROVE  SameOwnerLegs'
  <2>1. /\ \A p \in Pairs : run[w].cells[p] # None => SameOwner(p)
        /\ \A p \in run[w].noroutes : SameOwner(p)
    BY <1>6 DEF RunHasOneOwner
  <2> QED BY <1>4, <1>5, <1>8, <2>1
<1>9. ASSUME NEW r \in Requests,
             \/ legs' = UpsertLegs(legs, req[r].cells, req[r].version)
             \/ legs' = UpsertMatrixCells(legs, req[r].cells, req[r].version)
             \/ legs' = UpsertNorouteCells(legs, req[r].noroutes, req[r].version)
      PROVE  SameOwnerLegs'
  <2>1. /\ \A p \in Pairs : req[r].cells[p] # None => SameOwner(p)
        /\ \A p \in req[r].noroutes : SameOwner(p)
    BY <1>6 DEF RequestHasOneOwner
  <2> QED BY <1>4, <1>5, <1>9, <2>1
<1> QED BY <1>1, <1>2, <1>3, <1>7, <1>8, <1>9 DEF WritesTable

\* The k-NN query joins on the owner; what process() derives from its pairs
\* are subsets of them.
LEMMA ProcessKeepsOneOwner ==
    ASSUME Inv, OwnerInv, NEW w \in Workers, Process(w) \/ StatementFails(w)
    PROVE  \A v \in Workers : RunHasOneOwner(run'[v])
<1>1. run \in [Workers -> Run] /\ run[w] \in Run
  BY DEF Inv, QueueInv, QueueTypeOK
<1>2. \A v \in Workers : RunHasOneOwner(run[v])
  BY DEF OwnerInv, LocalsHaveOneOwner
<1>3. ASSUME NEW r, RunHasOneOwner(r), run' = [run EXCEPT ![w] = r]
      PROVE  \A v \in Workers : RunHasOneOwner(run'[v])
  BY <1>1, <1>2, <1>3
<1>4. RunHasOneOwner(Idle)
  BY DEF RunHasOneOwner, Idle, NoCells
<1>5. ASSUME NEW pc, Goto(w, pc) PROVE \A v \in Workers : RunHasOneOwner(run'[v])
  <2>1. RunHasOneOwner([run[w] EXCEPT !.pc = pc])
    BY <1>1, <1>2 DEF RunHasOneOwner, Run
  <2>2. run' = [run EXCEPT ![w] = [run[w] EXCEPT !.pc = pc]]
    BY <1>1, <1>5 DEF Goto
  <2> QED BY <1>3, <2>1, <2>2
<1>6. ASSUME Throw(w) PROVE \A v \in Workers : RunHasOneOwner(run'[v])
  BY <1>3, <1>4, <1>6 DEF Throw
<1>7. ASSUME NEW j \in JobIds, Take(w, j) PROVE \A v \in Workers : RunHasOneOwner(run'[v])
  <2>1. RunHasOneOwner([Idle EXCEPT !.pc = "affected", !.job = j])
    BY DEF RunHasOneOwner, Idle, NoCells
  <2> QED BY <1>3, <1>7, <2>1 DEF Take
<1>8. ASSUME ReadNeighbours(w) PROVE \A v \in Workers : RunHasOneOwner(run'[v])
  <2> DEFINE pairs == NearestNeighbors(JobOf(w).owner, run[w].scope)
             r == [run[w] EXCEPT !.pairs = pairs, !.at = loc, !.pc = "version"]
  <2>1. \A p \in pairs : SameOwner(p)
    BY DEF NearestNeighbors, Near, SameOwner
  <2> HIDE DEF pairs
  <2>2. RunHasOneOwner(r)
    BY <1>1, <1>2, <2>1 DEF RunHasOneOwner, Run
  <2>3. run' = [run EXCEPT ![w] = r]
    BY <1>1, <1>8 DEF ReadNeighbours, pairs
  <2> QED BY <1>3, <2>2, <2>3
<1>9. ASSUME FilterCached(w) PROVE \A v \in Workers : RunHasOneOwner(run'[v])
  <2> DEFINE missing == run[w].pairs \ FindMatrixCells(legs, run[w].pairs, run[w].version)
             todo == {o \in Caches :
                        /\ run[w].coords[o] # None
                        /\ \E d \in Destinations(missing, o) : run[w].coords[d] # None}
             next == IF todo = {} THEN "cells" ELSE "fetch"
             r == [run[w] EXCEPT !.missing = missing, !.todo = todo, !.pc = next]
  <2>1. missing \subseteq run[w].pairs
    OBVIOUS
  <2>2. run' = [run EXCEPT ![w] = r]
    BY <1>1, <1>9 DEF FilterCached
  <2> HIDE DEF missing, todo, next
  <2>3. RunHasOneOwner(r)
    BY <1>1, <1>2, <2>1 DEF RunHasOneOwner, Run
  <2> QED BY <1>3, <2>2, <2>3
<1>10. ASSUME NEW o \in Caches, FetchOrigin(w, o)
       PROVE  \A v \in Workers : RunHasOneOwner(run'[v])
  <2> DEFINE asked == {p \in run[w].missing : p[1] = o}
             cells == [p \in Pairs |-> IF p \in asked THEN Cell(run[w], o, p[2])
                                                      ELSE run[w].cells[p]]
             noroutes == run[w].noroutes \cup {p \in asked : Cell(run[w], o, p[2]) = None}
             todo == run[w].todo \ {o}
             next == IF run[w].todo = {o} THEN "cells" ELSE "fetch"
             r == [run[w] EXCEPT !.cells = cells, !.noroutes = noroutes,
                                 !.todo = todo, !.pc = next]
  <2>1. \A p \in noroutes : SameOwner(p)
    BY <1>2 DEF RunHasOneOwner
  <2>2. \A p \in Pairs : cells[p] # None => SameOwner(p)
    BY <1>2 DEF RunHasOneOwner
  <2>3. run' = [run EXCEPT ![w] = r]
    BY <1>1, <1>10 DEF FetchOrigin
  <2> HIDE DEF asked, cells, noroutes, todo, next
  <2>4. RunHasOneOwner(r)
    BY <1>1, <1>2, <2>1, <2>2 DEF RunHasOneOwner, Run
  <2> QED BY <1>3, <2>3, <2>4
<1>11. ASSUME ResolveScope(w) PROVE \A v \in Workers : RunHasOneOwner(run'[v])
  <2> DEFINE scope == JobOf(w).ids \cup FindAffected(JobOf(w).owner, JobOf(w).ids)
             r == [run[w] EXCEPT !.scope = scope, !.pc = "mark"]
  <2>1. run' = [run EXCEPT ![w] = r]
    BY <1>1, <1>11 DEF ResolveScope
  <2> HIDE DEF scope
  <2>2. RunHasOneOwner(r)
    BY <1>1, <1>2 DEF RunHasOneOwner, Run
  <2> QED BY <1>3, <2>1, <2>2
<1>12. ASSUME ReadCoords(w) PROVE \A v \in Workers : RunHasOneOwner(run'[v])
  <2> DEFINE coords == CoordsFor(JobOf(w).owner, run[w].scope)
             r == [run[w] EXCEPT !.coords = coords, !.pc = "neighbours"]
  <2>1. run' = [run EXCEPT ![w] = r]
    BY <1>1, <1>12 DEF ReadCoords
  <2> HIDE DEF coords
  <2>2. RunHasOneOwner(r)
    BY <1>1, <1>2 DEF RunHasOneOwner, Run
  <2> QED BY <1>3, <2>1, <2>2
<1>13. ASSUME ReadVersion(w) PROVE \A v \in Workers : RunHasOneOwner(run'[v])
  <2> DEFINE next == IF run[w].pairs = {} THEN "fresh" ELSE "cached"
             r == [run[w] EXCEPT !.version = versionFile, !.pc = next]
  <2>1. run' = [run EXCEPT ![w] = r]
    BY <1>1, <1>13 DEF ReadVersion
  <2> HIDE DEF next
  <2>2. RunHasOneOwner(r)
    BY <1>1, <1>2 DEF RunHasOneOwner, Run
  <2> QED BY <1>3, <2>1, <2>2
<1>14. ASSUME MarkInProgress(w) PROVE \A v \in Workers : RunHasOneOwner(run'[v])
  BY <1>5, <1>6, <1>14 DEF MarkInProgress
<1>15. ASSUME PersistCells(w) PROVE \A v \in Workers : RunHasOneOwner(run'[v])
  BY <1>5, <1>15 DEF PersistCells
<1>16. ASSUME PersistNoroutes(w) PROVE \A v \in Workers : RunHasOneOwner(run'[v])
  BY <1>5, <1>16 DEF PersistNoroutes
<1>17. ASSUME MarkFresh(w) PROVE \A v \in Workers : RunHasOneOwner(run'[v])
  BY <1>3, <1>4, <1>5, <1>17 DEF MarkFresh
<1>18. ASSUME MarkFailed(w) \/ FetchFails(w) \/ StatementFails(w)
       PROVE  \A v \in Workers : RunHasOneOwner(run'[v])
  BY <1>5, <1>6, <1>18 DEF MarkFailed, FetchFails, StatementFails
<1> QED BY <1>7, <1>8, <1>9, <1>10, <1>11, <1>12, <1>13, <1>14, <1>15, <1>16,
           <1>17, <1>18 DEF Process

\* coordMapOrThrow refuses a request that names somebody else's cache.
LEMMA ServeKeepsOneOwner ==
    ASSUME Inv, OwnerInv, NEW r \in Requests, Serve(r)
    PROVE  \A s \in Requests : RequestHasOneOwner(req'[s])
<1>1. req \in [Requests -> Request] /\ req[r] \in Request
  BY DEF Inv, RequestInv, RequestTypeOK
<1>2. \A s \in Requests : RequestHasOneOwner(req[s])
  BY DEF OwnerInv, LocalsHaveOneOwner
<1>3. ASSUME NEW q, RequestHasOneOwner(q), req' = [req EXCEPT ![r] = q]
      PROVE  \A s \in Requests : RequestHasOneOwner(req'[s])
  BY <1>1, <1>2, <1>3
<1>4. RequestHasOneOwner(Done)
  BY DEF RequestHasOneOwner, Done, NoRequest
<1>5. ASSUME NEW kind, NEW owner, NEW ids, NEW wanted,
             \A p \in wanted : p[1] \in ids /\ p[2] \in ids,
             ReadRequestCoords(r, kind, owner, ids, wanted)
      PROVE  \A s \in Requests : RequestHasOneOwner(req'[s])
  <2> DEFINE coords == CoordsFor(owner, ids)
             q == [req[r] EXCEPT !.pc = "version", !.kind = kind,
                                 !.wanted = wanted, !.coords = coords]
  <2>1. \A p \in wanted : SameOwner(p)
    BY <1>5 DEF ReadRequestCoords, SameOwner
  <2>2. req' = [req EXCEPT ![r] = q]
    BY <1>1, <1>5 DEF ReadRequestCoords
  <2> HIDE DEF coords
  <2>3. RequestHasOneOwner(q)
    BY <1>1, <1>2, <2>1 DEF RequestHasOneOwner, Request
  <2> QED BY <1>3, <2>2, <2>3
<1>6. ASSUME NEW p \in Pairs, GetLeg(r, p)
      PROVE  \A s \in Requests : RequestHasOneOwner(req'[s])
  BY <1>5, <1>6 DEF GetLeg
<1>7. ASSUME NEW ids \in RequestSets, NEW owner \in Owners, GetMatrix(r, ids, owner)
      PROVE  \A s \in Requests : RequestHasOneOwner(req'[s])
  <2>1. \A p \in Pairs \cap (ids \X ids) : p[1] \in ids /\ p[2] \in ids
    OBVIOUS
  <2> QED BY <1>5, <1>7, <2>1 DEF GetMatrix
<1>8. ASSUME ReadRequestVersion(r) PROVE \A s \in Requests : RequestHasOneOwner(req'[s])
  <2> DEFINE q == [req[r] EXCEPT !.version = versionFile, !.pc = "find"]
  <2>1. req' = [req EXCEPT ![r] = q]
    BY <1>1, <1>8 DEF ReadRequestVersion
  <2>2. RequestHasOneOwner(q)
    BY <1>1, <1>2 DEF RequestHasOneOwner, Request
  <2> QED BY <1>3, <2>1, <2>2
<1>9. ASSUME FindStored(r) PROVE \A s \in Requests : RequestHasOneOwner(req'[s])
  <2> DEFINE found == IF req[r].kind = "leg"
                      THEN FindLegs(legs, req[r].wanted, req[r].version)
                      ELSE FindMatrixCells(legs, req[r].wanted, req[r].version)
             missing == req[r].wanted \ found
             q == [req[r] EXCEPT !.missing = missing, !.pc = "osrm"]
  <2>1. missing \subseteq req[r].wanted
    OBVIOUS
  <2>2. req' = [req EXCEPT ![r] = Done] \/ req' = [req EXCEPT ![r] = q]
    BY <1>9 DEF FindStored
  <2> HIDE DEF found, missing
  <2>3. RequestHasOneOwner(q)
    BY <1>1, <1>2, <2>1 DEF RequestHasOneOwner, Request
  <2> QED BY <1>3, <1>4, <2>2, <2>3
<1>10. ASSUME NEW o \in Caches, AskOsrm(r, o)
       PROVE  \A s \in Requests : RequestHasOneOwner(req'[s])
  <2> DEFINE asked == {p \in req[r].missing : p[1] = o}
             figure == [p \in Pairs |->
                          <<engine, req[r].coords[p[1]], req[r].coords[p[2]]>>]
             routed == {p \in asked : Answer[figure[p]] # "noroute"}
             cells == [p \in Pairs |-> IF p \in routed THEN figure[p]
                                                       ELSE req[r].cells[p]]
             noroutes == req[r].noroutes \cup (asked \ routed)
             missing == req[r].missing \ asked
             next == IF req[r].missing = asked THEN "cells" ELSE "osrm"
             q == [req[r] EXCEPT !.cells = cells, !.noroutes = noroutes,
                                 !.missing = missing, !.pc = next]
  <2>1. \A p \in noroutes \cup missing : SameOwner(p)
    BY <1>2 DEF RequestHasOneOwner
  <2>2. \A p \in Pairs : cells[p] # None => SameOwner(p)
    BY <1>2 DEF RequestHasOneOwner
  <2>3. req' = [req EXCEPT ![r] = q]
    BY <1>1, <1>10 DEF AskOsrm
  <2> HIDE DEF asked, figure, routed, cells, noroutes, missing, next
  <2>4. RequestHasOneOwner(q)
    BY <1>1, <1>2, <2>1, <2>2 DEF RequestHasOneOwner, Request
  <2> QED BY <1>3, <2>3, <2>4
<1>11. ASSUME OsrmFails(r) \/ StoreNoroutes(r)
       PROVE  \A s \in Requests : RequestHasOneOwner(req'[s])
  BY <1>3, <1>4, <1>11 DEF OsrmFails, StoreNoroutes
<1>12. ASSUME StoreCells(r) PROVE \A s \in Requests : RequestHasOneOwner(req'[s])
  <2> DEFINE q == [req[r] EXCEPT !.pc = "noroutes"]
  <2>1. req' = [req EXCEPT ![r] = Done] \/ req' = [req EXCEPT ![r] = q]
    BY <1>12 DEF StoreCells
  <2>2. RequestHasOneOwner(q)
    BY <1>1, <1>2 DEF RequestHasOneOwner, Request
  <2> QED BY <1>3, <1>4, <2>1, <2>2
<1> QED BY <1>6, <1>7, <1>8, <1>9, <1>10, <1>11, <1>12 DEF Serve, AnyLeg

LEMMA NextOwner == Inv /\ OwnerInv /\ [Next]_vars => OwnerInv'
<1> SUFFICES ASSUME Inv, OwnerInv, [Next]_vars PROVE OwnerInv'
  OBVIOUS
<1> DEFINE Runs == \A w \in Workers : RunHasOneOwner(run'[w])
           Reqs == \A r \in Requests : RequestHasOneOwner(req'[r])
<1>1. UNCHANGED run => Runs
  BY DEF OwnerInv, LocalsHaveOneOwner
<1>2. UNCHANGED req => Reqs
  BY DEF OwnerInv, LocalsHaveOneOwner
<1>3. CASE Produce /\ UNCHANGED req
  <2>1. UNCHANGED run
    BY <1>3 DEF Produce, Upload, Commit, ClearSolvedRequest, Revert, Enqueue,
       EnqueueFails, RetriggerStale, RetriggerOne
  <2> QED BY <1>1, <1>2, <1>3, <2>1, NextSameOwnerLegs
        DEF OwnerInv, LocalsHaveOneOwner, RunHasOneOwner, RequestHasOneOwner, SameOwner
<1>4. CASE Work /\ UNCHANGED req
  <2>1. Runs
    BY <1>4, ProcessKeepsOneOwner DEF Work
  <2> QED BY <1>2, <1>4, <2>1, NextSameOwnerLegs
        DEF OwnerInv, LocalsHaveOneOwner, RunHasOneOwner, RequestHasOneOwner, SameOwner
<1>5. CASE (Store \/ Osrm \/ UNCHANGED vars) /\ UNCHANGED <<queueVars, req>>
  BY <1>1, <1>2, <1>5, NextSameOwnerLegs
     DEF OwnerInv, LocalsHaveOneOwner, RunHasOneOwner, RequestHasOneOwner, SameOwner,
         queueVars
<1>6. CASE (\E r \in Requests : Serve(r)) /\ UNCHANGED queueVars
  <2>1. Reqs
    BY <1>6, ServeKeepsOneOwner
  <2> QED BY <1>1, <1>6, <2>1, NextSameOwnerLegs
        DEF OwnerInv, LocalsHaveOneOwner, RunHasOneOwner, RequestHasOneOwner, SameOwner,
            queueVars
<1>7. CASE Crash
  <2>1. Runs
    BY <1>7 DEF Crash, CrashQueue, RunHasOneOwner, Idle, NoCells
  <2>2. Reqs
    BY <1>7 DEF Crash, CrashRequests, OwnerInv, LocalsHaveOneOwner,
       RequestHasOneOwner, Done, NoRequest
  <2> QED BY <2>1, <2>2, NextSameOwnerLegs
        DEF OwnerInv, LocalsHaveOneOwner, RunHasOneOwner, RequestHasOneOwner, SameOwner
<1> QED BY <1>3, <1>4, <1>5, <1>6, <1>7 DEF Next, vars

\* No row of route_legs ever joins two users' caches, although the table has
\* no owner and uploads, jobs, requests and crashes interleave freely.
THEOREM OwnersAreNotMixed == Spec => []SameOwnerLegs
<1>1. OwnerInv => SameOwnerLegs
  BY DEF OwnerInv
<1> QED BY <1>1, InitOwner, NextOwner, Invariance, PTL DEF Spec

----------------------------------------------------------------------------
(***************************************************************************)
(* VersionNamesExtract, where an extract that was replaced does not come   *)
(* back: versions are taken to be numbered in the order of their extracts. *)
(* A process may then stamp a row with a version older than the engine     *)
(* that answered, but such a row is never looked up again.                 *)
(***************************************************************************)

ExtractsGetNewer == [][versionFile <= versionFile']_vars

\* The extract that answered a cell.
Extract(cell) == cell[1]

\* What was asked for under version v was answered by that extract or a newer
\* one, but by none that is yet to come.
Dated(v, cells, now) ==
    /\ v # None => v <= now
    /\ \A p \in Pairs : cells[p] # None => /\ v # None
                                           /\ v <= Extract(cells[p])
                                           /\ Extract(cells[p]) <= now

RowsAreDated(rows, now) ==
    \A p \in Pairs : rows[p] # None =>
        /\ rows[p].version <= now
        /\ rows[p].version = now /\ rows[p].figure # None => Extract(rows[p].figure) = now

Unanswered == {"idle", "affected", "mark", "coords", "neighbours", "version"}
Unasked == {"unused", "version", "find"}

NothingAnswered(cells) == \A p \in Pairs : cells[p] = None

RunIsDated(r, now) ==
    /\ Dated(r.version, r.cells, now)
    /\ r.pc \in Unanswered => NothingAnswered(r.cells)

RequestIsDated(q, now) ==
    /\ Dated(q.version, q.cells, now)
    /\ q.pc \in Unasked => NothingAnswered(q.cells)

VersionInv ==
    /\ engine # None => engine = versionFile
    /\ RowsAreDated(legs, versionFile)
    /\ \A w \in Workers : RunIsDated(run[w], versionFile)
    /\ \A r \in Requests : RequestIsDated(req[r], versionFile)

Cells == [Pairs -> Figure \cup {None}]

LEMMA ExtractType == \A f \in Figure : Extract(f) \in Versions
BY DEF Figure, Extract

LEMMA InitVersions == Init /\ Versions \subseteq Int => VersionInv
<1> SUFFICES ASSUME Init, Versions \subseteq Int PROVE VersionInv
  OBVIOUS
<1>1. Dated(None, NoCells, versionFile) /\ NothingAnswered(NoCells)
  BY DEF Dated, NoCells, NothingAnswered
<1>2. \A w \in Workers : RunIsDated(run[w], versionFile)
  BY <1>1 DEF Init, QueueInit, Idle, RunIsDated
<1>3. \A r \in Requests : RequestIsDated(req[r], versionFile)
  BY <1>1 DEF Init, RequestInit, NoRequest, RequestIsDated, NoCells
<1>4. (engine # None => engine = versionFile) /\ RowsAreDated(legs, versionFile)
  BY DEF Init, StoreInit, RowsAreDated
<1> QED BY <1>2, <1>3, <1>4 DEF VersionInv

\* Time only adds to what is not newer than now.
LEMMA DatedStays ==
    ASSUME Versions \subseteq Int,
           NEW now \in Versions, NEW later \in Versions, now <= later,
           NEW v \in Versions \cup {None}, NEW cells \in Cells, Dated(v, cells, now)
    PROVE  Dated(v, cells, later)
<1>1. v # None => v <= later
  BY DEF Dated
<1>2. ASSUME NEW p \in Pairs, cells[p] # None PROVE Extract(cells[p]) <= later
  <2>1. cells[p] \in Figure
    BY <1>2 DEF Cells
  <2>2. Extract(cells[p]) \in Int
    BY <2>1, ExtractType
  <2> QED BY <1>2, <2>2 DEF Dated
<1> QED BY <1>1, <1>2 DEF Dated

\* The rows that a later extract finds under its own name were already
\* named after it.
LEMMA RowsStayDated ==
    ASSUME Versions \subseteq Int,
           NEW now \in Versions, NEW later \in Versions, now <= later,
           NEW rows \in Table, RowsAreDated(rows, now)
    PROVE  RowsAreDated(rows, later)
<1> SUFFICES ASSUME NEW p \in Pairs, rows[p] # None
             PROVE  /\ rows[p].version <= later
                    /\ rows[p].version = later /\ rows[p].figure # None
                           => Extract(rows[p].figure) = later
  BY DEF RowsAreDated
<1>1. rows[p].version \in Versions
  BY DEF Table, Row
<1>2. rows[p].version \in Int /\ now \in Int /\ later \in Int
  BY <1>1
<1>3. /\ rows[p].version <= now
      /\ rows[p].version = now /\ rows[p].figure # None => Extract(rows[p].figure) = now
  BY DEF RowsAreDated
<1> QED BY <1>2, <1>3

\* Whatever statement inserts cells asked for under v: a row that bears the
\* present version holds what the present extract answered.
LEMMA InsertedRowIsDated ==
    ASSUME Versions \subseteq Int, NEW now \in Versions, NEW v \in Versions \cup {None},
           NEW cells \in Cells, Dated(v, cells, now), NEW p \in Pairs, cells[p] # None
    PROVE  v <= now /\ (v = now => Extract(cells[p]) = now)
<1>1. Extract(cells[p]) \in Int /\ v \in Int
  BY ExtractType DEF Cells, Dated
<1> QED BY <1>1 DEF Dated

LEMMA StatementsKeepRowsDated ==
    ASSUME Versions \subseteq Int, Inv, VersionInv, [Next]_vars
    PROVE  RowsAreDated(legs', versionFile)
<1> DEFINE now == versionFile
<1>t. now \in Versions
  BY DEF Inv, StoreTypeOK
<1>0. RowsAreDated(legs, now)
  BY DEF VersionInv
<1> SUFFICES RowsAreDated(legs', now)
  BY DEF now
<1> HIDE DEF now
<1>1. CASE legs' = legs
  BY <1>0, <1>1 DEF RowsAreDated
<1>2. ASSUME NEW ids, legs' = DeleteTouching(legs, ids) PROVE RowsAreDated(legs', now)
  BY <1>0, <1>2 DEF DeleteTouching, RowsAreDated
<1>3. ASSUME NEW pairs, legs' = DeleteSuspiciousLegs(legs, pairs, versionFile)
      PROVE  RowsAreDated(legs', now)
  BY <1>0, <1>3 DEF DeleteSuspiciousLegs, RowsAreDated
<1>4. ASSUME NEW cells \in Cells, NEW v \in Versions \cup {None}, Dated(v, cells, now),
             legs' = UpsertMatrixCells(legs, cells, v) \/ legs' = UpsertLegs(legs, cells, v)
      PROVE  RowsAreDated(legs', now)
  <2> SUFFICES ASSUME NEW p \in Pairs, legs'[p] # None
               PROVE  /\ legs'[p].version <= now
                      /\ legs'[p].version = now /\ legs'[p].figure # None
                             => Extract(legs'[p].figure) = now
    BY DEF RowsAreDated
  <2>1. \/ legs'[p] = legs[p]
        \/ /\ cells[p] # None
           /\ legs'[p].version = v
           /\ legs'[p].figure = cells[p]
    BY <1>4 DEF UpsertMatrixCells, UpsertLegs
  <2>2. CASE legs'[p] = legs[p]
    BY <1>0, <2>2 DEF RowsAreDated
  <2>3. CASE cells[p] # None /\ legs'[p].version = v /\ legs'[p].figure = cells[p]
    BY <1>t, <1>4, <2>3, InsertedRowIsDated
  <2> QED BY <2>1, <2>2, <2>3
<1>5. ASSUME NEW noroutes, NEW v, v <= now, legs' = UpsertNorouteCells(legs, noroutes, v)
      PROVE  RowsAreDated(legs', now)
  BY <1>0, <1>5 DEF UpsertNorouteCells, RowsAreDated
<1>6. ASSUME NEW w \in Workers
      PROVE  /\ run[w].cells \in Cells
             /\ run[w].version \in Versions \cup {None}
             /\ Dated(run[w].version, run[w].cells, now)
             /\ At(w, "noroutes") => run[w].version <= now
  <2>1. run[w] \in Run
    BY DEF Inv, QueueInv, QueueTypeOK
  <2>2. Dated(run[w].version, run[w].cells, now)
    BY DEF VersionInv, RunIsDated, now
  <2>3. At(w, "noroutes") => run[w].version # None
    BY DEF Inv, QueueInv, RunsKnow, At
  <2> QED BY <2>1, <2>2, <2>3 DEF Run, Cells, Dated
<1>7. ASSUME NEW r \in Requests
      PROVE  /\ req[r].cells \in Cells
             /\ req[r].version \in Versions \cup {None}
             /\ Dated(req[r].version, req[r].cells, now)
             /\ req[r].pc = "noroutes" => req[r].version <= now
  <2>1. req[r] \in Request
    BY DEF Inv, RequestInv, RequestTypeOK
  <2>2. Dated(req[r].version, req[r].cells, now)
    BY DEF VersionInv, RequestIsDated, now
  <2>3. req[r].pc = "noroutes" => req[r].version # None
    BY DEF Inv, RequestInv, RequestsKnow
  <2> QED BY <2>1, <2>2, <2>3 DEF Request, Cells, Dated
<1>8. WritesTable
  BY TableIsWrittenByStatements
<1>9. ASSUME NEW w \in Workers,
             \/ legs' = UpsertMatrixCells(legs, run[w].cells, run[w].version)
             \/ At(w, "noroutes") /\ legs' = UpsertNorouteCells(legs, run[w].noroutes, run[w].version)
      PROVE  RowsAreDated(legs', now)
  BY <1>4, <1>5, <1>6, <1>9
<1>10. ASSUME NEW r \in Requests,
             \/ legs' = UpsertLegs(legs, req[r].cells, req[r].version)
             \/ legs' = UpsertMatrixCells(legs, req[r].cells, req[r].version)
             \/ /\ req[r].pc = "noroutes"
                /\ legs' = UpsertNorouteCells(legs, req[r].noroutes, req[r].version)
      PROVE  RowsAreDated(legs', now)
  BY <1>4, <1>5, <1>7, <1>10
<1>11. CASE \E ids \in SUBSET Caches : legs' = DeleteTouching(legs, ids)
  BY <1>2, <1>11
<1>12. CASE \E pairs \in SUBSET Pairs : legs' = DeleteSuspiciousLegs(legs, pairs, versionFile)
  BY <1>3, <1>12
<1>13. CASE \E w \in Workers :
              \/ legs' = UpsertMatrixCells(legs, run[w].cells, run[w].version)
              \/ /\ At(w, "noroutes")
                 /\ legs' = UpsertNorouteCells(legs, run[w].noroutes, run[w].version)
  BY <1>9, <1>13
<1>14. CASE \E r \in Requests :
              \/ legs' = UpsertLegs(legs, req[r].cells, req[r].version)
              \/ legs' = UpsertMatrixCells(legs, req[r].cells, req[r].version)
              \/ /\ req[r].pc = "noroutes"
                 /\ legs' = UpsertNorouteCells(legs, req[r].noroutes, req[r].version)
  BY <1>10, <1>14
<1> QED BY <1>1, <1>8, <1>11, <1>12, <1>13, <1>14 DEF WritesTable

\* process() reads the version before it asks OSRM, and the engine only ever
\* serves the extract that is published.
LEMMA ProcessKeepsRunsDated ==
    ASSUME Versions \subseteq Int, Inv, VersionInv,
           NEW w \in Workers, Process(w) \/ StatementFails(w)
    PROVE  \A v \in Workers : RunIsDated(run'[v], versionFile)
<1> DEFINE me == run[w]
           RunsAreDated == \A v \in Workers : RunIsDated(run'[v], versionFile)
<1>1. run \in [Workers -> Run] /\ me \in Run
  BY DEF Inv, QueueInv, QueueTypeOK
<1>2. \A v \in Workers : RunIsDated(run[v], versionFile)
  BY DEF VersionInv
<1>3. ASSUME NEW r, RunIsDated(r, versionFile), run' = [run EXCEPT ![w] = r]
      PROVE  RunsAreDated
  BY <1>1, <1>2, <1>3
<1>4. RunIsDated(Idle, versionFile)
  BY DEF RunIsDated, Dated, NothingAnswered, Idle, NoCells
<1>m. RunIsDated(me, versionFile)
  BY <1>2
\* Nothing was asked or read.
<1>5. ASSUME NEW r, r.version = me.version, r.cells = me.cells,
             r.pc \in Unanswered => me.pc \in Unanswered,
             run' = [run EXCEPT ![w] = r]
      PROVE  RunsAreDated
  <2>1. RunIsDated(r, versionFile)
    BY <1>m, <1>5 DEF RunIsDated
  <2> QED BY <1>3, <1>5, <2>1
<1>6. ASSUME NEW pc, Goto(w, pc), pc \notin Unanswered \/ me.pc \in Unanswered
      PROVE  RunsAreDated
  <2> DEFINE r == [me EXCEPT !.pc = pc]
  <2>1. run' = [run EXCEPT ![w] = r]
    BY <1>1, <1>6 DEF Goto
  <2>2. r.version = me.version /\ r.cells = me.cells /\ r.pc = pc
    BY <1>1 DEF Run
  <2> HIDE DEF r
  <2> QED BY <1>5, <1>6, <2>1, <2>2
<1>7. ASSUME Throw(w) PROVE RunsAreDated
  BY <1>3, <1>4, <1>7 DEF Throw
<1>8. ASSUME NEW j \in JobIds, Take(w, j) PROVE RunsAreDated
  <2>1. RunIsDated([Idle EXCEPT !.pc = "affected", !.job = j], versionFile)
    BY DEF RunIsDated, Dated, NothingAnswered, Idle, NoCells
  <2> QED BY <1>3, <1>8, <2>1 DEF Take
<1>9. ASSUME ResolveScope(w) PROVE RunsAreDated
  <2> DEFINE scope == JobOf(w).ids \cup FindAffected(JobOf(w).owner, JobOf(w).ids)
             r == [me EXCEPT !.scope = scope, !.pc = "mark"]
  <2>1. run' = [run EXCEPT ![w] = r] /\ me.pc \in Unanswered
    BY <1>1, <1>9 DEF ResolveScope, At, Unanswered
  <2> HIDE DEF scope
  <2>2. r.version = me.version /\ r.cells = me.cells
    BY <1>1 DEF Run
  <2> HIDE DEF r
  <2> QED BY <1>5, <2>1, <2>2
<1>10. ASSUME ReadCoords(w) PROVE RunsAreDated
  <2> DEFINE coords == CoordsFor(JobOf(w).owner, run[w].scope)
             r == [me EXCEPT !.coords = coords, !.pc = "neighbours"]
  <2>1. run' = [run EXCEPT ![w] = r] /\ me.pc \in Unanswered
    BY <1>1, <1>10 DEF ReadCoords, At, Unanswered
  <2> HIDE DEF coords
  <2>2. r.version = me.version /\ r.cells = me.cells
    BY <1>1 DEF Run
  <2> HIDE DEF r
  <2> QED BY <1>5, <2>1, <2>2
<1>11. ASSUME ReadNeighbours(w) PROVE RunsAreDated
  <2> DEFINE pairs == NearestNeighbors(JobOf(w).owner, run[w].scope)
             r == [me EXCEPT !.pairs = pairs, !.at = loc, !.pc = "version"]
  <2>1. run' = [run EXCEPT ![w] = r] /\ me.pc \in Unanswered
    BY <1>1, <1>11 DEF ReadNeighbours, At, Unanswered
  <2> HIDE DEF pairs
  <2>2. r.version = me.version /\ r.cells = me.cells
    BY <1>1 DEF Run
  <2> HIDE DEF r
  <2> QED BY <1>5, <2>1, <2>2
<1>12. ASSUME ReadVersion(w) PROVE RunsAreDated
  <2> DEFINE next == IF me.pairs = {} THEN "fresh" ELSE "cached"
             r == [me EXCEPT !.version = versionFile, !.pc = next]
  <2>1. run' = [run EXCEPT ![w] = r] /\ me.pc = "version"
    BY <1>1, <1>12 DEF ReadVersion, At
  <2>2. NothingAnswered(me.cells)
    BY <1>m, <2>1 DEF RunIsDated, Unanswered
  <2> HIDE DEF next
  <2>3. r.version = versionFile /\ r.cells = me.cells
    BY <1>1 DEF Run
  <2> HIDE DEF r
  <2>4. versionFile \in Int
    BY DEF Inv, StoreTypeOK
  <2>5. RunIsDated(r, versionFile)
    BY <2>2, <2>3, <2>4 DEF RunIsDated, Dated, NothingAnswered
  <2> QED BY <1>3, <2>1, <2>5
<1>13. ASSUME FilterCached(w) PROVE RunsAreDated
  <2> DEFINE missing == run[w].pairs \ FindMatrixCells(legs, run[w].pairs, run[w].version)
             todo == {o \in Caches :
                        /\ run[w].coords[o] # None
                        /\ \E d \in Destinations(missing, o) : run[w].coords[d] # None}
             next == IF todo = {} THEN "cells" ELSE "fetch"
             r == [me EXCEPT !.missing = missing, !.todo = todo, !.pc = next]
  <2>1. run' = [run EXCEPT ![w] = r]
    BY <1>1, <1>13 DEF FilterCached
  <2>2. next \notin Unanswered
    BY DEF Unanswered
  <2> HIDE DEF missing, todo, next
  <2>3. r.version = me.version /\ r.cells = me.cells /\ r.pc = next
    BY <1>1 DEF Run
  <2> HIDE DEF r
  <2> QED BY <1>5, <2>1, <2>2, <2>3
<1>14. ASSUME NEW o \in Caches, FetchOrigin(w, o) PROVE RunsAreDated
  <2> DEFINE asked == {p \in run[w].missing : p[1] = o}
             cells == [p \in Pairs |-> IF p \in asked THEN Cell(run[w], o, p[2])
                                                      ELSE run[w].cells[p]]
             noroutes == run[w].noroutes \cup {p \in asked : Cell(run[w], o, p[2]) = None}
             todo == run[w].todo \ {o}
             next == IF run[w].todo = {o} THEN "cells" ELSE "fetch"
             r == [me EXCEPT !.cells = cells, !.noroutes = noroutes,
                             !.todo = todo, !.pc = next]
  <2>1. run' = [run EXCEPT ![w] = r]
    BY <1>1, <1>14 DEF FetchOrigin
  <2>2. ASSUME NEW d PROVE Cell(run[w], o, d) = None
                           \/ Extract(Cell(run[w], o, d)) = engine
    <3> DEFINE figures == {<<engine, run[w].coords[o], run[w].coords[e]>> :
                                e \in Columns(run[w], o, d)}
               routed == {f \in figures : Answer[f] # "noroute"}
    <3>1. Cell(run[w], o, d) = IF routed = {} THEN None ELSE CHOOSE f \in routed : TRUE
      BY DEF Cell
    <3>2. \A f \in routed : Extract(f) = engine
      BY DEF Extract
    <3> HIDE DEF routed
    <3> QED BY <3>1, <3>2
  <2>3. engine = versionFile /\ versionFile \in Int
    BY <1>14 DEF FetchOrigin, VersionInv, Inv, StoreTypeOK
  <2>4. me.version \in Versions
    BY <1>1, <1>14 DEF FetchOrigin, At, Inv, QueueInv, RunsKnow, Run
  <2>5. me.version # None /\ me.version <= versionFile
    BY <1>m, <2>4, RouteLegsAssumption DEF RunIsDated, Dated
  <2>6. ASSUME NEW p \in Pairs, cells[p] # None
        PROVE  me.version <= Extract(cells[p]) /\ Extract(cells[p]) <= versionFile
    <3>1. CASE p \in asked
      <4>1. Extract(cells[p]) = versionFile
        BY <2>2, <2>3, <2>6, <3>1
      <4> QED BY <2>3, <2>5, <4>1
    <3>2. CASE p \notin asked
      <4>1. cells[p] = me.cells[p]
        BY <3>2
      <4> QED BY <1>m, <2>6, <4>1 DEF RunIsDated, Dated
    <3> QED BY <3>1, <3>2
  <2>7. next \notin Unanswered
    BY DEF Unanswered
  <2> HIDE DEF asked, cells, noroutes, todo, next
  <2>8. r.version = me.version /\ r.cells = cells /\ r.pc = next
    BY <1>1 DEF Run
  <2> HIDE DEF r
  <2>9. RunIsDated(r, versionFile)
    BY <2>5, <2>6, <2>7, <2>8 DEF RunIsDated, Dated
  <2> QED BY <1>3, <2>1, <2>9
<1>15. ASSUME MarkInProgress(w) PROVE RunsAreDated
  BY <1>6, <1>7, <1>15 DEF MarkInProgress, At, Unanswered
<1>16. ASSUME PersistCells(w) PROVE RunsAreDated
  BY <1>6, <1>16 DEF PersistCells, Unanswered
<1>17. ASSUME PersistNoroutes(w) PROVE RunsAreDated
  BY <1>6, <1>17 DEF PersistNoroutes, Unanswered
<1>18. ASSUME MarkFresh(w) PROVE RunsAreDated
  BY <1>3, <1>4, <1>6, <1>18 DEF MarkFresh, Unanswered
<1>19. ASSUME MarkFailed(w) \/ FetchFails(w) \/ StatementFails(w) PROVE RunsAreDated
  BY <1>6, <1>7, <1>19 DEF MarkFailed, FetchFails, StatementFails, Unanswered
<1> QED BY <1>8, <1>9, <1>10, <1>11, <1>12, <1>13, <1>14, <1>15, <1>16,
           <1>17, <1>18, <1>19 DEF Process

LEMMA ServeKeepsRequestsDated ==
    ASSUME Versions \subseteq Int, Inv, VersionInv, NEW r \in Requests, Serve(r)
    PROVE  \A s \in Requests : RequestIsDated(req'[s], versionFile)
<1> DEFINE me == req[r]
           RequestsAreDated == \A s \in Requests : RequestIsDated(req'[s], versionFile)
<1>1. req \in [Requests -> Request] /\ me \in Request
  BY DEF Inv, RequestInv, RequestTypeOK
<1>2. \A s \in Requests : RequestIsDated(req[s], versionFile)
  BY DEF VersionInv
<1>3. ASSUME NEW q, RequestIsDated(q, versionFile), req' = [req EXCEPT ![r] = q]
      PROVE  RequestsAreDated
  BY <1>1, <1>2, <1>3
<1>4. RequestIsDated(Done, versionFile)
  BY DEF RequestIsDated, Dated, NothingAnswered, Done, NoRequest
<1>m. RequestIsDated(me, versionFile)
  BY <1>2
<1>5. ASSUME NEW q, q.version = me.version, q.cells = me.cells,
             q.pc \in Unasked => me.pc \in Unasked,
             req' = [req EXCEPT ![r] = q]
      PROVE  RequestsAreDated
  <2>1. RequestIsDated(q, versionFile)
    BY <1>m, <1>5 DEF RequestIsDated
  <2> QED BY <1>3, <1>5, <2>1
<1>6. ASSUME NEW kind, NEW owner, NEW ids, NEW wanted,
             ReadRequestCoords(r, kind, owner, ids, wanted)
      PROVE  RequestsAreDated
  <2> DEFINE coords == CoordsFor(owner, ids)
             q == [me EXCEPT !.pc = "version", !.kind = kind,
                             !.wanted = wanted, !.coords = coords]
  <2>1. req' = [req EXCEPT ![r] = q] /\ me.pc \in Unasked
    BY <1>1, <1>6 DEF ReadRequestCoords, Unasked
  <2> HIDE DEF coords
  <2>2. q.version = me.version /\ q.cells = me.cells
    BY <1>1 DEF Request
  <2> HIDE DEF q
  <2> QED BY <1>5, <2>1, <2>2
<1>7. ASSUME NEW p \in Pairs, GetLeg(r, p) PROVE RequestsAreDated
  BY <1>6, <1>7 DEF GetLeg
<1>8. ASSUME NEW ids \in RequestSets, NEW owner \in Owners, GetMatrix(r, ids, owner)
      PROVE  RequestsAreDated
  BY <1>6, <1>8 DEF GetMatrix
<1>9. ASSUME ReadRequestVersion(r) PROVE RequestsAreDated
  <2> DEFINE q == [me EXCEPT !.version = versionFile, !.pc = "find"]
  <2>1. req' = [req EXCEPT ![r] = q] /\ me.pc = "version"
    BY <1>1, <1>9 DEF ReadRequestVersion
  <2>2. NothingAnswered(me.cells)
    BY <1>m, <2>1 DEF RequestIsDated, Unasked
  <2>3. q.version = versionFile /\ q.cells = me.cells
    BY <1>1 DEF Request
  <2> HIDE DEF q
  <2>4. versionFile \in Int
    BY DEF Inv, StoreTypeOK
  <2>5. RequestIsDated(q, versionFile)
    BY <2>2, <2>3, <2>4 DEF RequestIsDated, Dated, NothingAnswered
  <2> QED BY <1>3, <2>1, <2>5
<1>10. ASSUME FindStored(r) PROVE RequestsAreDated
  <2> DEFINE found == IF req[r].kind = "leg"
                      THEN FindLegs(legs, req[r].wanted, req[r].version)
                      ELSE FindMatrixCells(legs, req[r].wanted, req[r].version)
             missing == req[r].wanted \ found
             q == [me EXCEPT !.missing = missing, !.pc = "osrm"]
  <2>1. req' = [req EXCEPT ![r] = Done] \/ req' = [req EXCEPT ![r] = q]
    BY <1>10 DEF FindStored
  <2> HIDE DEF found, missing
  <2>2. q.version = me.version /\ q.cells = me.cells /\ q.pc = "osrm"
    BY <1>1 DEF Request
  <2> HIDE DEF q
  <2> QED BY <1>3, <1>4, <1>5, <2>1, <2>2 DEF Unasked
<1>11. ASSUME NEW o \in Caches, AskOsrm(r, o) PROVE RequestsAreDated
  <2> DEFINE asked == {p \in req[r].missing : p[1] = o}
             figure == [p \in Pairs |->
                          <<engine, req[r].coords[p[1]], req[r].coords[p[2]]>>]
             routed == {p \in asked : Answer[figure[p]] # "noroute"}
             cells == [p \in Pairs |-> IF p \in routed THEN figure[p]
                                                       ELSE req[r].cells[p]]
             noroutes == req[r].noroutes \cup (asked \ routed)
             missing == req[r].missing \ asked
             next == IF req[r].missing = asked THEN "cells" ELSE "osrm"
             q == [me EXCEPT !.cells = cells, !.noroutes = noroutes,
                             !.missing = missing, !.pc = next]
  <2>1. req' = [req EXCEPT ![r] = q]
    BY <1>1, <1>11 DEF AskOsrm
  <2>2. \A p \in Pairs : Extract(figure[p]) = engine
    BY DEF Extract
  <2>3. engine = versionFile /\ versionFile \in Int
    BY <1>11 DEF AskOsrm, VersionInv, Inv, StoreTypeOK
  <2>4. me.version \in Versions
    BY <1>1, <1>11 DEF AskOsrm, Inv, RequestInv, RequestsKnow, Request
  <2>5. me.version # None /\ me.version <= versionFile
    BY <1>m, <2>4, RouteLegsAssumption DEF RequestIsDated, Dated
  <2>6. ASSUME NEW p \in Pairs, cells[p] # None
        PROVE  me.version <= Extract(cells[p]) /\ Extract(cells[p]) <= versionFile
    <3>1. CASE p \in routed
      <4>1. Extract(cells[p]) = versionFile
        BY <2>2, <2>3, <3>1
      <4> QED BY <2>3, <2>5, <4>1
    <3>2. CASE p \notin routed
      <4>1. cells[p] = me.cells[p]
        BY <3>2
      <4> QED BY <1>m, <2>6, <4>1 DEF RequestIsDated, Dated
    <3> QED BY <3>1, <3>2
  <2>7. next \notin Unasked
    BY DEF Unasked
  <2> HIDE DEF asked, figure, routed, cells, noroutes, missing, next
  <2>8. q.version = me.version /\ q.cells = cells /\ q.pc = next
    BY <1>1 DEF Request
  <2> HIDE DEF q
  <2>9. RequestIsDated(q, versionFile)
    BY <2>5, <2>6, <2>7, <2>8 DEF RequestIsDated, Dated
  <2> QED BY <1>3, <2>1, <2>9
<1>12. ASSUME OsrmFails(r) \/ StoreNoroutes(r) PROVE RequestsAreDated
  BY <1>3, <1>4, <1>12 DEF OsrmFails, StoreNoroutes
<1>13. ASSUME StoreCells(r) PROVE RequestsAreDated
  <2> DEFINE q == [me EXCEPT !.pc = "noroutes"]
  <2>1. req' = [req EXCEPT ![r] = Done] \/ req' = [req EXCEPT ![r] = q]
    BY <1>13 DEF StoreCells
  <2>2. q.version = me.version /\ q.cells = me.cells /\ q.pc = "noroutes"
    BY <1>1 DEF Request
  <2> HIDE DEF q
  <2> QED BY <1>3, <1>4, <1>5, <2>1, <2>2 DEF Unasked
<1> QED BY <1>7, <1>8, <1>9, <1>10, <1>11, <1>12, <1>13 DEF Serve, AnyLeg

LEMMA NextVersions ==
    ASSUME Versions \subseteq Int, Inv, Inv', VersionInv, [Next]_vars,
           versionFile <= versionFile'
    PROVE  VersionInv'
<1> DEFINE RunsStay == \A w \in Workers : RunIsDated(run'[w], versionFile')
           RequestsStay == \A r \in Requests : RequestIsDated(req'[r], versionFile')
           EngineIsNamed == engine' # None => engine' = versionFile'
<1> USE DEF storeVars, queueVars
<1>1. versionFile \in Versions /\ versionFile' \in Versions /\ legs' \in Table
  BY DEF Inv, StoreTypeOK
<1>2. RowsAreDated(legs', versionFile')
  BY <1>1, StatementsKeepRowsDated, RowsStayDated
<1>3. UNCHANGED run => RunsStay
  <2> SUFFICES ASSUME NEW w \in Workers PROVE RunIsDated(run[w], versionFile')
    OBVIOUS
  <2>1. run[w].cells \in Cells /\ run[w].version \in Versions \cup {None}
    BY DEF Inv, QueueInv, QueueTypeOK, Run, Cells
  <2>2. RunIsDated(run[w], versionFile)
    BY DEF VersionInv
  <2> QED BY <1>1, <2>1, <2>2, DatedStays DEF RunIsDated
<1>4. UNCHANGED req => RequestsStay
  <2> SUFFICES ASSUME NEW r \in Requests PROVE RequestIsDated(req[r], versionFile')
    OBVIOUS
  <2>1. req[r].cells \in Cells /\ req[r].version \in Versions \cup {None}
    BY DEF Inv, RequestInv, RequestTypeOK, Request, Cells
  <2>2. RequestIsDated(req[r], versionFile)
    BY DEF VersionInv
  <2> QED BY <1>1, <2>1, <2>2, DatedStays DEF RequestIsDated
<1>5. UNCHANGED <<engine, versionFile>> => EngineIsNamed
  BY DEF VersionInv
<1>6. CASE Produce /\ UNCHANGED req
  <2>1. UNCHANGED <<engine, versionFile, run>>
    BY <1>6 DEF Produce, Upload, Commit, UpsertFromGpx, ClearSolvedRequest, Revert,
       ClearSolved, Enqueue, EnqueueFails, RetriggerStale, RetriggerOne
  <2> QED BY <1>2, <1>3, <1>4, <1>5, <1>6, <2>1 DEF VersionInv
<1>7. CASE Work /\ UNCHANGED req
  <2>1. PICK w \in Workers : Process(w) \/ StatementFails(w)
    BY <1>7 DEF Work
  <2>2. UNCHANGED <<engine, versionFile>>
    BY <2>1 DEF Process, Take, ResolveScope, MarkInProgress, ReadCoords, ReadNeighbours,
       ReadVersion, FilterCached, FetchOrigin, PersistCells, PersistNoroutes, MarkFresh,
       MarkFailed, FetchFails, StatementFails
  <2>3. \A v \in Workers : RunIsDated(run'[v], versionFile)
    BY <2>1, ProcessKeepsRunsDated
  <2>4. RunsStay
    BY <2>2, <2>3
  <2> QED BY <1>2, <1>4, <1>5, <1>7, <2>2, <2>4 DEF VersionInv
<1>8. CASE (Store \/ Osrm) /\ UNCHANGED <<queueVars, req>>
  <2>1. EngineIsNamed
    BY <1>8 DEF Store, DeleteCache, PurgeSuspiciousLegs, Osrm, StopEngine,
       PublishVersion, StartEngine, VersionInv
  <2> QED BY <1>2, <1>3, <1>4, <1>8, <2>1 DEF VersionInv
<1>9. CASE (\E r \in Requests : Serve(r)) /\ UNCHANGED queueVars
  <2>1. PICK r \in Requests : Serve(r)
    BY <1>9
  <2>2. UNCHANGED <<engine, versionFile>>
    BY <2>1 DEF Serve, AnyLeg, GetLeg, GetMatrix, ReadRequestCoords, ReadRequestVersion,
       FindStored, AskOsrm, OsrmFails, StoreCells, StoreNoroutes
  <2>3. \A s \in Requests : RequestIsDated(req'[s], versionFile)
    BY <2>1, ServeKeepsRequestsDated
  <2>4. RequestsStay
    BY <2>2, <2>3
  <2> QED BY <1>2, <1>3, <1>5, <1>9, <2>2, <2>4 DEF VersionInv
<1>10. CASE Crash
  <2>1. UNCHANGED <<engine, versionFile>>
    BY <1>10 DEF Crash
  <2>2. RunsStay
    BY <1>10 DEF Crash, CrashQueue, RunIsDated, Dated, NothingAnswered, Idle, NoCells
  <2>3. ASSUME NEW r \in Requests PROVE RequestIsDated(req'[r], versionFile')
    <3>1. RequestIsDated(Done, versionFile)
      BY DEF RequestIsDated, Dated, NothingAnswered, Done, NoRequest
    <3>2. RequestIsDated(req[r], versionFile)
      BY DEF VersionInv
    <3>3. req'[r] = req[r] \/ req'[r] = Done
      BY <1>10 DEF Crash, CrashRequests
    <3> QED BY <2>1, <3>1, <3>2, <3>3
  <2> QED BY <1>2, <1>5, <2>1, <2>2, <2>3 DEF VersionInv
<1>11. CASE UNCHANGED vars
  BY <1>2, <1>3, <1>4, <1>5, <1>11 DEF VersionInv, vars
<1> QED BY <1>6, <1>7, <1>8, <1>9, <1>10, <1>11 DEF Next

\* As long as no older extract is published again, a row found under the
\* version in osrm-version.txt holds what that extract answered, however long
\* before its INSERT the process read the version and however often the
\* engine was replaced meanwhile.
THEOREM ServedExtractIsNamed ==
    ASSUME Versions \subseteq Int
    PROVE  Spec /\ ExtractsGetNewer => []VersionNamesExtract
<1>1. VersionInv => VersionNamesExtract
  BY DEF VersionInv, RowsAreDated, VersionNamesExtract, StoredAt, Extract
<1>2. Inv /\ Inv' /\ VersionInv /\ [Next]_vars /\ [versionFile <= versionFile']_vars
        => VersionInv'
  <2> SUFFICES ASSUME Inv, Inv', VersionInv, [Next]_vars, [versionFile <= versionFile']_vars
               PROVE  VersionInv'
    OBVIOUS
  <2>1. versionFile \in Int
    BY DEF Inv, StoreTypeOK
  <2>2. versionFile <= versionFile'
    BY <2>1 DEF vars, storeVars
  <2> QED BY <2>2, NextVersions
<1>3. Init => VersionInv
  BY InitVersions
<1> QED BY <1>1, <1>2, <1>3, Invariance, PTL DEF Spec, ExtractsGetNewer

----------------------------------------------------------------------------
(***************************************************************************)
(* WalkingSystem implements LegLifecycle: initial states map to initial    *)
(* states, and every step to a step or a stutter.  First the steps of the  *)
(* system by what they do to caches.location and route_legs together.      *)
(***************************************************************************)

\* Rows are deleted where they are.
Deletes ==
    /\ loc' = loc
    /\ \A p \in Pairs : legs'[p] = legs[p] \/ legs'[p] = None

\* Caches are placed, moved or deleted, and the legs of `ids` with them.
Moves(ids) ==
    /\ legs' = DeleteTouching(legs, ids)
    /\ \A c \in Caches : loc'[c] = loc[c] \/ c \in ids \/ loc[c] = None

\* An INSERT under version v writes the pairs of `pairs`, whose caches exist.
WritesRow(p, v, pairs) ==
    legs'[p] # legs[p] =>
        /\ p \in pairs
        /\ legs'[p] # None
        /\ \E source \in {"route", "table", "noroute"} :
              /\ legs'[p] = [source |-> source, version |-> v, figure |-> legs'[p].figure]
              /\ \/ source = "route"
                 \/ legs[p] = None
                 \/ legs[p].version # v

Inserts(v, pairs) ==
    /\ loc' = loc
    /\ \A p \in pairs : loc[p[1]] # None /\ loc[p[2]] # None
    /\ \A p \in Pairs : WritesRow(p, v, pairs)

WritesStore ==
    \/ Deletes
    \/ \E ids \in SUBSET Caches : Moves(ids)
    \/ \E v \in Versions, pairs \in SUBSET Pairs : Inserts(v, pairs)

LEMMA StandingStillDeletes == (loc' = loc /\ legs' = legs) => WritesStore
  BY DEF WritesStore, Deletes

LEMMA TableInserts ==
    ASSUME NEW v \in Versions, NEW pairs \in SUBSET Pairs,
           NEW cells \in [Pairs -> Figure \cup {None}],
           loc' = loc, \A p \in pairs : loc[p[1]] # None /\ loc[p[2]] # None,
           pairs = Accepted(cells),
           legs' = UpsertMatrixCells(legs, cells, v) \/ legs' = UpsertLegs(legs, cells, v)
    PROVE  WritesStore
<1>1. ASSUME NEW p \in Pairs PROVE WritesRow(p, v, pairs)
  <2>1. CASE legs' = UpsertMatrixCells(legs, cells, v)
    <3>1. CASE p \in pairs /\ ~StoredAt(legs, p, v)
      <4>1. legs'[p] = [source |-> "table", version |-> v, figure |-> cells[p]]
        BY <2>1, <3>1 DEF UpsertMatrixCells, Accepted
      <4>2. legs'[p] # None
        BY <3>1, <4>1, RouteLegsAssumption DEF Accepted, Row
      <4> QED BY <3>1, <4>1, <4>2 DEF WritesRow, StoredAt
    <3>2. CASE ~(p \in pairs /\ ~StoredAt(legs, p, v))
      BY <2>1, <3>2 DEF UpsertMatrixCells, Accepted, WritesRow
    <3> QED BY <3>1, <3>2
  <2>2. CASE legs' = UpsertLegs(legs, cells, v)
    <3>1. CASE p \in pairs
      <4>1. legs'[p] = [source |-> "route", version |-> v, figure |-> cells[p]]
        BY <2>2, <3>1 DEF UpsertLegs, Accepted
      <4>2. legs'[p] # None
        BY <3>1, <4>1, RouteLegsAssumption DEF Accepted, Row
      <4> QED BY <3>1, <4>1, <4>2 DEF WritesRow
    <3>2. CASE p \notin pairs
      BY <2>2, <3>2 DEF UpsertLegs, Accepted, WritesRow
    <3> QED BY <3>1, <3>2
  <2> QED BY <2>1, <2>2
<1> QED BY <1>1 DEF WritesStore, Inserts

LEMMA NorouteInserts ==
    ASSUME NEW v \in Versions, NEW pairs \in SUBSET Pairs,
           loc' = loc, \A p \in pairs : loc[p[1]] # None /\ loc[p[2]] # None,
           legs' = UpsertNorouteCells(legs, pairs, v)
    PROVE  WritesStore
<1>1. ASSUME NEW p \in Pairs PROVE WritesRow(p, v, pairs)
  <2>1. CASE p \in pairs /\ ~StoredAt(legs, p, v)
    <3>1. legs'[p] = [source |-> "noroute", version |-> v, figure |-> None]
      BY <2>1 DEF UpsertNorouteCells
    <3>2. legs'[p] # None
      BY <3>1, RouteLegsAssumption DEF Row
    <3> QED BY <2>1, <3>1, <3>2 DEF WritesRow, StoredAt
  <2>2. CASE ~(p \in pairs /\ ~StoredAt(legs, p, v))
    BY <2>2 DEF UpsertNorouteCells, WritesRow
  <2> QED BY <2>1, <2>2
<1> QED BY <1>1 DEF WritesStore, Inserts

\* Which handlers touch the two tables together, and how: every step of the
\* system deletes rows, moves caches along with their legs, or inserts rows
\* of caches that exist under one version.
LEMMA StoreIsWrittenByStatements == Inv /\ [Next]_vars => WritesStore
<1> SUFFICES ASSUME Inv, [Next]_vars PROVE WritesStore
  OBVIOUS
<1> USE DEF storeVars, queueVars
<1>1. CASE Produce
  <2>1. ASSUME NEW e \in EditIds, Upload(e) PROVE WritesStore
    <3>1. PICK ids \in Batches : \E at \in [ids -> Locations] : UpsertFromGpx(ids, at)
      BY <2>1 DEF Upload, Commit
    <3>2. PICK at \in [ids -> Locations] : UpsertFromGpx(ids, at)
      BY <3>1
    <3> DEFINE relocated == {c \in ids \cap Present : loc[c] # at[c]}
    <3>3. Moves(relocated)
      BY <3>2 DEF UpsertFromGpx, Present, Moves
    <3>4. relocated \in SUBSET Caches
      BY DEF Present
    <3> QED BY <3>3, <3>4 DEF WritesStore
  <2>2. ASSUME NEW e \in EditIds, ClearSolvedRequest(e) PROVE WritesStore
    <3>1. PICK c \in Caches : \E at \in Locations : ClearSolved(c, at)
      BY <2>2 DEF ClearSolvedRequest, Revert
    <3>2. loc \in [Caches -> Locations \cup {None}]
      BY DEF Inv, StoreTypeOK
    <3>3. Moves({c})
      BY <3>1, <3>2 DEF ClearSolved, Moves
    <3> QED BY <3>3 DEF WritesStore
  <2>3. CASE ~ \E e \in EditIds : Upload(e) \/ ClearSolvedRequest(e)
    <3>1. loc' = loc /\ legs' = legs
      BY <1>1, <2>3 DEF Produce, Enqueue, EnqueueFails, RetriggerStale, RetriggerOne
    <3> QED BY <3>1, StandingStillDeletes
  <2> QED BY <2>1, <2>2, <2>3
<1>2. CASE Work
  <2>1. PICK w \in Workers : Process(w) \/ StatementFails(w)
    BY <1>2 DEF Work
  <2>2. run[w].version \in Versions \/ ~(At(w, "cells") \/ At(w, "noroutes"))
    BY DEF Inv, QueueInv, QueueTypeOK, Run, RunsKnow, At
  <2>3. CASE PersistCells(w)
    <3> DEFINE pairs == Accepted(run[w].cells)
    <3>1. CASE EndpointsExist(pairs)
      <4>1. \A p \in pairs : loc[p[1]] # None /\ loc[p[2]] # None
        BY <3>1 DEF EndpointsExist, Present
      <4>2. loc' = loc /\ legs' = UpsertMatrixCells(legs, run[w].cells, run[w].version)
        BY <2>3, <3>1 DEF PersistCells
      <4>3. /\ pairs \in SUBSET Pairs /\ run[w].version \in Versions
            /\ run[w].cells \in [Pairs -> Figure \cup {None}]
        BY <2>2, <2>3 DEF Accepted, PersistCells, Inv, QueueInv, QueueTypeOK, Run
      <4> QED BY <4>1, <4>2, <4>3, TableInserts
    <3>2. CASE ~EndpointsExist(pairs)
      BY <2>3, <3>2, StandingStillDeletes DEF PersistCells
    <3> QED BY <3>1, <3>2
  <2>4. CASE PersistNoroutes(w)
    <3> DEFINE pairs == run[w].noroutes
    <3>1. CASE EndpointsExist(pairs)
      <4>1. \A p \in pairs : loc[p[1]] # None /\ loc[p[2]] # None
        BY <3>1 DEF EndpointsExist, Present
      <4>2. loc' = loc /\ legs' = UpsertNorouteCells(legs, pairs, run[w].version)
        BY <2>4, <3>1 DEF PersistNoroutes
      <4>3. pairs \in SUBSET Pairs /\ run[w].version \in Versions
        BY <2>2, <2>4 DEF PersistNoroutes, Inv, QueueInv, QueueTypeOK, Run
      <4> QED BY <4>1, <4>2, <4>3, NorouteInserts
    <3>2. CASE ~EndpointsExist(pairs)
      BY <2>4, <3>2, StandingStillDeletes DEF PersistNoroutes
    <3> QED BY <3>1, <3>2
  <2>5. CASE ~PersistCells(w) /\ ~PersistNoroutes(w)
    <3>1. loc' = loc /\ legs' = legs
      BY <2>1, <2>5 DEF Process, StatementFails, Take, ResolveScope,
         MarkInProgress, ReadCoords, ReadNeighbours, ReadVersion, FilterCached,
         FetchOrigin, MarkFresh, MarkFailed, FetchFails
    <3> QED BY <3>1, StandingStillDeletes
  <2> QED BY <2>3, <2>4, <2>5
<1>3. CASE Store
  <2>1. ASSUME NEW c \in Caches, DeleteCache(c) PROVE WritesStore
    <3>1. loc \in [Caches -> Locations \cup {None}]
      BY DEF Inv, StoreTypeOK
    <3>2. Moves({c})
      BY <2>1, <3>1 DEF DeleteCache, Moves
    <3> QED BY <3>2 DEF WritesStore
  <2>2. ASSUME NEW o \in Owners, NEW ids \in SUBSET Caches, PurgeSuspiciousLegs(o, ids)
        PROVE  WritesStore
    <3>1. Deletes
      BY <2>2 DEF PurgeSuspiciousLegs, DeleteSuspiciousLegs, Deletes
    <3> QED BY <3>1 DEF WritesStore
  <2> QED BY <1>3, <2>1, <2>2 DEF Store
<1>4. CASE Osrm
  BY <1>4, StandingStillDeletes DEF Osrm, StopEngine, PublishVersion, StartEngine
<1>5. ASSUME NEW r \in Requests, Serve(r) PROVE WritesStore
  <2>1. req[r].version \in Versions \/ ~(req[r].pc \in {"cells", "noroutes"})
    BY DEF Inv, RequestInv, RequestTypeOK, Request, RequestsKnow
  <2>2. CASE StoreCells(r)
    <3> DEFINE pairs == Accepted(req[r].cells)
    <3>1. CASE Exist(pairs)
      <4>1. \A p \in pairs : loc[p[1]] # None /\ loc[p[2]] # None
        BY <3>1 DEF Exist, Present
      <4>2. /\ loc' = loc
            /\ \/ legs' = UpsertMatrixCells(legs, req[r].cells, req[r].version)
               \/ legs' = UpsertLegs(legs, req[r].cells, req[r].version)
        BY <2>2, <3>1 DEF StoreCells, Stored
      <4>3. /\ pairs \in SUBSET Pairs /\ req[r].version \in Versions
            /\ req[r].cells \in [Pairs -> Figure \cup {None}]
        BY <2>1, <2>2 DEF Accepted, StoreCells, Inv, RequestInv, RequestTypeOK, Request
      <4> QED BY <4>1, <4>2, <4>3, TableInserts
    <3>2. CASE ~Exist(pairs)
      BY <2>2, <3>2, StandingStillDeletes DEF StoreCells
    <3> QED BY <3>1, <3>2
  <2>3. CASE StoreNoroutes(r)
    <3> DEFINE pairs == req[r].noroutes
    <3>1. CASE Exist(pairs)
      <4>1. \A p \in pairs : loc[p[1]] # None /\ loc[p[2]] # None
        BY <3>1 DEF Exist, Present
      <4>2. loc' = loc /\ legs' = UpsertNorouteCells(legs, pairs, req[r].version)
        BY <2>3, <3>1 DEF StoreNoroutes
      <4>3. pairs \in SUBSET Pairs /\ req[r].version \in Versions
        BY <2>1, <2>3 DEF StoreNoroutes, Inv, RequestInv, RequestTypeOK, Request
      <4> QED BY <4>1, <4>2, <4>3, NorouteInserts
    <3>2. CASE ~Exist(pairs)
      BY <2>3, <3>2, StandingStillDeletes DEF StoreNoroutes
    <3> QED BY <3>1, <3>2
  <2>4. CASE ~StoreCells(r) /\ ~StoreNoroutes(r)
    <3>1. loc' = loc /\ legs' = legs
      BY <1>5, <2>4 DEF Serve, AnyLeg, GetLeg, GetMatrix, ReadRequestCoords,
         ReadRequestVersion, FindStored, AskOsrm, OsrmFails
    <3> QED BY <3>1, StandingStillDeletes
  <2> QED BY <2>2, <2>3, <2>4
<1>6. CASE Crash
  BY <1>6, StandingStillDeletes DEF Crash
<1>7. CASE UNCHANGED vars
  BY <1>7, StandingStillDeletes DEF vars
<1> QED BY <1>1, <1>2, <1>3, <1>4, <1>5, <1>6, <1>7 DEF Next

----------------------------------------------------------------------------
(***************************************************************************)
(* The strengthening: rows are of caches that exist.                       *)
(***************************************************************************)

LegsExist == \A p \in Pairs : legs[p] # None => loc[p[1]] # None /\ loc[p[2]] # None

LEMMA InitLegsExist == Init => LegsExist
  BY DEF Init, StoreInit, LegsExist

LEMMA NextLegsExist == LegsExist /\ WritesStore => LegsExist'
<1> SUFFICES ASSUME LegsExist, WritesStore, NEW p \in Pairs, legs'[p] # None
             PROVE  loc'[p[1]] # None /\ loc'[p[2]] # None
  BY DEF LegsExist
<1>1. p[1] \in Caches /\ p[2] \in Caches
  BY DEF Pairs
<1>2. CASE Deletes
  BY <1>2 DEF Deletes, LegsExist
<1>3. ASSUME NEW ids \in SUBSET Caches, Moves(ids)
      PROVE  loc'[p[1]] # None /\ loc'[p[2]] # None
  <2>1. p[1] \notin ids /\ p[2] \notin ids /\ legs[p] # None
    BY <1>3 DEF Moves, DeleteTouching
  <2> QED BY <1>1, <1>3, <2>1 DEF Moves, LegsExist
<1>4. ASSUME NEW v \in Versions, NEW pairs \in SUBSET Pairs, Inserts(v, pairs)
      PROVE  loc'[p[1]] # None /\ loc'[p[2]] # None
  BY <1>4 DEF Inserts, WritesRow, LegsExist
<1> QED BY <1>2, <1>3, <1>4 DEF WritesStore

----------------------------------------------------------------------------
(***************************************************************************)
(* The refinement.                                                         *)
(***************************************************************************)

LEMMA PairsAreLifecyclePairs == Lifecycle!Pair = Pairs
  BY DEF Lifecycle!Pair, Pairs

LEMMA InitIsLifecycleInit == Init => Lifecycle!Init
  BY PairsAreLifecyclePairs DEF Init, StoreInit, Lifecycle!Init, Known

LEMMA KnownOfPair ==
    ASSUME NEW p \in Pairs
    PROVE  /\ legs[p] = None => Known[p] = None
           /\ legs[p] # None =>
                Known[p] = [grade |-> Grade[legs[p].source], version |-> legs[p].version]
           /\ legs'[p] = None => Known'[p] = None
           /\ legs'[p] # None =>
                Known'[p] = [grade |-> Grade[legs'[p].source], version |-> legs'[p].version]
           /\ legs'[p] = legs[p] => Known'[p] = Known[p]
  BY DEF Known

LEMMA DeletesForgets == Deletes => Lifecycle!Forget
<1> SUFFICES ASSUME Deletes, NEW p \in Pairs PROVE Known'[p] \in {Known[p], None}
  BY PairsAreLifecyclePairs DEF Lifecycle!Forget, Deletes
<1> QED BY KnownOfPair DEF Deletes

LEMMA MovesRelocates ==
    ASSUME LegsExist, NEW ids \in SUBSET Caches, Moves(ids)
    PROVE  Lifecycle!Relocate
<1> SUFFICES ASSUME NEW p \in Pairs
             PROVE  IF loc'[p[1]] = loc[p[1]] /\ loc'[p[2]] = loc[p[2]]
                    THEN Known'[p] \in {Known[p], None}
                    ELSE Known'[p] = None
  BY PairsAreLifecyclePairs DEF Lifecycle!Relocate
<1>1. p[1] \in Caches /\ p[2] \in Caches
  BY DEF Pairs
<1>2. legs'[p] = IF p[1] \in ids \/ p[2] \in ids THEN None ELSE legs[p]
  BY DEF Moves, DeleteTouching
<1>3. CASE legs'[p] = None
  BY <1>3, KnownOfPair
<1>4. CASE legs'[p] # None
  <2>1. p[1] \notin ids /\ p[2] \notin ids /\ legs'[p] = legs[p]
    BY <1>2, <1>4
  <2>2. loc'[p[1]] = loc[p[1]] /\ loc'[p[2]] = loc[p[2]]
    BY <1>1, <1>4, <2>1 DEF Moves, LegsExist
  <2> QED BY <2>1, <2>2, KnownOfPair
<1> QED BY <1>3, <1>4

LEMMA InsertsLearns ==
    ASSUME NEW v \in Versions, NEW pairs \in SUBSET Pairs, Inserts(v, pairs)
    PROVE  Lifecycle!Learn(v)
<1> SUFFICES ASSUME NEW p \in Pairs, Known'[p] # Known[p]
             PROVE  /\ loc[p[1]] # None /\ loc[p[2]] # None
                    /\ \E grade \in Lifecycle!Grades :
                          Known'[p] = [grade |-> grade, version |-> v]
                    /\ \/ Known[p] = None
                       \/ Known[p].version # v
                       \/ Known'[p].grade = "path"
  BY PairsAreLifecyclePairs DEF Lifecycle!Learn, Lifecycle!Placed, Inserts
<1>1. legs'[p] # legs[p]
  BY KnownOfPair
<1>2. p \in pairs
  BY <1>1 DEF Inserts, WritesRow
<1>3. PICK source \in {"route", "table", "noroute"} :
          /\ legs'[p] = [source |-> source, version |-> v, figure |-> legs'[p].figure]
          /\ source = "route" \/ legs[p] = None \/ legs[p].version # v
  BY <1>1 DEF Inserts, WritesRow
<1>4. legs'[p].source = source /\ legs'[p].version = v
  BY <1>3
<1>5. Known'[p] = [grade |-> Grade[source], version |-> v]
  <2>1. legs'[p] # None
    BY <1>1 DEF Inserts, WritesRow
  <2> QED BY <1>4, <2>1, KnownOfPair
<1>6. Grade[source] \in Lifecycle!Grades /\ (source = "route" => Grade[source] = "path")
  BY DEF Grade, Lifecycle!Grades
<1>7. Known[p] = None \/ Known[p].version # v \/ Known'[p].grade = "path"
  <2>1. CASE source = "route"
    BY <1>5, <1>6, <2>1
  <2>2. CASE legs[p] = None
    BY <2>2, KnownOfPair
  <2>3. CASE legs[p] # None /\ legs[p].version # v
    <3>1. Known[p] = [grade |-> Grade[legs[p].source], version |-> legs[p].version]
      BY <2>3, KnownOfPair
    <3>2. Known[p].version = legs[p].version
      BY <3>1
    <3> QED BY <2>3, <3>2
  <2> QED BY <1>3, <2>1, <2>2, <2>3
<1> QED BY <1>2, <1>5, <1>6, <1>7 DEF Inserts

LEMMA StepIsLifecycleStep ==
    LegsExist /\ WritesStore => [Lifecycle!Next]_(Lifecycle!lifecycleVars)
<1> SUFFICES ASSUME LegsExist, WritesStore PROVE Lifecycle!Next
  OBVIOUS
<1>1. CASE Deletes
  BY <1>1, DeletesForgets DEF Lifecycle!Next
<1>2. ASSUME NEW ids \in SUBSET Caches, Moves(ids) PROVE Lifecycle!Next
  BY <1>2, MovesRelocates DEF Lifecycle!Next
<1>3. ASSUME NEW v \in Versions, NEW pairs \in SUBSET Pairs, Inserts(v, pairs)
      PROVE  Lifecycle!Next
  BY <1>3, InsertsLearns DEF Lifecycle!Next
<1> QED BY <1>1, <1>2, <1>3 DEF WritesStore

\* The system implements LegLifecycle: uploads, jobs, requests, operators,
\* deletions and crashes together only learn, forget or relocate.
THEOREM LifecycleIsFollowed == Spec => FollowsLifecycle
<1>1. Inv /\ LegsExist /\ [Next]_vars => LegsExist' /\ [Lifecycle!Next]_(Lifecycle!lifecycleVars)
  BY StoreIsWrittenByStatements, NextLegsExist, StepIsLifecycleStep
<1> QED BY <1>1, Invariance, InitLegsExist, InitIsLifecycleInit, PTL
        DEF Spec, FollowsLifecycle, Lifecycle!Spec

=============================================================================

--------------------------- MODULE PrecomputeQueue ---------------------------
(***************************************************************************)
(* The walking-precompute queue: the writes to the caches that ask for a   *)
(* re-warm, the BullMQ queue, and the processor that works the jobs off.   *)
(* The processor takes one action per awaited call, so that anything else  *)
(* may happen between two of its statements.                               *)
(*                                                                         *)
(* Eager population of cache_landuse, which the job attempts between       *)
(* upsertNorouteCells and the last markBulk, swallows its own errors and   *)
(* touches none of this state.                                             *)
(***************************************************************************)
EXTENDS CacheStore

CONSTANTS
    Workers,        \* concurrent process() invocations of one API process
    MaxEdits,       \* bound: writes to the caches in a behaviour
    MaxRetriggers,  \* bound: operator retriggers in a behaviour
    MaxAttempts,    \* the queue's `attempts`
    MaxStalls       \* BullMQ's maxStalledCount

VARIABLES
    edits,   \* the requests that changed caches and owe the queue a job
    jobs,    \* the BullMQ queue
    run      \* the local variables of each process() invocation

queueVars == <<edits, jobs, run>>

ASSUME PrecomputeQueueAssumption ==
    /\ MaxEdits \in Nat
    /\ MaxRetriggers \in Nat
    /\ MaxAttempts \in Nat \ {0}
    /\ MaxStalls \in Nat

EditIds == 1..MaxEdits
JobIds == 1..(MaxEdits + MaxRetriggers)

Edit == [status : {"unused", "committed", "done"},
         owner : Owners \cup {None}, ids : SUBSET Caches]

Job == [status : {"unused", "waiting", "active", "completed", "failed"},
        owner : Owners \cup {None}, ids : SUBSET Caches,
        attempts : 0..MaxAttempts, stalls : 0..(MaxStalls + 1)]

Run == [pc : {"idle", "affected", "mark", "coords", "neighbours", "version",
              "cached", "fetch", "cells", "noroutes", "fresh", "catch"},
        job : JobIds \cup {None},
        scope : SUBSET Caches,
        coords : [Caches -> Locations \cup {None}],
        pairs : SUBSET Pairs,
        at : [Caches -> Locations \cup {None}],
        version : Versions \cup {None},
        missing : SUBSET Pairs,
        todo : SUBSET Caches,
        cells : [Pairs -> Figure \cup {None}],
        noroutes : SUBSET Pairs]

Nowhere == [c \in Caches |-> None]
NoCells == [p \in Pairs |-> None]

Idle == [pc |-> "idle", job |-> None, scope |-> {}, coords |-> Nowhere,
         pairs |-> {}, at |-> Nowhere, version |-> None, missing |-> {},
         todo |-> {}, cells |-> NoCells, noroutes |-> {}]

UnusedJob == [status |-> "unused", owner |-> None, ids |-> {},
              attempts |-> 0, stalls |-> 0]

NewJob(owner, ids) == [status |-> "waiting", owner |-> owner, ids |-> ids,
                       attempts |-> 0, stalls |-> 0]

QueueTypeOK ==
    /\ edits \in [EditIds -> Edit]
    /\ jobs \in [JobIds -> Job]
    /\ run \in [Workers -> Run]

QueueInit ==
    /\ edits = [e \in EditIds |-> [status |-> "unused", owner |-> None, ids |-> {}]]
    /\ jobs = [j \in JobIds |-> UnusedJob]
    /\ run = [w \in Workers |-> Idle]

----------------------------------------------------------------------------
(***************************************************************************)
(* Producers.                                                              *)
(***************************************************************************)

\* Ids are handed out in order, so that a behaviour has one numbering.
IsNextEdit(e) == \A d \in EditIds : edits[d].status = "unused" <=> d >= e
IsNextJob(j) == \A i \in JobIds : jobs[i].status = "unused" <=> i >= j

\* An upload commits its transaction and owes a re-warm.
Commit(e, owner, ids, at) ==
    /\ IsNextEdit(e)
    /\ ids # {}
    /\ \A c \in ids : Owner[c] = owner
    /\ UpsertFromGpx(ids, at)
    /\ edits' = [edits EXCEPT ![e] =
                    [status |-> "committed", owner |-> owner, ids |-> ids]]
    /\ UNCHANGED <<jobs, run>>

\* So does the removal of a solved coordinate.
Revert(e, c, at) ==
    /\ IsNextEdit(e)
    /\ ClearSolved(c, at)
    /\ edits' = [edits EXCEPT ![e] =
                    [status |-> "committed", owner |-> Owner[c], ids |-> {c}]]
    /\ UNCHANGED <<jobs, run>>

AddJob(j, owner, ids) ==
    /\ IsNextJob(j)
    /\ jobs' = [jobs EXCEPT ![j] = NewJob(owner, ids)]

\* enqueuePrecompute, fire-and-forget after the commit.
Enqueue(e, j) ==
    /\ edits[e].status = "committed"
    /\ AddJob(j, edits[e].owner, edits[e].ids)
    /\ edits' = [edits EXCEPT ![e].status = "done"]
    /\ UNCHANGED run
    /\ UNCHANGED storeVars

\* Valkey is down: the failure is logged and the request succeeds.  (An
\* upload whose recordFinds or markParsed throws after the commit never gets
\* as far: its re-warm is lost in the same way.)
EnqueueFails(e) ==
    /\ edits[e].status = "committed"
    /\ Inject("enqueue")
    /\ edits' = [edits EXCEPT ![e].status = "done"]
    /\ UNCHANGED <<loc, legs, pstate, engine, versionFile, restarts, jobs, run>>

\* A job of an operator leaves room for the jobs the edits owe.
RoomToRetrigger(j) == IsNextJob(j) /\
    Cardinality({e \in EditIds : edits[e].status # "done"})
        <= (MaxEdits + MaxRetriggers) - j

\* retriggerStale, the job of one owner.
RetriggerStale(j, owner) ==
    /\ RoomToRetrigger(j)
    /\ StaleCacheIds(owner) # {}
    /\ AddJob(j, owner, StaleCacheIds(owner))
    /\ UNCHANGED <<edits, run>>
    /\ UNCHANGED storeVars

\* retriggerOne, for a cache that exists.
RetriggerOne(j, c) ==
    /\ RoomToRetrigger(j)
    /\ c \in Present
    /\ AddJob(j, Owner[c], {c})
    /\ UNCHANGED <<edits, run>>
    /\ UNCHANGED storeVars

----------------------------------------------------------------------------
(***************************************************************************)
(* The processor.                                                          *)
(***************************************************************************)

JobOf(w) == jobs[run[w].job]

\* Where process() is, and what it is about to await.
At(w, pc) == run[w].pc = pc

Goto(w, pc) == run' = [run EXCEPT ![w].pc = pc]

Take(w, j) ==
    /\ At(w, "idle")
    /\ jobs[j].status = "waiting"
    /\ jobs' = [jobs EXCEPT ![j].status = "active"]
    /\ run' = [run EXCEPT ![w] = [Idle EXCEPT !.pc = "affected", !.job = j]]
    /\ UNCHANGED edits
    /\ UNCHANGED storeVars

\* Mutant: the queue has no `attempts` limit.
ThrowWithoutLimit(w) ==
    /\ jobs' = [jobs EXCEPT ![run[w].job].status = "waiting"]
    /\ run' = [run EXCEPT ![w] = Idle]

\* process() throws: BullMQ retries the job while it has attempts left.
Throw(w) ==
    LET j == run[w].job
        attempts == jobs[j].attempts + 1
    IN  /\ jobs' = [jobs EXCEPT
                        ![j].attempts = attempts,
                        ![j].status = IF attempts >= MaxAttempts THEN "failed"
                                                                 ELSE "waiting"]
        /\ run' = [run EXCEPT ![w] = Idle]

\* Mutant: only the new caches are in scope.
ResolveNewCachesOnly(w) ==
    /\ At(w, "affected")
    /\ run' = [run EXCEPT ![w].scope = JobOf(w).ids, ![w].pc = "mark"]
    /\ UNCHANGED <<edits, jobs>>
    /\ UNCHANGED storeVars

ResolveScope(w) ==
    /\ At(w, "affected")
    /\ run' = [run EXCEPT
                ![w].scope = JobOf(w).ids \cup FindAffected(JobOf(w).owner, JobOf(w).ids),
                ![w].pc = "mark"]
    /\ UNCHANGED <<edits, jobs>>
    /\ UNCHANGED storeVars

\* A row for a cache that is gone violates the foreign key, and the whole
\* statement with it.  Outside the try block, the error goes to BullMQ.
MarkInProgress(w) ==
    /\ At(w, "mark")
    /\ IF run[w].scope \subseteq Present
       THEN /\ pstate' = MarkBulk(run[w].scope, "in_progress", None)
            /\ Goto(w, "coords")
            /\ UNCHANGED jobs
       ELSE /\ Throw(w)
            /\ UNCHANGED pstate
    /\ UNCHANGED <<loc, legs, engine, versionFile, restarts, faults, edits>>

ReadCoords(w) ==
    /\ At(w, "coords")
    /\ run' = [run EXCEPT ![w].coords = CoordsFor(JobOf(w).owner, run[w].scope),
                          ![w].pc = "neighbours"]
    /\ UNCHANGED <<edits, jobs>>
    /\ UNCHANGED storeVars

\* The neighbours need not be in scope.  Their order is fixed here.
ReadNeighbours(w) ==
    /\ At(w, "neighbours")
    /\ run' = [run EXCEPT ![w].pairs = NearestNeighbors(JobOf(w).owner, run[w].scope),
                          ![w].at = loc,
                          ![w].pc = "version"]
    /\ UNCHANGED <<edits, jobs>>
    /\ UNCHANGED storeVars

ReadVersion(w) ==
    /\ At(w, "version")
    /\ run' = [run EXCEPT ![w].version = versionFile,
                          ![w].pc = IF run[w].pairs = {} THEN "fresh" ELSE "cached"]
    /\ UNCHANGED <<edits, jobs>>
    /\ UNCHANGED storeVars

Destinations(missing, o) == {d \in Caches : <<o, d>> \in missing}

\* An origin without a coordinate, or all of whose destinations are, is
\* passed over.
FilterCached(w) ==
    LET r == run[w]
        missing == r.pairs \ FindMatrixCells(legs, r.pairs, r.version)
        todo == {o \in Caches :
                    /\ r.coords[o] # None
                    /\ \E d \in Destinations(missing, o) : r.coords[d] # None}
    IN  /\ At(w, "cached")
        /\ run' = [run EXCEPT ![w].missing = missing,
                              ![w].todo = todo,
                              ![w].pc = IF todo = {} THEN "cells" ELSE "fetch"]
        /\ UNCHANGED <<edits, jobs>>
        /\ UNCHANGED storeVars

\* The position of d in the list of destinations `ds` of origin o.
Position(at, o, ds, d) == Cardinality({e \in ds : Closer(at, o, e, d)})

\* Mutant: the origin-to-origin diagonal of the row is not skipped.
ColumnsWithDiagonal(r, o, d) ==
    LET dests == Destinations(r.missing, o)
        known == {e \in dests : r.coords[e] # None}
    IN  {e \in known : Position(r.at, o, known, e) + 1 = Position(r.at, o, dests, d)}

\* The table is asked for the destinations that have a coordinate, and read
\* back by position in the list of all destinations: the column read for d
\* is the one asked for Column(...), if the row is that long.
Columns(r, o, d) ==
    LET dests == Destinations(r.missing, o)
        known == {e \in dests : r.coords[e] # None}
    IN  {e \in known : Position(r.at, o, known, e) = Position(r.at, o, dests, d)}

\* What OSRM answered for d: a figure, or nothing.
Cell(r, o, d) ==
    LET figures == {<<engine, r.coords[o], r.coords[e]>> : e \in Columns(r, o, d)}
        routed == {f \in figures : Answer[f] # "noroute"}
    IN  IF routed = {} THEN None ELSE CHOOSE f \in routed : TRUE

\* One /table request.  Those of a batch are concurrent: in any order.
FetchOrigin(w, o) ==
    LET r == run[w]
        asked == {p \in r.missing : p[1] = o}
    IN  /\ At(w, "fetch")
        /\ o \in r.todo
        /\ engine # None
        /\ run' = [run EXCEPT
                    ![w].cells = [p \in Pairs |-> IF p \in asked THEN Cell(r, o, p[2])
                                                              ELSE r.cells[p]],
                    ![w].noroutes = @ \cup {p \in asked : Cell(r, o, p[2]) = None},
                    ![w].todo = @ \ {o},
                    ![w].pc = IF r.todo = {o} THEN "cells" ELSE "fetch"]
        /\ UNCHANGED <<edits, jobs>>
        /\ UNCHANGED storeVars

EndpointsExist(pairs) == \A p \in pairs : {p[1], p[2]} \subseteq Present

\* Mutant: the rows are stamped with the version at the time of writing.
PersistCellsAtWriteTime(w) ==
    LET r == run[w]
    IN  /\ At(w, "cells")
        /\ IF EndpointsExist(Accepted(r.cells))
           THEN /\ legs' = UpsertMatrixCells(legs, r.cells, versionFile)
                /\ Goto(w, "noroutes")
           ELSE /\ Goto(w, "catch")
                /\ UNCHANGED legs
        /\ UNCHANGED <<loc, pstate, engine, versionFile, restarts, faults, edits, jobs>>

PersistCells(w) ==
    LET r == run[w]
    IN  /\ At(w, "cells")
        /\ IF EndpointsExist(Accepted(r.cells))
           THEN /\ legs' = UpsertMatrixCells(legs, r.cells, r.version)
                /\ Goto(w, "noroutes")
           ELSE /\ Goto(w, "catch")
                /\ UNCHANGED legs
        /\ UNCHANGED <<loc, pstate, engine, versionFile, restarts, faults, edits, jobs>>

PersistNoroutes(w) ==
    LET r == run[w]
    IN  /\ At(w, "noroutes")
        /\ IF EndpointsExist(r.noroutes)
           THEN /\ legs' = UpsertNorouteCells(legs, r.noroutes, r.version)
                /\ Goto(w, "fresh")
           ELSE /\ Goto(w, "catch")
                /\ UNCHANGED legs
        /\ UNCHANGED <<loc, pstate, engine, versionFile, restarts, faults, edits, jobs>>

MarkFresh(w) ==
    LET r == run[w]
    IN  /\ At(w, "fresh")
        /\ IF r.scope \subseteq Present
           THEN /\ pstate' = MarkBulk(r.scope, "fresh", r.version)
                /\ jobs' = [jobs EXCEPT ![r.job].status = "completed"]
                /\ run' = [run EXCEPT ![w] = Idle]
           ELSE /\ Goto(w, "catch")
                /\ UNCHANGED <<pstate, jobs>>
        /\ UNCHANGED <<loc, legs, engine, versionFile, restarts, faults, edits>>

\* The catch block marks the whole scope and rethrows; if that statement
\* fails too, its error is what BullMQ sees.
MarkFailed(w) ==
    /\ At(w, "catch")
    /\ pstate' = IF run[w].scope \subseteq Present
                 THEN MarkBulk(run[w].scope, "failed", None) ELSE pstate
    /\ Throw(w)
    /\ UNCHANGED <<loc, legs, engine, versionFile, restarts, faults, edits>>

\* A /table request fails: the engine is down, or the request times out.
FetchFails(w) ==
    /\ At(w, "fetch")
    /\ IF engine = None THEN UNCHANGED faults ELSE Inject("osrm")
    /\ Goto(w, "catch")
    /\ UNCHANGED <<loc, legs, pstate, engine, versionFile, restarts, edits, jobs>>

\* A statement fails, inside the try block or outside of it.
StatementFails(w) ==
    /\ Inject("db")
    /\ \/ /\ run[w].pc \in {"coords", "neighbours", "cached", "cells", "noroutes", "fresh"}
          /\ Goto(w, "catch")
          /\ UNCHANGED jobs
       \/ /\ run[w].pc \in {"affected", "mark", "catch"}
          /\ Throw(w)
    /\ UNCHANGED <<loc, legs, pstate, engine, versionFile, restarts, edits>>

\* The API process dies.  BullMQ finds the active jobs stalled and gives
\* each another run, up to maxStalledCount; a re-warm not yet enqueued is lost.
CrashQueue ==
    /\ run' = [w \in Workers |-> Idle]
    /\ jobs' = [j \in JobIds |->
                    IF jobs[j].status # "active" THEN jobs[j]
                    ELSE [jobs[j] EXCEPT
                            !.stalls = @ + 1,
                            !.status = IF jobs[j].stalls >= MaxStalls THEN "failed"
                                                                      ELSE "waiting"]]
    /\ edits' = [e \in EditIds |->
                    IF edits[e].status = "committed"
                    THEN [edits[e] EXCEPT !.status = "done"] ELSE edits[e]]

----------------------------------------------------------------------------

Process(w) ==
    \/ \E j \in JobIds : Take(w, j)
    \/ ResolveScope(w)
    \/ MarkInProgress(w)
    \/ ReadCoords(w)
    \/ ReadNeighbours(w)
    \/ ReadVersion(w)
    \/ FilterCached(w)
    \/ \E o \in Caches : FetchOrigin(w, o)
    \/ PersistCells(w)
    \/ PersistNoroutes(w)
    \/ MarkFresh(w)
    \/ MarkFailed(w)
    \/ FetchFails(w)

=============================================================================

---------------------------- MODULE WalkingSystem ----------------------------
(***************************************************************************)
(* The walking precompute, the routing service, uploads, operators and the *)
(* OSRM container, over one database.                                      *)
(***************************************************************************)
EXTENDS PrecomputeQueue, RoutingService

CONSTANT Batches  \* the sets of caches one file may carry

ASSUME WalkingSystemAssumption == Batches \subseteq SUBSET Caches

vars == <<storeVars, queueVars, req>>

TypeOK == StoreTypeOK /\ QueueTypeOK /\ RequestTypeOK

Init == StoreInit /\ QueueInit /\ RequestInit

\* A file of one owner: new caches, moved caches, unchanged ones.
Upload(e) ==
    \E ids \in Batches, owner \in Owners :
        \E at \in [ids -> Locations] : Commit(e, owner, ids, at)

\* The owner of a cache takes its solved coordinate back.
ClearSolvedRequest(e) ==
    \E c \in Caches, at \in Locations : Revert(e, c, at)

\* A crash between a commit and its enqueue loses the re-warm: that is an
\* enqueue fault as well.
Crash ==
    /\ Inject("crash")
    /\ (\E e \in EditIds : edits[e].status = "committed") => "enqueue" \in Faults
    /\ CrashQueue
    /\ CrashRequests
    /\ UNCHANGED <<loc, legs, pstate, engine, versionFile, restarts>>

Produce ==
    \/ \E e \in EditIds : Upload(e) \/ ClearSolvedRequest(e)
    \/ \E e \in EditIds, j \in JobIds : Enqueue(e, j)
    \/ \E e \in EditIds : EnqueueFails(e)
    \/ \E j \in JobIds, owner \in Owners : RetriggerStale(j, owner)
    \/ \E j \in JobIds, c \in Caches : RetriggerOne(j, c)

Work == \E w \in Workers : Process(w) \/ StatementFails(w)

Store ==
    \/ \E c \in Caches : DeleteCache(c)
    \/ \E owner \in Owners, ids \in SUBSET Caches : PurgeSuspiciousLegs(owner, ids)

Osrm ==
    \/ StopEngine
    \/ \E version \in Versions : PublishVersion(version)
    \/ StartEngine

Next ==
    \/ Produce /\ UNCHANGED req
    \/ Work /\ UNCHANGED req
    \/ Store /\ UNCHANGED <<queueVars, req>>
    \/ Osrm /\ UNCHANGED <<queueVars, req>>
    \/ (\E r \in Requests : Serve(r)) /\ UNCHANGED queueVars
    \/ Crash

Spec == Init /\ [][Next]_vars

\* Fairness: the event loop of a live API process keeps running what the
\* worker can do.  Users, operators and the OSRM container owe nothing.
FairSpec == Spec /\ \A w \in Workers : WF_vars(Process(w) /\ UNCHANGED req)

----------------------------------------------------------------------------
(***************************************************************************)
(* Properties of the table.                                                *)
(***************************************************************************)

\* A row with a geometry is never overwritten by a bare distance or by a
\* noroute marker of the same extract, whichever of the job, getLeg and
\* getMatrix writes last ("never downgrade a route row").
NoDowngradeWithinVersion ==
    [][\A p \in Pairs :
        (/\ legs[p] # None
         /\ legs[p].source = "route"
         /\ legs'[p] # None
         /\ legs'[p].version = legs[p].version)
        => legs'[p].source = "route"]_vars

\* How much a row says, and since which extract.
Grade == [route |-> "path", table |-> "distance", noroute |-> "nothing"]

Known ==
    [p \in Pairs |->
        IF legs[p] = None THEN None
        ELSE [grade |-> Grade[legs[p].source], version |-> legs[p].version]]

Lifecycle ==
    INSTANCE LegLifecycle WITH Cache <- Caches, Version <- Versions, Null <- None,
                               place <- loc, known <- Known

\* All writers and deleters together keep the promise of LegLifecycle: rows
\* are of caches that exist and get better under one version, and whatever is
\* moved or deleted takes the rows there are along in the same step
\* (gpx.repository.ts:413-424).  It is no promise that rows are about where
\* their caches are: a job that read a place before a move writes the legs of
\* the old place after it, which LegLifecycle lets it learn.
FollowsLifecycle == Lifecycle!Spec

SameOwner(p) == Owner[p[1]] = Owner[p[2]]

\* No row joins caches of two owners: a table that is served without an
\* owner column must never relate two users' caches.
SameOwnerLegs == \A p \in Pairs : legs[p] # None => SameOwner(p)

\* What is served as the live extract's figures was computed by the live
\* extract, although the version is read long before OSRM is asked and the
\* engine may have been replaced in between.
VersionNamesExtract ==
    \A p \in Pairs :
        (StoredAt(legs, p, versionFile) /\ legs[p].figure # None)
        => legs[p].figure[1] = versionFile

\* A row answers the question its pair of caches poses now.
Answers(p) ==
    LET question == <<versionFile, loc[p[1]], loc[p[2]]>>
    IN  IF legs[p].source = "noroute" THEN Answer[question] = "noroute"
                                      ELSE legs[p].figure = question

\* Every row served as the live extract's is the answer for the coordinates
\* its caches have: no reader plans a walk with somebody else's distance.
ServedLegsAreTrue == \A p \in Pairs : StoredAt(legs, p, versionFile) => Answers(p)

----------------------------------------------------------------------------
(***************************************************************************)
(* What the processes know of their own local variables: the strengthening *)
(* that makes the type invariant and SameOwnerLegs inductive.              *)
(***************************************************************************)

\* A job is worked by at most one process() invocation, and is "active"
\* from when a worker takes it until process() returns or throws.
JobsHeld ==
    /\ \A w \in Workers :
          ~At(w, "idle") => run[w].job \in JobIds /\ JobOf(w).status = "active"
    /\ \A v, w \in Workers :
          (v # w /\ ~At(v, "idle") /\ ~At(w, "idle")) => run[v].job # run[w].job

\* A job that will run again has attempts left.
JobsWithinLimits ==
    \A j \in JobIds :
        jobs[j].status \in {"waiting", "active"}
            => jobs[j].attempts < MaxAttempts /\ jobs[j].stalls <= MaxStalls

\* process() asks OSRM only for origins it has a coordinate of, and writes
\* only with a version in hand.
RunsKnow ==
    \A w \in Workers :
        /\ At(w, "fetch") => \A o \in run[w].todo : run[w].coords[o] # None
        /\ run[w].pc \in {"cached", "fetch", "cells", "noroutes"} => run[w].version # None

\* A request has the coordinates of every pair it wants, and a version as
\* soon as it looks up or stores a row.
RequestsKnow ==
    \A r \in Requests :
        /\ \A p \in req[r].wanted : req[r].coords[p[1]] # None /\ req[r].coords[p[2]] # None
        /\ req[r].pc = "osrm" => req[r].missing \subseteq req[r].wanted
        /\ req[r].pc \in {"find", "osrm", "cells", "noroutes"} => req[r].version # None

\* No local variable relates caches of two owners.
RunHasOneOwner(r) ==
    /\ \A p \in r.pairs \cup r.missing \cup r.noroutes : SameOwner(p)
    /\ \A p \in Pairs : r.cells[p] # None => SameOwner(p)

RequestHasOneOwner(q) ==
    /\ \A p \in q.wanted \cup q.missing \cup q.noroutes : SameOwner(p)
    /\ \A p \in Pairs : q.cells[p] # None => SameOwner(p)

LocalsHaveOneOwner ==
    /\ \A w \in Workers : RunHasOneOwner(run[w])
    /\ \A r \in Requests : RequestHasOneOwner(req[r])

----------------------------------------------------------------------------
(***************************************************************************)
(* Properties of the precompute.                                           *)
(***************************************************************************)

\* A write or a job that will still bring cache c into scope.
IsOwed(c) ==
    \/ \E e \in EditIds : edits[e].status = "committed" /\ c \in edits[e].ids
    \/ \E j \in JobIds :
            /\ jobs[j].status \in {"waiting", "active"}
            /\ c \in jobs[j].ids \cup FindAffected(jobs[j].owner, jobs[j].ids)
    \/ \E w \in Workers : c \in run[w].scope

\* A pair of neighbours without a live row is never forgotten: a job that
\* will look at it is owed, or one of the two caches is among those that
\* retrigger-stale selects.
DebtIsVisible ==
    \A p \in Pairs :
        (/\ p \in NearestNeighbors(Owner[p[1]], {p[1]})
         /\ ~StoredAt(legs, p, versionFile))
        => \E c \in {p[1], p[2]} : IsOwed(c) \/ NeedsPrecompute(c)

\* Every job that is queued is completed or given up.
JobsFinish ==
    \A j \in JobIds : jobs[j].status = "waiting"
                        ~> jobs[j].status \in {"completed", "failed"}

=============================================================================

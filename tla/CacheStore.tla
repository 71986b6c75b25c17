----------------------------- MODULE CacheStore -----------------------------
(***************************************************************************)
(* The state in PostgreSQL and beside it that the walking precompute and   *)
(* the routing service share: the caches and where they are, route_legs,   *)
(* cache_precompute_state, the OSRM engine and the version file it         *)
(* publishes.  Every operator that reads or writes it in one statement or  *)
(* one transaction is defined here; the processes that issue them are in   *)
(* PrecomputeQueue and RoutingService.                                     *)
(***************************************************************************)
EXTENDS RouteLegs

CONSTANTS
    Owners,
    Owner,      \* the owner of each cache
    Radius,     \* PLANNER_PRECOMPUTE_RADIUS_M
    K,          \* the LIMIT of nearestNeighbors (kCandidates)
    InitVersion,
    Faults,     \* the kinds of fault the environment may inject
    MaxFaults,  \* bound: faults injected in a behaviour
    MaxRestarts \* bound: OSRM container restarts in a behaviour

VARIABLES
    loc,          \* caches.location; None when there is no such row
    legs,         \* route_legs
    pstate,       \* cache_precompute_state, kind = 'walking'
    engine,       \* the extract osrm-routed answers from; None when stopped
    versionFile,  \* osrm-version.txt
    restarts,     \* OSRM container restarts so far
    faults        \* faults injected so far

storeVars == <<loc, legs, pstate, engine, versionFile, restarts, faults>>

FaultKinds == {"enqueue", "osrm", "db", "crash", "delete"}

ASSUME CacheStoreAssumption ==
    /\ Owner \in [Caches -> Owners]
    /\ Radius \in Nat
    /\ K \in Nat
    /\ InitVersion \in Versions
    /\ Faults \subseteq FaultKinds
    /\ MaxFaults \in Nat
    /\ MaxRestarts \in Nat

PrecomputeState ==
    [state : {"missing", "in_progress", "fresh", "failed"},
     version : Versions \cup {None}]

StoreTypeOK ==
    /\ loc \in [Caches -> Locations \cup {None}]
    /\ legs \in Table
    /\ pstate \in [Caches -> PrecomputeState]
    /\ engine \in Versions \cup {None}
    /\ versionFile \in Versions
    /\ restarts \in 0..MaxRestarts
    /\ faults \in 0..MaxFaults

StoreInit ==
    /\ loc = [c \in Caches |-> None]
    /\ legs = [p \in Pairs |-> None]
    /\ pstate = [c \in Caches |-> [state |-> "missing", version |-> None]]
    /\ engine = InitVersion
    /\ versionFile = InitVersion
    /\ restarts = 0
    /\ faults = 0

\* The environment spends one of its faults.
Inject(kind) ==
    /\ kind \in Faults
    /\ faults < MaxFaults
    /\ faults' = faults + 1

----------------------------------------------------------------------------
(***************************************************************************)
(* Queries.                                                                *)
(***************************************************************************)

Present == {c \in Caches : loc[c] # None}

Distance(a, b) == IF a < b THEN b - a ELSE a - b

\* ST_DWithin between two different caches of one owner.
Near(c, d) ==
    /\ c # d
    /\ {c, d} \subseteq Present
    /\ Owner[c] = Owner[d]
    /\ Distance(loc[c], loc[d]) <= Radius

\* ORDER BY o.location <-> neighbor.location; equal distances come in id order.
Closer(at, o, c, d) ==
    LET dc == Distance(at[o], at[c])
        dd == Distance(at[o], at[d])
    IN  dc < dd \/ (dc = dd /\ c < d)

\* Mutant: the lateral join forgets neighbor.owner_id.
NearestNeighborsOfAnyone(owner, ids) ==
    {p \in Pairs :
        /\ p[1] \in ids
        /\ Owner[p[1]] = owner
        /\ {p[1], p[2]} \subseteq Present
        /\ Distance(loc[p[1]], loc[p[2]]) <= Radius}

\* nearestNeighbors: the K nearest within Radius of each origin.
NearestNeighbors(owner, ids) ==
    {p \in Pairs :
        /\ p[1] \in ids
        /\ Owner[p[1]] = owner
        /\ Near(p[1], p[2])
        /\ Cardinality({c \in Caches : Near(p[1], c) /\ Closer(loc, p[1], c, p[2])}) < K}

\* findAffected: the owner's other caches within Radius of a new one.
FindAffected(owner, ids) ==
    {c \in Caches \ ids : Owner[c] = owner /\ \E n \in ids : Near(n, c)}

\* coordsFor: ids without a row, or of another owner, have no coordinate.
CoordsFor(owner, ids) ==
    [c \in Caches |-> IF c \in ids /\ Owner[c] = owner THEN loc[c] ELSE None]

\* The rows staleCacheIds selects.
NeedsPrecompute(c) ==
    \/ pstate[c].state # "fresh"
    \/ pstate[c].version # versionFile

StaleCacheIds(owner) ==
    {c \in Present : Owner[c] = owner /\ NeedsPrecompute(c)}

\* markBulk: one row per cache of the slice; osrm_version is overwritten,
\* with NULL unless the caller passes one.
MarkBulk(ids, state, version) ==
    [c \in Caches |->
        IF c \in ids THEN [state |-> state, version |-> version] ELSE pstate[c]]

----------------------------------------------------------------------------
(***************************************************************************)
(* Transactions.                                                           *)
(***************************************************************************)

\* upsertFromGpx for a file that places the caches of `ids` at `at`: the rows
\* are inserted or moved, and the legs of the moved ones deleted with them.
UpsertFromGpx(ids, at) ==
    LET relocated == {c \in ids \cap Present : loc[c] # at[c]}
    IN  /\ loc' = [c \in Caches |-> IF c \in ids THEN at[c] ELSE loc[c]]
        /\ legs' = DeleteTouching(legs, relocated)
        /\ UNCHANGED <<pstate, engine, versionFile, restarts, faults>>

\* clearSolved: the cache goes back to its published coordinate, and its legs
\* are deleted whether or not that moves it.
ClearSolved(c, at) ==
    /\ c \in Present
    /\ loc' = [loc EXCEPT ![c] = at]
    /\ legs' = DeleteTouching(legs, {c})
    /\ UNCHANGED <<pstate, engine, versionFile, restarts, faults>>

\* dedupAdventureStages: DELETE FROM caches; the foreign keys cascade.
DeleteCache(c) ==
    /\ c \in Present
    /\ Inject("delete")
    /\ loc' = [loc EXCEPT ![c] = None]
    /\ legs' = DeleteTouching(legs, {c})
    /\ pstate' = [pstate EXCEPT ![c] = [state |-> "missing", version |-> None]]
    /\ UNCHANGED <<engine, versionFile, restarts>>

\* The purge of the walking-graph debug view, over the caches of a search.
PurgeSuspiciousLegs(owner, ids) ==
    LET apart == {p \in Pairs : /\ {p[1], p[2]} \subseteq ids \cap Present
                                /\ Owner[p[1]] = owner /\ Owner[p[2]] = owner
                                /\ loc[p[1]] # loc[p[2]]}
    IN  /\ legs' = DeleteSuspiciousLegs(legs, apart, versionFile)
        /\ UNCHANGED <<loc, pstate, engine, versionFile, restarts, faults>>

----------------------------------------------------------------------------
(***************************************************************************)
(* The OSRM container (infra/osrm/bootstrap.sh): a restart stops the       *)
(* engine, (re)builds the graph when the extract or profile changed, then  *)
(* publishes the version and only then serves it.                          *)
(***************************************************************************)

StopEngine ==
    /\ engine # None
    /\ restarts < MaxRestarts
    /\ engine' = None
    /\ restarts' = restarts + 1
    /\ UNCHANGED <<loc, legs, pstate, versionFile, faults>>

PublishVersion(version) ==
    /\ engine = None
    /\ versionFile' = version
    /\ UNCHANGED <<loc, legs, pstate, engine, restarts, faults>>

StartEngine ==
    /\ engine = None
    /\ engine' = versionFile
    /\ UNCHANGED <<loc, legs, pstate, versionFile, restarts, faults>>

=============================================================================

---------------------------- MODULE WalkingGraph ----------------------------
(***************************************************************************)
(* buildWalkingGraph: the sparse graph cluster discovery works on.  A      *)
(* request reads the cells route_legs has for its candidate pairs, asks    *)
(* OSRM for the others, one /table call per origin and a batch of origins  *)
(* at a time, stores the answers, and keeps the k nearest on foot.         *)
(* Requests share route_legs and the slots of the OSRM client.             *)
(*                                                                         *)
(* Caches lie along a line, in metres; one OSRM extract is live, and       *)
(* rows are those of that extract.                                         *)
(***************************************************************************)
EXTENDS OsrmClient, Clustering

CONSTANTS
    Requests,      \* discovery requests
    Caches,        \* cache ids of one owner
    Scenarios,     \* the worlds and queries of the instance
    Adventure,     \* Caches -> adventure of a lab stage, None for other caches
    Batch,         \* concurrency of the /table calls of one request
    MaxPool,       \* MAX_DISCOVERY_POOL
    Zero,          \* SUSPICIOUS_WALKING_M
    ZeroApart,     \* SUSPICIOUS_HAVERSINE_M
    DetourReject,  \* HIGH_DETOUR_REJECT
    Faults,        \* the kinds of fault the environment may inject
    MaxFaults,     \* bound: faults in a behaviour
    NoRoute,       \* a row with source 'noroute'; null in a matrix
    None

VARIABLES
    scenario,   \* where the caches are, what OSRM answers, who asks what
    rows,       \* route_legs
    phase,      \* where a request is
    pool,       \* the candidate pool of a request, in its order
    near,       \* candidates of the nodes of a request
    known,      \* cachedMap and cachedNoRoute of a request
    fresh,      \* toPersist and toPersistNoRoute
    todo,       \* origins whose batch has not begun
    faults

graphVars == <<scenario, rows, phase, pool, near, known, fresh, todo, faults>>

Pairs == {p \in Caches \X Caches : p[1] # p[2]}
Phases == {"idle", "reading", "fetching", "storing", "marking", "clustering", "sweeping", "done", "failed"}

Straight(a, b) == Apart(scenario.at, a, b)

----------------------------------------------------------------------------
(* prepareClusteringContext: the candidate pool *)

Query(r) == scenario.queries[r]

\* Boundary-spanning clusters reach half the budget beyond the circle.
GrowthMargin(q) == IF q.grow THEN q.budget \div 2 ELSE 0
FromCentre(q, c) ==
    IF scenario.at[c] < q.center THEN q.center - scenario.at[c] ELSE scenario.at[c] - q.center

\* What the map shows and was not found, without lab stages if so wished.
Listed(q) ==
    {c \in Caches \ q.hidden :
        /\ FromCentre(q, c) =< q.radius + GrowthMargin(q)
        /\ q.labs \/ Adventure[c] = None}

StagesIn(S, c) == {s \in S : Adventure[s] = Adventure[c]}

\* The stage nearest to the centroid of the adventure's stages; n times the
\* distance to a mean of n positions is a whole number.
Medoid(stages) ==
    LET ordered == Ascending(stages)
        offs == OffCentre(scenario.at, ordered)
        off(s) == offs[CHOOSE i \in DOMAIN ordered : ordered[i] = s]
    IN  CHOOSE s \in stages : \A t \in stages \ {s} :
            off(s) < off(t) \/ (off(s) = off(t) /\ s < t)

\* collapseAdventures: one node for the stages of an adventure.
Collapsed(S) ==
    {c \in S : Adventure[c] = None} \cup
    {Medoid(StagesIn(S, c)) : c \in {s \in S : Adventure[s] # None}}

\* selectGrowthPool: nearest first, capped.
SelectPool(q) ==
    LET nearest == Ranked(Collapsed(Listed(q)), LAMBDA a, b :
            \/ FromCentre(q, a) < FromCentre(q, b)
            \/ FromCentre(q, a) = FromCentre(q, b) /\ a < b)
    IN  IF Cardinality(Listed(q)) < 2 THEN <<>> ELSE Take(nearest, MaxPool)

\* expandAdventureIds: a representative stands for the listed stages.
Expand(r, ids) ==
    UNION {IF Adventure[c] = None THEN {c} ELSE StagesIn(Listed(Query(r)), c) : c \in ids}

InPool(r) == ToSet(pool[r])

----------------------------------------------------------------------------
(* The cells *)

\* A cell is rejected that puts distinct places at one spot, or that no walk
\* between them explains; what lies outside of the pool has no coordinate.
Suspicious(r, a, b, metres) ==
    /\ b \in InPool(r)
    /\ \/ metres =< Zero /\ Straight(a, b) >= ZeroApart
       \/ Straight(a, b) >= 10 /\ metres > DetourReject * Straight(a, b)

\* nearestNeighbors: of all the owner's caches, those of the pool or not.
Nearest(r, origin) ==
    LET q == Query(r)
        reach == {c \in Caches \ {origin} :
                    Straight(origin, c) =< (IF 2 * q.maxLink < 4000 THEN 2 * q.maxLink ELSE 4000)}
        k == IF 3 * q.k > q.k + 5 THEN 3 * q.k ELSE q.k + 5
        sorted == Ranked(reach, LAMBDA a, b :
            \/ Straight(origin, a) < Straight(origin, b)
            \/ Straight(origin, a) = Straight(origin, b) /\ a < b)
    IN  SelectSeq(Take(sorted, k), LAMBDA c : q.grow => c \in InPool(r))

Candidates(r, origin) == near[r][origin]

MissingFor(r, origin) ==
    SelectSeq(Candidates(r, origin), LAMBDA c : known[r][<<origin, c>>] = None)

\* The destinations of the /table call: those with a coordinate.
Asked(r, origin) == SelectSeq(MissingFor(r, origin), LAMBDA c : c \in InPool(r))

\* Mutant: the answers are those of the first destination on.
CellsInOrder(r, origin) ==
    LET missing == MissingFor(r, origin)
        asked == Asked(r, origin)
    IN  [c \in ToSet(missing) |->
            LET j == CHOOSE i \in DOMAIN missing : missing[i] = c
            IN  IF j + 1 \in DOMAIN asked THEN scenario.walk[origin][asked[j + 1]] ELSE NoRoute]

\* Row 0 of the answer, read by the position in the list of what is missing.
Cells(r, origin) ==
    LET missing == MissingFor(r, origin)
        asked == Asked(r, origin)
    IN  [c \in ToSet(missing) |->
            LET j == CHOOSE i \in DOMAIN missing : missing[i] = c
            IN  IF j \in DOMAIN asked THEN scenario.walk[origin][asked[j]] ELSE NoRoute]

Accepted(r, origin) ==
    LET cells == Cells(r, origin)
    IN  {c \in DOMAIN cells : cells[c] = NoRoute \/ ~Suspicious(r, origin, c, cells[c])}

----------------------------------------------------------------------------
(* Ranking and symmetrising *)

Walked(cells, p) == cells[p] \notin {None, NoRoute}

\* The k nearest candidates within maxLinkMeters whose cell is believable.
NearestOnFoot(r, cells, a) ==
    LET q == Query(r)
        kept == {c \in ToSet(Candidates(r, a)) :
                    /\ Walked(cells, <<a, c>>)
                    /\ cells[<<a, c>>] =< q.maxLink
                    /\ ~Suspicious(r, a, c, cells[<<a, c>>])}
    IN  Take(Ranked(kept, LAMBDA c, d :
            \/ cells[<<a, c>>] < cells[<<a, d>>]
            \/ cells[<<a, c>>] = cells[<<a, d>>] /\
                 (Straight(a, c) < Straight(a, d) \/ (Straight(a, c) = Straight(a, d) /\ c < d))),
            q.k)

\* The length of an edge is that of the shorter direction that is known.
EdgeMetres(cells, a, b) ==
    IF ~Walked(cells, <<a, b>>) THEN cells[<<b, a>>]
    ELSE IF ~Walked(cells, <<b, a>>) THEN cells[<<a, b>>]
    ELSE IF cells[<<a, b>>] =< cells[<<b, a>>] THEN cells[<<a, b>>] ELSE cells[<<b, a>>]

Degree(edges, a) == Cardinality({e \in edges : a \in e})

\* Mutant: only a node without any edge is topped up.
TopUpOrphans(q, nearest, edges, a) ==
    IF Degree(edges, a) = 0 /\ nearest[a] # <<>> THEN edges \cup {{a, nearest[a][1]}} ELSE edges

\* The min-degree floor: a node gets edges to its own nearest, one by one.
TopUp(q, nearest, edges, a) ==
    FoldLeft(LAMBDA so, b : IF Degree(so, a) < q.floor THEN so \cup {{a, b}} ELSE so,
             edges, nearest[a])

\* Edges as unordered pairs: by the OR rule, or dual links and the floor.
Links(r, cells) ==
    LET q == Query(r)
        nodes == InPool(r)
        nearest == [a \in nodes |-> NearestOnFoot(r, cells, a)]
        oneWay == UNION {{{a, b} : b \in ToSet(nearest[a])} : a \in nodes}
        dual == {e \in oneWay : \A a \in e : a \in nodes /\ e \ {a} \subseteq ToSet(nearest[a])}
    IN  IF q.symmetry = "mutual"
        THEN FoldLeft(LAMBDA so, a : TopUp(q, nearest, so, a), dual, Ascending(nodes))
        ELSE oneWay

\* The graph: the length of every edge.
Graph(r, cells) ==
    [e \in Links(r, cells) |->
        LET a == Min(e)
        IN  EdgeMetres(cells, a, CHOOSE b \in e : b # a)]

----------------------------------------------------------------------------
(* A request *)

CallsOf(r) == {c \in Unfinished : c[1] = r}
Empty == [p \in Pairs |-> None]

GraphInit ==
    /\ OsrmClientInit
    /\ scenario \in Scenarios
    /\ rows = scenario.stored
    /\ phase = [r \in Requests |-> "idle"]
    /\ pool = [r \in Requests |-> <<>>]
    /\ near = [r \in Requests |-> [o \in Caches |-> <<>>]]
    /\ known = [r \in Requests |-> Empty]
    /\ fresh = [r \in Requests |-> {}]
    /\ todo = [r \in Requests |-> <<>>]
    /\ faults = 0

Goto(r, p) == phase' = [phase EXCEPT ![r] = p]

Begin(r) ==
    /\ phase[r] = "idle"
    /\ Query(r) # None
    /\ pool' = [pool EXCEPT ![r] = SelectPool(Query(r))]
    /\ Goto(r, IF Len(pool'[r]) < 2 THEN "clustering" ELSE "reading")
    /\ UNCHANGED <<clientVars, scenario, rows, near, known, fresh, todo, faults>>

\* nearestNeighborsForNodes and findMatrixCells
ReadCells(r) ==
    /\ phase[r] = "reading"
    /\ near' = [near EXCEPT ![r] =
            [o \in Caches |-> IF o \in InPool(r) THEN Nearest(r, o) ELSE <<>>]]
    /\ LET origins == SelectSeq(Ascending(InPool(r)), LAMBDA o : near'[r][o] # <<>>)
           asked(p) == p[2] \in ToSet(near'[r][p[1]])
       IN  IF origins = <<>>
           THEN Goto(r, "clustering") /\ UNCHANGED <<known, todo>>
           ELSE /\ Goto(r, "fetching")
                /\ known' = [known EXCEPT ![r] =
                        [p \in Pairs |-> IF asked(p) THEN rows[p] ELSE None]]
                /\ todo' = [todo EXCEPT ![r] = origins]
    /\ UNCHANGED <<clientVars, scenario, rows, pool, fresh, faults>>

\* The next origins of the loop, once the batch before is complete: an origin
\* with nothing missing, or nothing it could ask for, makes no call.
StartBatch(r) ==
    /\ phase[r] = "fetching"
    /\ CallsOf(r) = {}
    /\ todo[r] # <<>>
    /\ LET batch == Take(todo[r], Batch)
           asking == SelectSeq(batch, LAMBDA o : Asked(r, o) # <<>>)
       IN  Acquire([i \in DOMAIN asking |-> <<r, asking[i]>>])
    /\ todo' = [todo EXCEPT ![r] = Drop(@, Batch)]
    /\ UNCHANGED <<scenario, rows, phase, pool, near, known, fresh, faults>>

\* An answer of OSRM; that of a request which failed meanwhile changes nothing.
Answered(r, origin) ==
    /\ Release(<<r, origin>>)
    /\ IF phase[r] = "fetching"
       THEN LET taken == Accepted(r, origin)
                cells == Cells(r, origin)
            IN  /\ known' = [known EXCEPT ![r] =
                        [p \in Pairs |-> IF p[1] = origin /\ p[2] \in taken THEN cells[p[2]] ELSE @[p]]]
                /\ fresh' = [fresh EXCEPT ![r] = @ \cup {<<origin, c>> : c \in taken}]
       ELSE UNCHANGED <<known, fresh>>
    /\ UNCHANGED <<scenario, rows, phase, pool, near, todo, faults>>

\* Promise.all rejects: the request is over, its other calls go on.
OsrmFails(r, origin) ==
    /\ "osrm" \in Faults /\ faults < MaxFaults
    /\ faults' = faults + 1
    /\ Release(<<r, origin>>)
    /\ IF phase[r] = "fetching" THEN Goto(r, "failed") ELSE UNCHANGED phase
    /\ UNCHANGED <<scenario, rows, pool, near, known, fresh, todo>>

EndFetch(r) ==
    /\ phase[r] = "fetching"
    /\ CallsOf(r) = {}
    /\ todo[r] = <<>>
    /\ Goto(r, "storing")
    /\ UNCHANGED <<clientVars, scenario, rows, pool, near, known, fresh, todo, faults>>

\* ON CONFLICT DO UPDATE only replaces rows of another extract.
Stored(r, S) ==
    [p \in Pairs |-> IF p \in S /\ rows[p] = None THEN known[r][p] ELSE rows[p]]

StoreCells(r) ==
    /\ phase[r] = "storing"
    /\ rows' = Stored(r, {p \in fresh[r] : known[r][p] # NoRoute})
    /\ Goto(r, "marking")
    /\ UNCHANGED <<clientVars, scenario, pool, near, known, fresh, todo, faults>>

StoreNoroutes(r) ==
    /\ phase[r] = "marking"
    /\ rows' = Stored(r, {p \in fresh[r] : known[r][p] = NoRoute})
    /\ Goto(r, "clustering")
    /\ UNCHANGED <<clientVars, scenario, pool, near, known, fresh, todo, faults>>

StoreFails(r) ==
    /\ "db" \in Faults /\ faults < MaxFaults
    /\ faults' = faults + 1
    /\ phase[r] \in {"storing", "marking"}
    /\ Goto(r, "failed")
    /\ UNCHANGED <<clientVars, scenario, rows, pool, near, known, fresh, todo>>

RequestStep(r) ==
    \/ Begin(r)
    \/ ReadCells(r)
    \/ StartBatch(r)
    \/ EndFetch(r)
    \/ StoreCells(r)
    \/ StoreNoroutes(r)

Reply(r) == \E o \in Caches : Answered(r, o)

=============================================================================

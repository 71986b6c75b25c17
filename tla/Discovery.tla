----------------------------- MODULE Discovery -----------------------------
(***************************************************************************)
(* Cluster discovery from the request to its candidates: the walking graph *)
(* of WalkingGraph, the strategy of the request in a worker thread, the    *)
(* refinement, and what is made of its clusters.  Scores are floating      *)
(* point and only rank candidates: which of them make the top is open.     *)
(* A request with a selection to explain shares the way to the graph.      *)
(***************************************************************************)
EXTENDS ClusterExplain, LeidenDetect

CONSTANTS
    HexSize,     \* width of an H3 cell
    Sweep,       \* RESOLUTION_SWEEP, in tenths
    Weight       \* metres -> exp(-d / sigma), as a whole number

VARIABLES
    graph,    \* the walking graph of a request
    sweep,    \* subgraphs and resolutions the worker has not come to
    seen,     \* communities so far
    found,    \* refined clusters
    answer,   \* candidates of the reply
    explained \* what is said of its selection

workerVars == <<leidenVars, sweep, seen>>
resultVars == <<graph, found, answer, explained>>
discoveryVars == <<clientVars, graphVars, workerVars, resultVars>>

----------------------------------------------------------------------------
(* Seeds *)

Hex(c) == scenario.at[c] \div HexSize
InRadius(r) == {c \in InPool(r) : FromCentre(Query(r), c) =< Query(r).radius}

\* One seed per cell: the cache with most edges.
SelectSeeds(r, g) ==
    {c \in InRadius(r) : \A d \in InRadius(r) \ {c} :
        Hex(d) = Hex(c) =>
            LET more == Cardinality(EdgesAt(g, c)) - Cardinality(EdgesAt(g, d))
            IN  more > 0 \/ (more = 0 /\ c < d)}

\* The walks from a seed that stay within half of the budget.
RECURSIVE Walks(_, _, _)
Walks(g, budget, metres) ==
    LET onward(c) == {metres[u] + g[{u, c}] : u \in {u \in DOMAIN metres : {u, c} \in DOMAIN g}}
        closest(c) == {d \in onward(c) : 2 * d =< budget}
                   \cup (IF c \in DOMAIN metres THEN {metres[c]} ELSE {})
        next == [c \in {c \in Caches : closest(c) # {}} |-> Min(closest(c))]
    IN  IF next = metres THEN metres ELSE Walks(g, budget, next)

Within(g, seed, budget) == DOMAIN Walks(g, budget, seed :> 0)

\* The subgraphs worth a look, each at every resolution.
Subgraphs(r, g) ==
    LET reach(s) == Within(g, s, Query(r).budget)
    IN  SelectSeq(Ascending(SelectSeeds(r, g)), LAMBDA s :
            Cardinality(reach(s)) >= 2 /\ \E e \in DOMAIN g : e \subseteq reach(s))

SweepOf(r, g) ==
    FlattenSeq([i \in DOMAIN Subgraphs(r, g) |->
        [j \in DOMAIN Sweep |->
            [nodes |-> Within(g, Subgraphs(r, g)[i], Query(r).budget), gamma |-> Sweep[j]]]])

\* Largest first, then by the smallest id, and no near-duplicates.
Deduplicated(communities) ==
    LET before(i, j) ==
            LET A == communities[i]
                B == communities[j]
            IN  \/ Cardinality(A) > Cardinality(B)
                \/ Cardinality(A) = Cardinality(B) /\ Min(A) < Min(B)
                \/ Cardinality(A) = Cardinality(B) /\ Min(A) = Min(B) /\ i < j
        order == Ranked(DOMAIN communities, before)
    IN  FoldLeft(LAMBDA kept, i :
            IF \E j \in DOMAIN kept : IsDuplicate(kept[j], communities[i])
            THEN kept ELSE Append(kept, communities[i]), <<>>, order)

----------------------------------------------------------------------------
(* The strategies *)

Raw(r, g) == RawClusters(Query(r).strategy, pool[r], g, At(r), Query(r))

\* What computeClusters makes of the refined clusters: caches that are not of
\* the pool are gone, adventures are whole again, the best few are kept.
Candidate(r, C) == Expand(r, C \cap InPool(r))

Replies(r, clusters) ==
    LET all == {Candidate(r, C) : C \in clusters}
        valid == {C \in all : Cardinality(C) >= 2}
    IN  {S \in SUBSET valid :
            Cardinality(S) = Min({Query(r).topN, Cardinality(valid)})}

Answer(r, g, raw) ==
    LET clusters == ToSet(RefineClusters(At(r), g, Query(r), raw))
    IN  /\ found' = [found EXCEPT ![r] = clusters]
        /\ \E S \in Replies(r, clusters) : answer' = [answer EXCEPT ![r] = S]
        /\ Goto(r, "done")

DiscoveryInit ==
    /\ GraphInit
    /\ LeidenInit
    /\ graph = [r \in Requests |-> <<>>]
    /\ sweep = <<>>
    /\ seen = <<>>
    /\ found = [r \in Requests |-> {}]
    /\ answer = [r \in Requests |-> {}]
    /\ explained = [r \in Requests |-> None]

Explains(r) == Selection(r) # {}

\* Without a pool to work on there are no clusters, and nothing to explain.
Degenerate(r) ==
    /\ phase[r] = "clustering"
    /\ Len(pool[r]) < 2
    /\ Goto(r, "done")
    /\ UNCHANGED <<clientVars, scenario, rows, pool, near, known, fresh, todo, faults, workerVars, resultVars>>

Cluster(r) ==
    /\ phase[r] = "clustering"
    /\ Len(pool[r]) >= 2 /\ ~Explains(r)
    /\ Query(r).strategy # "leiden"
    /\ LET g == Graph(r, known[r])
       IN  graph' = [graph EXCEPT ![r] = g] /\ Answer(r, g, Raw(r, g))
    /\ UNCHANGED <<clientVars, scenario, rows, pool, near, known, fresh, todo, faults, workerVars, explained>>

StartSweep(r) ==
    /\ phase[r] = "clustering"
    /\ Len(pool[r]) >= 2 /\ ~Explains(r)
    /\ Query(r).strategy = "leiden"
    /\ LET g == Graph(r, known[r])
       IN  graph' = [graph EXCEPT ![r] = g] /\ sweep' = SweepOf(r, g)
    /\ seen' = <<>>
    /\ Goto(r, "sweeping")
    /\ UNCHANGED <<clientVars, scenario, rows, pool, near, known, fresh, todo, faults, leidenVars, found, answer,
                   explained>>

\* The subgraph of the next run, its edges weighted by their length.
NextRun(r) ==
    /\ phase[r] = "sweeping"
    /\ stage = "off"
    /\ sweep # <<>>
    /\ LET nodes == Head(sweep).nodes
           edges == {e \in DOMAIN graph[r] : e \subseteq nodes}
       IN  Detect(Ascending(nodes), [e \in edges |-> Weight[graph[r][e]]], Head(sweep).gamma)
    /\ sweep' = Tail(sweep)
    /\ UNCHANGED <<clientVars, graphVars, seen, resultVars>>

CollectRun(r) ==
    /\ phase[r] = "sweeping"
    /\ stage = "done"
    /\ stage' = "off"
    /\ seen' = seen \o BySmallest({C \in Communities : Cardinality(C) >= 2})
    /\ UNCHANGED <<clientVars, graphVars, base, level, comm, refined, pending, requeued,
                   nextLabel, sweep, resultVars>>

EndSweep(r) ==
    /\ phase[r] = "sweeping"
    /\ stage = "off"
    /\ sweep = <<>>
    /\ Answer(r, graph[r], Deduplicated(seen))
    /\ UNCHANGED <<clientVars, scenario, rows, pool, near, known, fresh, todo, faults, graph, workerVars,
                   explained>>

\* explainSelection: the cells are read again, the rest is made of the graph.
Explain(r) ==
    /\ phase[r] = "clustering"
    /\ Len(pool[r]) >= 2 /\ Explains(r)
    /\ LET g == Graph(r, known[r])
       IN  graph' = [graph EXCEPT ![r] = g] /\ explained' = [explained EXCEPT ![r] = Explanation(r, g)]
    /\ Goto(r, "done")
    /\ UNCHANGED <<clientVars, scenario, rows, pool, near, known, fresh, todo, faults, workerVars, found, answer>>

ExplainFails(r) ==
    /\ "db" \in Faults /\ faults < MaxFaults
    /\ phase[r] = "clustering"
    /\ Len(pool[r]) >= 2 /\ Explains(r)
    /\ faults' = faults + 1
    /\ Goto(r, "failed")
    /\ UNCHANGED <<clientVars, scenario, rows, pool, near, known, fresh, todo, workerVars, resultVars>>

\* The worker is aborted at its time limit, or it crashes.
PoolFails(r) ==
    /\ "pool" \in Faults /\ faults < MaxFaults
    /\ phase[r] \in {"clustering", "sweeping"}
    /\ ~Explains(r)
    /\ faults' = faults + 1
    /\ Goto(r, "failed")
    /\ stage' = "off"
    /\ UNCHANGED <<clientVars, scenario, rows, pool, near, known, fresh, todo, base, level, comm, refined,
                   pending, requeued, nextLabel, sweep, seen, resultVars>>

ClusterStep(r) ==
    \/ Degenerate(r) \/ Cluster(r) \/ StartSweep(r) \/ NextRun(r) \/ CollectRun(r) \/ EndSweep(r)
    \/ Explain(r)

Fetching(r) ==
    \/ RequestStep(r)
    \/ Reply(r)
    \/ \E o \in Caches : OsrmFails(r, o)
    \/ StoreFails(r)

Wake == Resume /\ UNCHANGED graphVars
Detecting == LeidenStep /\ UNCHANGED <<clientVars, graphVars, sweep, seen, resultVars>>

Asks == {r \in Requests : Query(r) # None}

AllAnswered ==
    /\ \A r \in Asks : phase[r] \in {"done", "failed"}
    /\ Unfinished = {}
    /\ UNCHANGED discoveryVars

DiscoveryNext ==
    \/ \E r \in Requests : Fetching(r) /\ UNCHANGED <<workerVars, resultVars>>
    \/ Wake /\ UNCHANGED <<workerVars, resultVars>>
    \/ \E r \in Requests : ClusterStep(r) \/ PoolFails(r) \/ ExplainFails(r)
    \/ Detecting
    \/ AllAnswered

\* The event loop runs what is ready, and OSRM answers or times out.
Progress ==
    \/ Wake /\ UNCHANGED <<workerVars, resultVars>>
    \/ \E r \in Requests :
        \/ (RequestStep(r) \/ Reply(r)) /\ UNCHANGED <<workerVars, resultVars>>
        \/ CollectRun(r)
    \/ VisitNode /\ UNCHANGED <<clientVars, graphVars, sweep, seen, resultVars>>

\* A worker thread takes up what waits for it and returns it, and the database
\* answers who explains, by which the request leaves its phase or the next run
\* of the sweep begins.
Returns(r) ==
    /\ phase[r] = "clustering" \/ (phase[r] = "sweeping" /\ stage = "off" /\ sweep = <<>>)
    /\ \E p \in Phases \ {phase[r]} : Goto(r, p)

RunsOn(r) ==
    /\ phase[r] = "sweeping" /\ stage = "off" /\ sweep # <<>>
    /\ sweep' = Tail(sweep)

\* No node is left to visit in this half of the round.
TurnsOver ==
    /\ stage \in {"moving", "refining"} /\ pending = {} /\ requeued = <<>>
    /\ \E s \in {"moving", "refining", "done"} : stage' = s

DiscoveryFairness ==
    /\ WF_discoveryVars(Progress) /\ WF_stage(TurnsOver)
    /\ \A r \in Requests : WF_phase(Returns(r)) /\ WF_sweep(RunsOn(r))

DiscoverySpec == DiscoveryInit /\ [][DiscoveryNext]_discoveryVars /\ DiscoveryFairness

----------------------------------------------------------------------------
(* What a request promises *)

\* Every request is answered or fails, whatever waits for a slot behind a
\* request that failed and however long communities are moved about.
RequestsEnd == \A r \in Requests : (Query(r) # None) ~> (phase[r] \in {"done", "failed"})

\* No request has a neighbour that the pool leaves out.
Closed == \A r \in Asks : \A o \in InPool(r) : ToSet(Candidates(r, o)) \subseteq InPool(r)
Truth(r) ==
    [p \in Pairs |-> LET d == scenario.walk[p[1]][p[2]]
                     IN  IF d # NoRoute /\ Suspicious(r, p[1], p[2], d) THEN None ELSE d]
TruthStored == \A r \in Asks : \A p \in Pairs : scenario.stored[p] \in {None, Truth(r)[p]}

\* What is in route_legs only saves calls: a request clusters the graph it
\* would have got from OSRM alone, whoever stored the cells meanwhile.
CacheIsTransparent ==
    Closed /\ TruthStored =>
        \A r \in Asks : phase[r] = "done" /\ Len(pool[r]) >= 2 => graph[r] = Graph(r, Truth(r))

\* "mutual-filtering never orphans": by dual links and the floor together, a
\* node has as many edges as the floor asks for and its neighbours allow.
NeverOrphaned ==
    \A r \in Asks : phase[r] = "done" /\ Query(r).symmetry = "mutual" =>
        \A a \in InPool(r) :
            LET nearest == NearestOnFoot(r, known[r], a)
            IN  Degree(DOMAIN graph[r], a) >= Min({Query(r).floor, Len(nearest)})

\* hdbscan-star by excess of mass: no other choice of clusters, none of them
\* within another, is more stable than the one that is made.
MassIsMaximal ==
    \A r \in Asks : phase[r] = "done" /\ Query(r).strategy = "hdbscan-star" /\ Len(pool[r]) >= 2 =>
        LET condensed == Condensed(pool[r], graph[r], Query(r).minSize)
            stability == [C \in Clusters(condensed) |-> Stability(condensed, C)]
            choices == {S \in SUBSET Clusters(condensed) :
                            \A C, D \in S : C = D \/ C \cap D = {}}
        IN  /\ SelectEoM(condensed) \in choices
            /\ \A S \in choices : Total(stability, S) =< Total(stability, SelectEoM(condensed))
            /\ MembersOf(condensed, SelectEoM(condensed)) = SelectEoM(condensed)

\* A selection is explained in "the same Pass-1 context the planner would
\* build": an edge of the graph is shown with a walk that is known, no longer
\* than the edge and within the longest link, and who selects the very cluster
\* a discovery with the same settings found is told that its strategy finds it.
SameSettings(r, x) ==
    Query(x) = [Query(r) EXCEPT !.explains = Selection(x), !.topN = Query(x).topN]

ExplainedAsClustered ==
    Closed /\ TruthStored =>
        \A x \in Asks : phase[x] = "done" /\ Explains(x) /\ Len(pool[x]) >= 2 =>
            /\ \A e \in explained[x].edges : e.inGraph =>
                    e.walked # None /\ e.walked =< graph[x][e.pair] /\ e.withinMaxLink
            /\ \A r \in Asks \ {x} :
                    /\ phase[r] = "done" /\ ~Explains(r) /\ SameSettings(r, x)
                    /\ Selection(x) \in found[r]
                    => explained[x].attribution[Query(r).strategy].matched = Selection(x)

=============================================================================

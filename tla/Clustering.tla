----------------------------- MODULE Clustering -----------------------------
(***************************************************************************)
(* The clustering strategies of cluster discovery and the refinement their *)
(* raw clusters go through, as functions of a walking graph.               *)
(*                                                                         *)
(* A graph g gives the metres of its edges, which are unordered pairs;     *)
(* an edge may lead out of the pool.  A node of a single-linkage tree is   *)
(* the set of the caches under it.  at gives the place of the caches of    *)
(* the pool, in metres along a line.                                       *)
(***************************************************************************)
EXTENDS Integers, FiniteSets, Sequences, SequencesExt

CONSTANTS
    Lambda,    \* scale of 1/d: a multiple of the distances that occur
    MaxCuts    \* depth limit of splitByMstCut

Apart(at, a, b) == IF at[a] < at[b] THEN at[b] - at[a] ELSE at[a] - at[b]

\* The elements of a set in the order of a strict total order on them.
Ranked(S, Precedes(_, _)) ==
    SortSeq(FoldSet(LAMBDA x, so : Append(so, x), <<>>, S), Precedes)
Ascending(S) == Ranked(S, LAMBDA a, b : a < b)

Take(s, n) == IF n < Len(s) THEN SubSeq(s, 1, n) ELSE s
Drop(s, n) == IF n < Len(s) THEN SubSeq(s, n + 1, Len(s)) ELSE <<>>

\* The nodes of S, and those that edges join to them.
RECURSIVE Flood(_, _, _)
Flood(edges, nodes, S) ==
    LET more == {b \in nodes \ S : \E a \in S : {a, b} \in edges}
    IN  IF more = {} THEN S ELSE Flood(edges, nodes, S \cup more)

Biggest(a, b) == IF a < b THEN b ELSE a
BySmallest(clusters) == Ranked(clusters, LAMBDA A, B : Min(A) < Min(B))

EdgesAt(g, a) == {e \in DOMAIN g : a \in e}

----------------------------------------------------------------------------
(* components and dbscan *)

ConnectedComponents(nodes, g) == {Flood(DOMAIN g, nodes, {a}) : a \in nodes}

Components(pool, g) ==
    BySmallest({C \in ConnectedComponents(ToSet(pool), g) : Cardinality(C) >= 2})

EffectiveMinPts(minSize) == Biggest(3, minSize \div 2)

\* The length of the edge, or the straight line where the graph has none.
WalkOrLine(g, at, a, b) ==
    IF a = b THEN 0 ELSE IF {a, b} \in DOMAIN g THEN g[{a, b}] ELSE Apart(at, a, b)

RegionQuery(pool, g, at, epsilon, p) ==
    {q \in ToSet(pool) : WalkOrLine(g, at, p, q) =< epsilon}

\* All a queue reaches that begins with S and grows by the neighbours of
\* every core point taken from it that no earlier cluster has visited.
RECURSIVE Spread(_, _, _, _)
Spread(near, minPts, visited, S) ==
    LET more == UNION {near[q] : q \in {q \in S \ visited : Cardinality(near[q]) >= minPts}}
    IN  IF more \subseteq S THEN S ELSE Spread(near, minPts, visited, S \cup more)

\* One round of the loop of dbscanFromDistances.
ScanPoint(near, minPts, so, p) ==
    IF p \in so.visited THEN so
    ELSE IF Cardinality(near[p]) < minPts THEN [so EXCEPT !.visited = @ \cup {p}]
    ELSE LET reached == {p} \cup Spread(near, minPts, so.visited \cup {p}, near[p])
         IN  [visited |-> so.visited \cup reached,
              assigned |-> so.assigned \cup reached,
              clusters |-> Append(so.clusters, reached \ so.assigned)]

Dbscan(pool, g, at, epsilon, minSize) ==
    LET near == [p \in ToSet(pool) |-> RegionQuery(pool, g, at, epsilon, p)]
        scanned == FoldLeft(LAMBDA so, p : ScanPoint(near, EffectiveMinPts(minSize), so, p),
                            [visited |-> {}, assigned |-> {}, clusters |-> <<>>], pool)
    IN  SelectSeq(scanned.clusters, LAMBDA C : Cardinality(C) >= 2)

----------------------------------------------------------------------------
(* hdbscan and hdbscan-star *)

EffectiveMinSamples(minSize) == Biggest(2, minSize \div 2)

HasCore(g, k, a) == Cardinality(EdgesAt(g, a)) >= k

\* The k-th smallest of the lengths of a's edges.
CoreDistance(g, k, a) ==
    Min({g[e] : e \in {e \in EdgesAt(g, a) :
            Cardinality({f \in EdgesAt(g, a) : g[f] =< g[e]}) >= k}})

\* Mutual reachability, of the edges whose ends both have a core distance.
MutualReach(pool, g, k) ==
    [e \in {e \in DOMAIN g : \A a \in e : a \in ToSet(pool) /\ HasCore(g, k, a)} |->
        Max({g[e]} \cup {CoreDistance(g, k, a) : a \in e})]

\* Kruskal: an edge merges the parts of its ends into a node of the tree.
Merge(tree, e, d) ==
    LET left == CHOOSE part \in tree.parts : Min(e) \in part
        right == CHOOSE part \in tree.parts : Max(e) \in part
        node == left \cup right
    IN  IF left = right THEN tree
        ELSE [parts |-> (tree.parts \ {left, right}) \cup {node},
              halves |-> (node :> {left, right}) @@ tree.halves,
              height |-> (node :> d) @@ tree.height]

SingleLinkage(pool, reach) ==
    LET sorted == Ranked(DOMAIN reach, LAMBDA e, f :
            \/ reach[e] < reach[f]
            \/ reach[e] = reach[f] /\ Min(e) < Min(f)
            \/ reach[e] = reach[f] /\ Min(e) = Min(f) /\ Max(e) < Max(f))
    IN  FoldLeft(LAMBDA tree, e : Merge(tree, e, reach[e]),
                 [parts |-> {{a} : a \in ToSet(pool)}, halves |-> <<>>, height |-> <<>>], sorted)

\* Cut at the longest edge while both halves are clusters.
RECURSIVE BisectByLargestMreach(_, _, _)
BisectByLargestMreach(tree, node, minSize) ==
    IF Cardinality(node) < minSize THEN {}
    ELSE IF Cardinality(node) > 1 /\ \A half \in tree.halves[node] : Cardinality(half) >= minSize
    THEN UNION {BisectByLargestMreach(tree, half, minSize) : half \in tree.halves[node]}
    ELSE {node}

Hdbscan(pool, g, minSize) ==
    LET tree == SingleLinkage(pool, MutualReach(pool, g, EffectiveMinSamples(minSize)))
        clusters == UNION {BisectByLargestMreach(tree, part, minSize) : part \in tree.parts}
    IN  BySmallest({C \in clusters : Cardinality(C) >= 2})

LambdaOf(d) == Lambda \div Biggest(d, 1)

\* The edges of the condensed tree: at lambda, a sub-cluster is born of its
\* parent, or a cache falls out of it.  A cluster is named by the node it is
\* born at, and lives on in the one big half of a lopsided split.
RECURSIVE Condense(_, _, _, _)
Condense(tree, node, cluster, minSize) ==
    IF Cardinality(node) = 1 THEN {}
    ELSE LET lambda == LambdaOf(tree.height[node])
             big == {half \in tree.halves[node] : Cardinality(half) >= minSize}
             falling == node \ UNION big
             born == IF Cardinality(big) = 2 THEN big ELSE {}
         IN  {[parent |-> cluster, child |-> {a}, lambda |-> lambda] : a \in falling}
             \cup {[parent |-> cluster, child |-> half, lambda |-> lambda] : half \in born}
             \cup UNION {Condense(tree, half, IF half \in born THEN half ELSE cluster, minSize) :
                             half \in big}

CondenseTree(tree, minSize) ==
    LET roots == {part \in tree.parts : Cardinality(part) >= minSize}
    IN  [roots |-> roots,
         edges |-> UNION {Condense(tree, root, root, minSize) : root \in roots}]

Clusters(condensed) == condensed.roots \cup {e.child : e \in {e \in condensed.edges : Cardinality(e.child) > 1}}
SubClusters(condensed, C) ==
    {e.child : e \in {e \in condensed.edges : e.parent = C /\ Cardinality(e.child) > 1}}

Birth(condensed, C) ==
    IF C \in condensed.roots THEN 0
    ELSE (CHOOSE e \in condensed.edges : e.child = C).lambda

Stability(condensed, C) ==
    FoldSet(LAMBDA e, sum : sum + (e.lambda - Birth(condensed, C)) * Cardinality(e.child), 0,
            {e \in condensed.edges : e.parent = C})

Total(f, S) == FoldSet(LAMBDA x, sum : sum + f[x], 0, S)

\* Mutant: the parent is weighed against its best sub-cluster.
WeighAgainstOne(condensed, so, C) ==
    LET own == Stability(condensed, C)
        below == IF SubClusters(condensed, C) = {} THEN 0
                 ELSE Max({so.propagated[D] : D \in SubClusters(condensed, C)})
    IN  IF below > own
        THEN [propagated |-> (C :> below) @@ so.propagated, selected |-> so.selected]
        ELSE [propagated |-> (C :> own) @@ so.propagated,
              selected |-> {D \in so.selected : ~(D \subseteq C)} \cup {C}]

\* Excess of mass: a cluster stands unless its sub-clusters are worth more.
Weigh(condensed, so, C) ==
    LET own == Stability(condensed, C)
        below == Total(so.propagated, SubClusters(condensed, C))
    IN  IF below > own
        THEN [propagated |-> (C :> below) @@ so.propagated, selected |-> so.selected]
        ELSE [propagated |-> (C :> own) @@ so.propagated,
              selected |-> {D \in so.selected : ~(D \subseteq C)} \cup {C}]

\* Bottom-up: a sub-cluster is smaller than its parent.
SelectEoM(condensed) ==
    LET bottomUp == Ranked(Clusters(condensed), LAMBDA C, D :
            \/ Cardinality(C) < Cardinality(D)
            \/ Cardinality(C) = Cardinality(D) /\ Min(C) < Min(D))
    IN  FoldLeft(LAMBDA so, C : Weigh(condensed, so, C),
                 [propagated |-> <<>>, selected |-> {}], bottomUp).selected

SelectLeaves(condensed) ==
    {C \in Clusters(condensed) : SubClusters(condensed, C) = {}}

\* Every cache under a selected cluster, from wherever it fell out.
MembersOf(condensed, selected) ==
    {UNION {e.child : e \in {e \in condensed.edges :
                Cardinality(e.child) = 1 /\ e.parent \subseteq C}} : C \in selected}

Condensed(pool, g, minSize) ==
    CondenseTree(SingleLinkage(pool, MutualReach(pool, g, EffectiveMinSamples(minSize))), minSize)

HdbscanStar(pool, g, minSize, selection) ==
    LET condensed == Condensed(pool, g, minSize)
        selected == IF selection = "leaf" THEN SelectLeaves(condensed) ELSE SelectEoM(condensed)
    IN  BySmallest({C \in MembersOf(condensed, selected) : Cardinality(C) >= 2})

----------------------------------------------------------------------------
(* splitByMstCut *)

\* Prim over the members by straight line; members without a place are cut
\* off at an infinite distance.  Edges are <<from, to, metres>>.
PrimStep(at, members, so) ==
    LET outside == {j \in DOMAIN members : members[j] \in DOMAIN at} \ ToSet(so.order)
        far(j) == Min({Apart(at, members[i], members[j]) : i \in ToSet(so.order)})
        next == CHOOSE j \in outside : \A i \in outside :
                    far(j) < far(i) \/ (far(j) = far(i) /\ j =< i)
        parent == CHOOSE i \in DOMAIN so.order :
                    /\ Apart(at, members[so.order[i]], members[next]) = far(next)
                    /\ \A h \in 1..(i - 1) : Apart(at, members[so.order[h]], members[next]) > far(next)
    IN  IF outside = {} THEN so
        ELSE [order |-> Append(so.order, next),
              edges |-> Append(so.edges, <<so.order[parent], next, far(next)>>)]

MstEdges(at, members) ==
    IF Len(members) =< 1 \/ members[1] \notin DOMAIN at THEN <<>>
    ELSE FoldLeft(LAMBDA so, i : PrimStep(at, members, so),
                  [order |-> <<1>>, edges |-> <<>>], Tail(members)).edges

MstMetres(edges) == FoldLeft(LAMBDA sum, e : sum + e[3], 0, edges)

LongestEdge(edges) ==
    CHOOSE i \in DOMAIN edges : \A j \in DOMAIN edges \ {i} :
        \/ edges[j][3] < edges[i][3]
        \/ edges[j][3] = edges[i][3] /\ edges[i][1] < edges[j][1]
        \/ edges[j][3] = edges[i][3] /\ edges[i][1] = edges[j][1] /\ edges[i][2] < edges[j][2]

\* The longest edge of the tree is cut until every part fits the budget.
RECURSIVE SplitByMstCut(_, _, _, _, _)
SplitByMstCut(at, members, budget, minSize, depth) ==
    LET edges == MstEdges(at, members)
    IN  IF Len(members) < minSize THEN <<>>
        ELSE IF 2 * MstMetres(edges) =< budget THEN <<members>>
        ELSE IF depth >= MaxCuts \/ edges = <<>> THEN <<>>
        ELSE LET cut == LongestEdge(edges)
                 rest == {{edges[i][1], edges[i][2]} : i \in DOMAIN edges \ {cut}}
                 left == Flood(rest, DOMAIN members, {edges[cut][1]})
                 side(J) == [i \in 1..Cardinality(J) |-> members[Ascending(J)[i]]]
             IN  SplitByMstCut(at, side(left), budget, minSize, depth + 1)
                 \o SplitByMstCut(at, side(DOMAIN members \ left), budget, minSize, depth + 1)

----------------------------------------------------------------------------
(* refineClusters *)

RECURSIVE TrimWalkingOutliers(_, _)
TrimWalkingOutliers(ids, edges) ==
    LET kept == SelectSeq(ids, LAMBDA a : \E b \in ToSet(ids) \ {a} : {a, b} \in edges)
    IN  IF kept = ids THEN ids ELSE TrimWalkingOutliers(kept, edges)

\* n times the distance from the centroid of the n ids that have a place.
OffCentre(at, placed) ==
    LET n == Len(placed)
        total == FoldLeft(LAMBDA sum, a : sum + at[a], 0, placed)
        off(a) == IF n * at[a] < total THEN total - n * at[a] ELSE n * at[a] - total
    IN  [i \in DOMAIN placed |-> off(placed[i])]

\* Beyond twice the median, or a quarter of the budget, from the centroid.
\* The distances are those of the ids that have a place, read by position.
RECURSIVE TrimGeographicOutliers(_, _, _, _)
TrimGeographicOutliers(at, ids, budget, minSize) ==
    LET placed == SelectSeq(ids, LAMBDA a : a \in DOMAIN at)
        n == Len(placed)
        off == OffCentre(at, placed)
        median == SortSeq(off, <)[n \div 2 + 1]
        keeps(i) == i =< n /\ off[i] =< 2 * median /\ 4 * off[i] =< n * budget
        kept == FoldLeft(LAMBDA so, i : IF keeps(i) THEN Append(so, ids[i]) ELSE so, <<>>,
                         [i \in DOMAIN ids |-> i])
    IN  IF Len(ids) < minSize \/ n = 0 \/ kept = ids THEN ids
        ELSE TrimGeographicOutliers(at, kept, budget, minSize)

IsDuplicate(A, B) ==
    5 * Cardinality(A \cap B) >= 4 * Cardinality(A \cup B)

\* One part of a raw cluster: trimmed, and kept if it is big enough and new.
RefinePart(at, g, q, kept, part) ==
    LET walked == IF q.strategy \in {"hdbscan", "hdbscan-star"} THEN part
                  ELSE TrimWalkingOutliers(part, DOMAIN g)
        ids == ToSet(TrimGeographicOutliers(at, walked, q.budget, q.minSize))
    IN  IF Cardinality(ids) < q.minSize \/ \E i \in DOMAIN kept : IsDuplicate(kept[i], ids)
        THEN kept ELSE Append(kept, ids)

RefineClusters(at, g, q, raw) ==
    FoldLeft(LAMBDA kept, C :
        FoldLeft(LAMBDA so, part : RefinePart(at, g, q, so, part), kept,
                 SplitByMstCut(at, Ascending(C), q.budget, q.minSize, 0)),
        <<>>, raw)

=============================================================================

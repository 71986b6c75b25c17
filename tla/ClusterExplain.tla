--------------------------- MODULE ClusterExplain ---------------------------
(***************************************************************************)
(* What explainSelection says of a selection of caches: how the walking    *)
(* graph of a request sees them, what refinement and each strategy would   *)
(* make of them, and which cluster of the whole pool is most like them.    *)
(* Walking distances are read again from route_legs, after the graph.      *)
(*                                                                         *)
(* Seconds, scores, names and centroids are left out, and so are louvain   *)
(* and leiden, which explain as the other strategies do.                   *)
(***************************************************************************)
EXTENDS WalkingGraph

CONSTANT NearestShown    \* neighbours shown of a cache

Strategies == {"components", "dbscan", "hdbscan", "hdbscan-star"}

\* The caches of the pool and their places.
At(r) == [c \in InPool(r) |-> scenario.at[c]]

\* The clusters of a strategy over a pool and a graph.
RawClusters(strategy, nodes, g, at, q) ==
    CASE strategy = "components" -> Components(nodes, g)
      [] strategy = "dbscan" -> Dbscan(nodes, g, at, q.maxLink, q.minSize)
      [] strategy = "hdbscan" -> Hdbscan(nodes, g, q.minSize)
      [] strategy = "hdbscan-star" -> HdbscanStar(nodes, g, q.minSize, q.selection)

Selection(r) == Query(r).explains
Present(r) == SelectSeq(Ascending(Selection(r)), LAMBDA c : c \in InPool(r))

----------------------------------------------------------------------------
(* buildCachedCellMap, symmetrisePairMap *)

\* The nearest of the pool by straight line, in the order of the pool if equal.
Around(r, c) ==
    LET place(d) == CHOOSE i \in DOMAIN pool[r] : pool[r][i] = d
    IN  Take(Ranked(InPool(r) \ {c}, LAMBDA a, b :
            \/ Straight(c, a) < Straight(c, b)
            \/ Straight(c, a) = Straight(c, b) /\ place(a) < place(b)), NearestShown)

CellPairs(r) ==
    {p \in Pairs :
        \/ p[1] \in Selection(r) /\ p[2] \in Selection(r)
        \/ \E c \in ToSet(Present(r)), d \in Caches : d \in ToSet(Around(r, c)) /\ p \in {<<c, d>>, <<d, c>>}}

\* Mutant: of both directions, the longer.
LongerWay(r, a, b) ==
    LET cells == {rows[p] : p \in {p \in {<<a, b>>, <<b, a>>} \cap CellPairs(r) : Walked(rows, p)}}
    IN  IF cells = {} THEN None ELSE Max(cells)

\* Of both directions, the shorter; markers of a missing route are no walk.
ShorterWay(r, a, b) ==
    LET cells == {rows[p] : p \in {p \in {<<a, b>>, <<b, a>>} \cap CellPairs(r) : Walked(rows, p)}}
    IN  IF cells = {} THEN None ELSE Min(cells)

----------------------------------------------------------------------------
(* The selection *)

Geometry(r) ==
    LET placed == Present(r)
        ends == {<<i, j>> \in (DOMAIN placed) \X (DOMAIN placed) : i < j}
        length(e) == Straight(placed[e[1]], placed[e[2]])
        sorted == Ranked(ends, LAMBDA e, f :
            \/ length(e) < length(f)
            \/ length(e) = length(f) /\ (e[1] < f[1] \/ (e[1] = f[1] /\ e[2] < f[2])))
        loop == 2 * MstMetres(MstEdges(At(r), placed))
    IN  [diameter |-> IF ends = {} THEN 0 ELSE length(sorted[Len(sorted)]),
         median |-> IF ends = {} THEN 0 ELSE length(sorted[Len(sorted) \div 2 + 1]),
         loop |-> loop,
         withinBudget |-> loop =< Query(r).budget]

NeighbourInfo(r, c, d) == [id |-> d, line |-> Straight(c, d), walked |-> ShorterWay(r, c, d)]

CacheInfo(r, c) ==
    IF c \notin InPool(r) THEN [inPool |-> FALSE, nearest |-> <<>>]
    ELSE [inPool |-> TRUE,
          nearest |-> FoldLeft(LAMBDA so, d : Append(so, NeighbourInfo(r, c, d)), <<>>, Around(r, c))]

EdgeInfo(r, g, a, b, walked) ==
    [pair |-> {a, b}, line |-> Straight(a, b), walked |-> walked, inGraph |-> {a, b} \in DOMAIN g,
     withinMaxLink |-> (IF walked = None THEN Straight(a, b) ELSE walked) =< Query(r).maxLink]

\* projectTrims without a minimal size, projectMstSplit with one of two.
Refinement(r, g) ==
    LET ids == Ascending(Selection(r))
        onFoot == TrimWalkingOutliers(ids, DOMAIN g)
        near2 == TrimGeographicOutliers(At(r), onFoot, Query(r).budget, 1)
    IN  [walkingOutliers |-> ToSet(ids) \ ToSet(onFoot),
         geographicOutliers |-> ToSet(onFoot) \ ToSet(near2),
         parts |-> SplitByMstCut(At(r), ids, Query(r).budget, 2, 0)]

\* What a strategy would do if the selection were all there is.
Parted(S, clusters) == [clusters |-> clusters, noise |-> S \ UNION clusters]

Outcome(r, g, strategy) ==
    LET at == [c \in ToSet(Present(r)) |-> scenario.at[c]]
        inner == [e \in {e \in DOMAIN g : e \subseteq Selection(r)} |-> g[e]]
        nodes == SelectSeq(pool[r], LAMBDA c : c \in Selection(r))
        raw == RawClusters(strategy, nodes, inner, at, [Query(r) EXCEPT !.minSize = 2])
    IN  Parted(Selection(r), {C \cap Selection(r) : C \in ToSet(raw)} \ {{}})

----------------------------------------------------------------------------
(* computeAttribution *)

\* A is more like S than B is.
Likelier(A, B, S) ==
    Cardinality(A \cap S) * Cardinality(B \cup S) > Cardinality(B \cap S) * Cardinality(A \cup S)

\* Of a list of clusters the one most like S, the first of equals.
MostLike(S, clusters) ==
    CHOOSE A \in ToSet(clusters) : \E i \in DOMAIN clusters :
        /\ A = clusters[i]
        /\ \A j \in DOMAIN clusters : ~Likelier(clusters[j], A, S)
        /\ \A j \in 1..(i - 1) : Likelier(A, clusters[j], S)

Match(S, nodes, A) ==
    [matched |-> A \cap nodes, common |-> Cardinality(A \cap S), either |-> Cardinality(A \cup S)]

MatchIn(S, nodes, clusters) ==
    IF \A i \in DOMAIN clusters : clusters[i] \cap S = {}
    THEN [matched |-> {}, common |-> 0, either |-> 1]
    ELSE Match(S, nodes, MostLike(S, clusters))

\* The refined cluster most like the selection.
Attribution(r, g, strategy) ==
    LET q == [Query(r) EXCEPT !.strategy = strategy]
    IN  MatchIn(Selection(r), InPool(r),
                RefineClusters(At(r), g, q, RawClusters(strategy, pool[r], g, At(r), q)))

Explanation(r, g) ==
    [selection |-> Geometry(r),
     caches |-> [c \in Selection(r) |-> CacheInfo(r, c)],
     edges |-> {EdgeInfo(r, g, Min(e), Max(e), ShorterWay(r, Min(e), Max(e))) : e \in {e \in SUBSET ToSet(Present(r)) : Cardinality(e) = 2}},
     refinement |-> Refinement(r, g),
     perStrategy |-> [s \in Strategies |-> Outcome(r, g, s)],
     attribution |-> [s \in Strategies |-> Attribution(r, g, s)]]

=============================================================================

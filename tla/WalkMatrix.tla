----------------------------- MODULE WalkMatrix -----------------------------
(***************************************************************************)
(* What the planners compute from a walking matrix before they solve a     *)
(* tour: the walk-connected component they keep, the metric closure over   *)
(* its short links, the groups of co-located caches, and the cheapest edge *)
(* of a cycle to attach a parking place to.                                *)
(*                                                                         *)
(* A matrix is a function w with w[a][b] the metres from a to b, Infinity  *)
(* where OSRM knows no route (null).  Ids are natural numbers.             *)
(***************************************************************************)
EXTENDS Distances, SequencesExt

CONSTANTS
    MaxLink,      \* maxLinkMeters of the request
    Colocate      \* colocateThresholdMeters()

ASSUME WalkMatrixAssumption ==
    MaxLink \in 0..(Infinity - 1) /\ Colocate \in 0..(Infinity - 1)

Less(a, b) == IF a <= b THEN a ELSE b
Metres(w, a, b) == IF a = b THEN 0 ELSE w[a][b]

\* The elements of a set in the order of a strict total order on them.
Ranked(S, Precedes(_, _)) ==
    [i \in 1..Cardinality(S) |->
        CHOOSE x \in S : Cardinality({y \in S : Precedes(y, x)}) = i - 1]

Sorted(S) == Ranked(S, LAMBDA a, b : a < b)

\* Array.filter: the elements that pass a test, in their order.
Where(seq, Test(_)) ==
    LET at == Sorted({i \in DOMAIN seq : Test(seq[i])})
    IN  [k \in DOMAIN at |-> seq[at[k]]]

----------------------------------------------------------------------------

\* An edge of the linking graph: the better direction is within the cap.
Linked(w, cap, a, b) == a # b /\ Less(w[a][b], w[b][a]) <= cap

\* The nodes of S that a chain of links joins to a member of from.
Component(w, cap, S, from) ==
    LET reach[n \in 0..Cardinality(S)] ==
            IF n = 0 THEN from
            ELSE LET near == reach[n - 1]
                 IN  near \cup {b \in S : \E a \in near : Linked(w, cap, a, b)}
    IN  reach[Cardinality(S)]

\* largestConnectedComponent: ties go to the component with the lowest id.
LargestComponent(w, S) ==
    LET components == {Component(w, MaxLink, S, {a}) : a \in S}
    IN  IF S = {} THEN {} ELSE CHOOSE c \in components : \A d \in components \ {c} :
            \/ Cardinality(c) > Cardinality(d)
            \/ Cardinality(c) = Cardinality(d) /\ Min(c) < Min(d)

\* Mutant: over every route there is, however long.
ClosureOfAll(w, S) ==
    LET ids == Sorted(S)
        dist[k \in 0..Len(ids)] ==
            IF k = 0 THEN [a \in S |-> [b \in S |-> Metres(w, a, b)]]
            ELSE LET d == dist[k - 1]
                 IN  [a \in S |-> [b \in S |-> Less(d[a][b], Plus(d[a][ids[k]], d[ids[k]][b]))]]
    IN  [a \in S |-> [b \in S |->
            IF a # b /\ w[a][b] < Infinity THEN w[a][b] ELSE dist[Len(ids)][a][b]]]

\* metricClosure: Floyd-Warshall over the links within the cap; only the
\* pairs without a direct route are filled.
Closure(w, S) ==
    LET ids == Sorted(S)
        dist[k \in 0..Len(ids)] ==
            IF k = 0
            THEN [a \in S |-> [b \in S |->
                    IF a = b THEN 0 ELSE IF w[a][b] <= MaxLink THEN w[a][b] ELSE Infinity]]
            ELSE LET d == dist[k - 1]
                 IN  [a \in S |-> [b \in S |-> Less(d[a][b], Plus(d[a][ids[k]], d[ids[k]][b]))]]
        closed == dist[Len(ids)]
    IN  [a \in S |-> [b \in S |->
            IF a # b /\ w[a][b] < Infinity THEN w[a][b] ELSE closed[a][b]]]

\* collapseColocated: the groups of caches a few metres apart; a member's
\* group is listed by (stage, id), and its head represents it.
Group(w, S, stage, a) ==
    Ranked(
        IF Colocate = 0 THEN {a} ELSE Component(w, Colocate, S, {a}),
        LAMBDA x, y : stage[x] < stage[y] \/ (stage[x] = stage[y] /\ x < y))

\* Groups in the order of their lowest id; one group alone is not collapsed.
Representatives(w, S, stage) ==
    LET firsts == Sorted({Min(ToSet(Group(w, S, stage, a))) : a \in S})
    IN  IF Len(firsts) >= 2
        THEN [i \in DOMAIN firsts |-> Group(w, S, stage, firsts[i])[1]]
        ELSE Sorted(S)

Members(w, S, stage) ==
    LET reps == Representatives(w, S, stage)
    IN  [r \in ToSet(reps) |->
            IF Len(reps) = Cardinality(S) THEN <<r>> ELSE Group(w, S, stage, r)]

----------------------------------------------------------------------------

\* closedLoopMeters: parking to the first stop, along, and back to parking.
ClosedLoop(d, w, lot, tour) ==
    LET path[k \in 1..Len(tour)] ==
            IF k = 1 THEN 0 ELSE Plus(path[k - 1], Metres(d, tour[k - 1], tour[k]))
    IN  IF tour = <<>> THEN 0
        ELSE Plus(path[Len(tour)], Plus(w[lot][tour[1]], w[tour[Len(tour)]][lot]))

Before(tour, i) == tour[IF i = 1 THEN Len(tour) ELSE i - 1]

\* The price of splitting the edge into position i; an unroutable edge has
\* nothing to give back.
InsertionCost(d, w, lot, tour, i) ==
    LET inOut == Plus(w[lot][tour[i]], w[Before(tour, i)][lot])
        skipped == Metres(d, Before(tour, i), tour[i])
    IN  IF inOut >= Infinity THEN Infinity
        ELSE inOut - (IF skipped < Infinity /\ Len(tour) > 1 THEN skipped ELSE 0)

\* bestParkingInsertion: the cheapest edge, the first one on a tie.
BestInsertion(d, w, lot, tour) ==
    CHOOSE i \in DOMAIN tour : \A j \in DOMAIN tour :
        LET ci == InsertionCost(d, w, lot, tour, i)
            cj == InsertionCost(d, w, lot, tour, j)
        IN  ci < cj \/ (ci = cj /\ i <= j)

BestInsertionCost(d, w, lot, tour) ==
    InsertionCost(d, w, lot, tour, BestInsertion(d, w, lot, tour))

Rotate(tour, i) == SubSeq(tour, i, Len(tour)) \o SubSeq(tour, 1, i - 1)

\* rotateForBestParkingInsertion
RotateForParking(d, w, lot, tour) == Rotate(tour, BestInsertion(d, w, lot, tour))

=============================================================================

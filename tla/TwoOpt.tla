------------------------------- MODULE TwoOpt -------------------------------
(***************************************************************************)
(* Tsp.solveTwoOpt: a closed tour over the indices of a distance matrix,   *)
(* seeded by the nearest neighbour and improved by alternating 2-opt and   *)
(* Or-opt passes (variable neighbourhood descent) until a whole round      *)
(* changes nothing.  Position 1 is pinned to the start index.              *)
(*                                                                         *)
(* The function runs in a worker thread; each action below is one turn of  *)
(* one of its loops.  Call and Collect are the caller's side of it.        *)
(* The 1e-9 slack of the comparisons is left out: lengths are metres.      *)
(***************************************************************************)
EXTENDS Distances, Sequences

CONSTANTS
    MaxIterations,  \* turns of one pass
    MaxRounds       \* rounds of 2-opt and Or-opt

ASSUME TwoOptAssumption ==
    /\ MaxIterations \in Nat \ {0}
    /\ MaxRounds \in Nat \ {0}

VARIABLES
    matrix,      \* the distances of the call, [1..n -> [1..n -> Nat]]
    start,       \* startIndex
    order,       \* the tour so far
    pass,        \* "idle", "seed", "two_opt", "or_opt" or "done"
    improved,    \* vndImproved: this round applied a move
    iterations,  \* of this pass
    rounds       \* vndRounds

solverVars == <<matrix, start, order, pass, improved, iterations, rounds>>

Size == Len(matrix)

D2(i, j) == IF i = j THEN 0 ELSE matrix[i][j]

\* The position that follows k in the closed tour.
After(k) == (k % Size) + 1

----------------------------------------------------------------------------
(* The moves of the two neighbourhoods, in the order the loops visit them. *)

Lexicographic(m, o) ==
    \E p \in DOMAIN m : m[p] < o[p] /\ \A q \in 1..(p - 1) : m[q] = o[q]

\* The strict improvement the loops end up with: the greatest, first seen.
IsBest(m, moves, Gain(_)) ==
    /\ m \in moves
    /\ Gain(m) < 0
    /\ \A o \in moves \ {m} :
          \/ Gain(m) < Gain(o)
          \/ Gain(m) = Gain(o) /\ Lexicographic(m, o)

Swaps == {m \in (2..Size) \X (2..Size) : m[1] < m[2]}

SwapGain(m) ==
    LET a == order[m[1] - 1]  b == order[m[1]]
        c == order[m[2]]      d == order[After(m[2])]
    IN  Delta(Plus(D2(a, b), D2(c, d)), Plus(D2(a, c), D2(b, d)))

\* Mutant: the last of the segment stays where it is.
ReverseShort(t, i, k) ==
    [p \in 1..Len(t) |-> IF p \in i..(k - 1) THEN t[i + k - p] ELSE t[p]]

ReverseSegment(t, i, k) ==
    [p \in 1..Len(t) |-> IF p \in i..k THEN t[i + k - p] ELSE t[p]]

\* <<L, i, j>>: the L nodes from position i move in front of position j.
ChainMoves ==
    {m \in (1..3) \X (2..Size) \X (2..(Size + 1)) :
        m[2] + m[1] <= Size + 1 /\ m[3] \notin m[2]..(m[2] + m[1])}

ChainGain(m) ==
    LET L == m[1]  i == m[2]  j == m[3]
        pred == order[i - 1]    head == order[i]
        tail == order[i + L - 1]  succ == order[After(i + L - 1)]
        before == order[j - 1]  after == order[After(j - 1)]
    IN  Delta(Plus(Plus(D2(pred, head), D2(tail, succ)), D2(before, after)),
              Plus(D2(pred, succ), Plus(D2(before, head), D2(tail, after))))

MoveChain(t, L, i, j) ==
    IF j > i
    THEN [p \in 1..Len(t) |->
            IF p \in i..(j - L - 1) THEN t[p + L]
            ELSE IF p \in (j - L)..(j - 1) THEN t[p - (j - L) + i] ELSE t[p]]
    ELSE [p \in 1..Len(t) |->
            IF p \in j..(j + L - 1) THEN t[p - j + i]
            ELSE IF p \in (j + L)..(i + L - 1) THEN t[p - L] ELSE t[p]]

----------------------------------------------------------------------------

SolverInit ==
    /\ matrix = <<>>
    /\ start = 1
    /\ order = <<>>
    /\ pass = "idle"
    /\ improved = FALSE
    /\ iterations = 0
    /\ rounds = 0

\* A caller hands over a matrix and the index to start from.
Call(m, s) ==
    /\ pass = "idle"
    /\ matrix' = m
    /\ start' = s
    /\ order' = <<s>>
    /\ pass' = "seed"
    /\ improved' = FALSE
    /\ iterations' = 0
    /\ rounds' = 1

Unvisited == {j \in 1..Size : \A p \in DOMAIN order : order[p] # j}

Nearer(last, j, o) ==
    D2(last, j) < D2(last, o) \/ (D2(last, j) = D2(last, o) /\ j < o)

\* One step of nearestNeighborSeed; where every node left is at Infinity the
\* tie rule and the fallback both take the lowest index.
SeedStep ==
    /\ pass = "seed"
    /\ \E j \in Unvisited :
          /\ \A o \in Unvisited \ {j} : Nearer(order[Len(order)], j, o)
          /\ order' = Append(order, j)
    /\ UNCHANGED <<matrix, start, pass, improved, iterations, rounds>>

SeedEnd ==
    /\ pass = "seed"
    /\ Unvisited = {}
    /\ pass' = "two_opt"
    /\ UNCHANGED <<matrix, start, order, improved, iterations, rounds>>

CanMove(moves, Gain(_)) ==
    iterations < MaxIterations /\ \E m \in moves : Gain(m) < 0

TwoOptMove ==
    /\ pass = "two_opt"
    /\ iterations < MaxIterations
    /\ \E m \in Swaps :
          /\ IsBest(m, Swaps, SwapGain)
          /\ order' = ReverseSegment(order, m[1], m[2])
    /\ improved' = TRUE
    /\ iterations' = iterations + 1
    /\ UNCHANGED <<matrix, start, pass, rounds>>

\* Mutant: one round and no more.
EndAtOnce ==
    /\ iterations' = 0
    /\ improved' = FALSE
    /\ pass' = "done"
    /\ UNCHANGED rounds

\* The condition of the outer loop, evaluated at the end of a round.
EndRound ==
    /\ iterations' = 0
    /\ improved' = FALSE
    /\ IF improved /\ rounds < MaxRounds
       THEN pass' = "two_opt" /\ rounds' = rounds + 1
       ELSE pass' = "done" /\ UNCHANGED rounds

TwoOptEnd ==
    /\ pass = "two_opt"
    /\ ~CanMove(Swaps, SwapGain)
    /\ IF Size >= 4
       THEN pass' = "or_opt" /\ iterations' = 0 /\ UNCHANGED <<improved, rounds>>
       ELSE EndRound
    /\ UNCHANGED <<matrix, start, order>>

OrOptMove ==
    /\ pass = "or_opt"
    /\ iterations < MaxIterations
    /\ \E m \in ChainMoves :
          /\ IsBest(m, ChainMoves, ChainGain)
          /\ order' = MoveChain(order, m[1], m[2], m[3])
    /\ improved' = TRUE
    /\ iterations' = iterations + 1
    /\ UNCHANGED <<matrix, start, pass, rounds>>

OrOptEnd ==
    /\ pass = "or_opt"
    /\ ~CanMove(ChainMoves, ChainGain)
    /\ EndRound
    /\ UNCHANGED <<matrix, start, order>>

SolverStep ==
    SeedStep \/ SeedEnd \/ TwoOptMove \/ TwoOptEnd \/ OrOptMove \/ OrOptEnd

\* The promise resolves and the caller takes the tour.
Collect ==
    /\ pass = "done"
    /\ pass' = "idle"
    /\ matrix' = <<>>
    /\ order' = <<>>
    /\ start' = 1
    /\ rounds' = 0
    /\ UNCHANGED <<improved, iterations>>

\* PiscinaComputePool.run aborts a task that outlives its time limit.
Abort ==
    /\ pass \in {"seed", "two_opt", "or_opt"}
    /\ pass' = "idle"
    /\ matrix' = <<>>
    /\ order' = <<>>
    /\ start' = 1
    /\ improved' = FALSE
    /\ iterations' = 0
    /\ rounds' = 0

----------------------------------------------------------------------------
(* Any caller at all: the specification the invariants are proved of. *)

Matrices == UNION {[1..n -> [1..n -> Nat]] : n \in Nat \ {0}}

SolverNext ==
    \/ \E m \in Matrices : \E s \in 1..Len(m) : Call(m, s)
    \/ SolverStep
    \/ Collect
    \/ Abort

SolverSpec == SolverInit /\ [][SolverNext]_solverVars

----------------------------------------------------------------------------

\* Once the seed is complete the order visits every index exactly once and
\* starts with the pinned one, whatever 2-opt and Or-opt did to it.
IsTour ==
    pass \in {"two_opt", "or_opt", "done"} =>
        /\ Len(order) = Size
        /\ \A j \in 1..Size : \E p \in 1..Size : order[p] = j
        /\ \A p, q \in 1..Size : order[p] = order[q] => p = q
        /\ order[1] = start

\* When the solver is done with rounds to spare, neither neighbourhood has an
\* improving move left: 2-opt was tried again after the last Or-opt move.
LocalOptimum ==
    (pass = "done" /\ rounds < MaxRounds) =>
        /\ \A m \in Swaps : SwapGain(m) >= 0
        /\ Size >= 4 => \A m \in ChainMoves : ChainGain(m) >= 0

=============================================================================

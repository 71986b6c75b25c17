--------------------------- MODULE Planner_proofs ---------------------------
(***************************************************************************)
(* The planners and two pieces of machinery they and others lean on, for   *)
(* every size.                                                             *)
(*                                                                         *)
(* 2-opt and Or-opt: whatever matrix and start a caller hands over, they   *)
(* end with a tour, every index once, the start first, and, if they        *)
(* converge, in a local optimum.                                           *)
(*                                                                         *)
(* Filter and closure: whatever request reaches either planner, the matrix *)
(* the tour is solved on has the shortest chain of short links where OSRM  *)
(* knows no route.                                                         *)
(*                                                                         *)
(* The count: from collapse to the last fringe stop, a representative is   *)
(* in the tour or put down with one reason, and so the report of a plan    *)
(* and its stops share out the candidates.                                 *)
(*                                                                         *)
(* The legs: those of a finished plan lead from parking through all its    *)
(* stops and back, each along the route it says it follows.                *)
(*                                                                         *)
(* The semaphore of HttpOsrmClient: a slot that is given back while calls  *)
(* wait is promised to the first of them before anything else runs, so     *)
(* that the counter and the promises together never pass the cap.          *)
(***************************************************************************)
EXTENDS ToursService, OsrmClient, WellFoundedInduction, FiniteSetTheorems, FunctionTheorems,
        SequenceTheorems, TLAPS

Running == {"seed", "two_opt", "or_opt", "done"}

\* A walk over distinct indices that starts at the pinned one.
Path(t, n, s) ==
    /\ t \in Seq(1..n)
    /\ Len(t) \in 1..n
    /\ t[1] = s
    /\ \A p, q \in 1..Len(t) : t[p] = t[q] => p = q

Tour(t, n, s) ==
    /\ Path(t, n, s)
    /\ Len(t) = n
    /\ \A j \in 1..n : \E p \in 1..n : t[p] = j

\* What the code relies on between two turns of its loops.
SolverInv ==
    /\ pass \in Running \cup {"idle"}
    /\ pass # "idle" => Size \in Nat \ {0} /\ start \in 1..Size
    /\ pass = "seed" => Path(order, Size, start)
    /\ pass \in {"two_opt", "or_opt", "done"} => Tour(order, Size, start)

----------------------------------------------------------------------------
(* Sequences and rearrangements. *)

\* k distinct indices below n.
Distinct(t, k, n) ==
    t \in [1..k -> 1..n] /\ \A p, q \in 1..k : t[p] = t[q] => p = q

Onto(t, k, n) == \A j \in 1..n : \E p \in 1..k : t[p] = j

\* A permutation of the positions that leaves the first one alone.
Shuffle(r, n) == Distinct(r, n, n) /\ Onto(r, n, n) /\ r[1] = 1

LEMMA LenOfFunction ==
    ASSUME NEW S, NEW n \in Nat, NEW f \in [1..n -> S]
    PROVE  f \in Seq(S) /\ Len(f) = n
<1>1. f \in Seq(S)
  OBVIOUS
<1>2. Len(f) \in Nat /\ DOMAIN f = 1..Len(f)
  BY <1>1, LenProperties
<1>3. DOMAIN f = 1..n
  OBVIOUS
<1>. QED
  BY <1>1, <1>2, <1>3

\* Distinct indices below n are at most n, and are all of them if they are n.
LEMMA PathsAreShort ==
    ASSUME NEW n \in Nat, NEW k \in Nat, NEW t, Distinct(t, k, n)
    PROVE  k <= n /\ (Onto(t, k, n) => k = n)
<1>1. t \in Injection(1..k, 1..n)
  BY DEF Injection, IsInjective, Distinct
<1>2. /\ IsFiniteSet(1..n) /\ IsFiniteSet(1..k)
      /\ Cardinality(1..n) = n
      /\ Cardinality(1..k) = k
  <2>1. n \in Int /\ k \in Int /\ 1 \in Int
    OBVIOUS
  <2>. QED
    BY <2>1, FS_Interval
<1>3. /\ Cardinality(1..k) <= Cardinality(1..n)
      /\ Cardinality(1..k) = Cardinality(1..n) <=> t \in Surjection(1..k, 1..n)
  BY <1>1, <1>2, FS_Injection
<1>4. Onto(t, k, n) => t \in Surjection(1..k, 1..n)
  BY DEF Surjection, Distinct, Onto
<1>. QED
  BY <1>2, <1>3, <1>4

\* A tour whose positions are permuted, the first one excepted, is a tour.
LEMMA Rearranged ==
    ASSUME NEW n \in Nat \ {0}, NEW s, NEW t, Tour(t, n, s),
           NEW r, Shuffle(r, n)
    PROVE  Tour([p \in 1..n |-> t[r[p]]], n, s)
<1> DEFINE u == [p \in 1..n |-> t[r[p]]]
<1>1. t \in [1..n -> 1..n] /\ r \in [1..n -> 1..n]
  BY LenProperties DEF Tour, Path, Shuffle, Distinct
<1>2. u \in [1..n -> 1..n]
  BY <1>1
<1>3. u \in Seq(1..n) /\ Len(u) = n
  BY <1>2, LenOfFunction
<1>4. u[1] = s
  <2>1. r[1] = 1 /\ t[1] = s
    BY DEF Tour, Path, Shuffle
  <2>2. 1 \in 1..n
    OBVIOUS
  <2>. QED
    BY <2>1, <2>2
<1>5. \A p, q \in 1..n : u[p] = u[q] => p = q
  <2> SUFFICES ASSUME NEW p \in 1..n, NEW q \in 1..n, t[r[p]] = t[r[q]] PROVE p = q
    OBVIOUS
  <2>1. r[p] \in 1..n /\ r[q] \in 1..n
    BY <1>1
  <2>2. \A x, y \in 1..n : t[x] = t[y] => x = y
    BY DEF Tour, Path
  <2>3. r[p] = r[q]
    BY <2>1, <2>2
  <2>. QED
    BY <2>3 DEF Shuffle, Distinct
<1>6. \A j \in 1..n : \E p \in 1..n : u[p] = j
  <2> SUFFICES ASSUME NEW j \in 1..n PROVE \E p \in 1..n : u[p] = j
    OBVIOUS
  <2>1. PICK q \in 1..n : t[q] = j
    BY DEF Tour
  <2>2. PICK p \in 1..n : r[p] = q
    BY DEF Shuffle, Onto
  <2>. QED
    BY <2>1, <2>2
<1>7. Path(u, n, s)
  BY <1>3, <1>4, <1>5 DEF Path
<1>8. Tour(u, n, s)
  BY <1>3, <1>6, <1>7 DEF Tour
<1>. QED
  BY <1>8

\* reverseSegment keeps a tour a tour.
LEMMA ReverseKeepsTour ==
    ASSUME NEW n \in Nat \ {0}, NEW s, NEW t, Tour(t, n, s),
           NEW i \in 2..n, NEW k \in 2..n, i < k
    PROVE  Tour(ReverseSegment(t, i, k), n, s)
<1> DEFINE r == [p \in 1..n |-> IF p \in i..k THEN i + k - p ELSE p]
<1>1. r \in [1..n -> 1..n]
  OBVIOUS
<1>2. r[1] = 1
  OBVIOUS
<1>3. \A p, q \in 1..n : r[p] = r[q] => p = q
  OBVIOUS
<1>4. \A j \in 1..n : r[r[j]] = j
  OBVIOUS
<1>5. \A j \in 1..n : \E p \in 1..n : r[p] = j
  <2> SUFFICES ASSUME NEW j \in 1..n PROVE \E p \in 1..n : r[p] = j
    OBVIOUS
  <2>1. r[j] \in 1..n
    BY <1>1
  <2>. QED
    BY <1>4, <2>1
<1> HIDE DEF r
<1>6. Tour([p \in 1..n |-> t[r[p]]], n, s)
  <2>1. Shuffle(r, n)
    BY <1>1, <1>2, <1>3, <1>5 DEF Shuffle, Distinct, Onto
  <2>. QED
    BY <2>1, Rearranged
<1>7. Len(t) = n
  BY DEF Tour
<1>8. ReverseSegment(t, i, k) = [p \in 1..n |-> t[r[p]]]
  BY <1>7 DEF ReverseSegment, r
<1>. QED
  BY <1>6, <1>8

\* applyOrOptMove keeps a tour a tour, wherever the chain goes.
LEMMA MoveKeepsTour ==
    ASSUME NEW n \in Nat \ {0}, NEW s, NEW t, Tour(t, n, s),
           NEW L \in 1..3, NEW i \in 2..n, NEW j \in 2..(n + 1),
           i + L <= n + 1, j \notin i..(i + L)
    PROVE  Tour(MoveChain(t, L, i, j), n, s)
<1>0. Len(t) = n
  BY DEF Tour
<1>1. CASE j > i
  <2> DEFINE r == [p \in 1..n |-> IF p \in i..(j - L - 1) THEN p + L
                                  ELSE IF p \in (j - L)..(j - 1) THEN p - (j - L) + i ELSE p]
             b == [p \in 1..n |-> IF p \in i..(i + L - 1) THEN p - i + (j - L)
                                  ELSE IF p \in (i + L)..(j - 1) THEN p - L ELSE p]
  <2>1. r \in [1..n -> 1..n] /\ b \in [1..n -> 1..n]
    BY <1>1
  <2>2. r[1] = 1
    BY <1>1
  <2>3. \A p \in 1..n : b[r[p]] = p
    BY <1>1
  <2>4. \A p \in 1..n : r[b[p]] = p
    BY <1>1
  <2>5. MoveChain(t, L, i, j) = [p \in 1..n |-> t[r[p]]]
    BY <1>0, <1>1 DEF MoveChain
  <2> HIDE DEF r, b
  <2>6. \A p, q \in 1..n : r[p] = r[q] => p = q
    BY <2>3
  <2>7. \A q \in 1..n : \E p \in 1..n : r[p] = q
    BY <2>1, <2>4
  <2>8. Shuffle(r, n)
    BY <2>1, <2>2, <2>6, <2>7 DEF Shuffle, Distinct, Onto
  <2>9. Tour([p \in 1..n |-> t[r[p]]], n, s)
    BY <2>8, Rearranged
  <2>. QED
    BY <2>5, <2>9
<1>2. CASE ~(j > i)
  <2> DEFINE r == [p \in 1..n |-> IF p \in j..(j + L - 1) THEN p - j + i
                                  ELSE IF p \in (j + L)..(i + L - 1) THEN p - L ELSE p]
             b == [p \in 1..n |-> IF p \in i..(i + L - 1) THEN p - i + j
                                  ELSE IF p \in j..(i - 1) THEN p + L ELSE p]
  <2>1. r \in [1..n -> 1..n] /\ b \in [1..n -> 1..n]
    BY <1>2
  <2>2. r[1] = 1
    BY <1>2
  <2>3. \A p \in 1..n : b[r[p]] = p
    BY <1>2
  <2>4. \A p \in 1..n : r[b[p]] = p
    BY <1>2
  <2>5. MoveChain(t, L, i, j) = [p \in 1..n |-> t[r[p]]]
    BY <1>0, <1>2 DEF MoveChain
  <2> HIDE DEF r, b
  <2>6. \A p, q \in 1..n : r[p] = r[q] => p = q
    BY <2>3
  <2>7. \A q \in 1..n : \E p \in 1..n : r[p] = q
    BY <2>1, <2>4
  <2>8. Shuffle(r, n)
    BY <2>1, <2>2, <2>6, <2>7 DEF Shuffle, Distinct, Onto
  <2>9. Tour([p \in 1..n |-> t[r[p]]], n, s)
    BY <2>8, Rearranged
  <2>. QED
    BY <2>5, <2>9
<1>. QED
  BY <1>1, <1>2

----------------------------------------------------------------------------
(* One step per action. *)

LEMMA CallKeeps ==
    ASSUME NEW m \in Matrices, NEW s \in 1..Len(m), Call(m, s)
    PROVE  SolverInv'
<1>1. PICK n \in Nat \ {0} : m \in [1..n -> [1..n -> Nat]]
  BY DEF Matrices
<1>2. Len(m) = n
  BY <1>1, LenOfFunction
<1>3. matrix' = m /\ start' = s /\ order' = <<s>> /\ pass' = "seed"
  BY DEF Call
<1>4. Size' = n
  BY <1>2, <1>3 DEF Size
<1>5. Path(<<s>>, n, s)
  BY <1>2 DEF Path
<1>. QED
  BY <1>2, <1>3, <1>4, <1>5 DEF SolverInv, Running

LEMMA SeedKeeps ==
    ASSUME SolverInv, SeedStep
    PROVE  SolverInv'
<1> DEFINE n == Size
<1>1. /\ n \in Nat \ {0} /\ start \in 1..n
      /\ Path(order, n, start)
      /\ pass = "seed"
  BY DEF SolverInv, SeedStep
<1>2. PICK j \in Unvisited : order' = Append(order, j)
  BY DEF SeedStep
<1>3. Size' = n /\ start' = start /\ pass' = "seed"
  BY DEF SeedStep, Size
<1> DEFINE k == Len(order)
           u == Append(order, j)
<1>4. order \in Seq(1..n) /\ k \in Nat /\ k >= 1 /\ order \in [1..k -> 1..n] /\ DOMAIN order = 1..k
  BY <1>1, LenProperties DEF Path
<1>5. j \in 1..n /\ \A p \in 1..k : order[p] # j
  BY <1>2, <1>4 DEF Unvisited
<1>6. /\ u \in Seq(1..n) /\ Len(u) = k + 1
      /\ \A p \in 1..k : u[p] = order[p]
      /\ u[k + 1] = j
  BY <1>4, <1>5
<1>7. \A p, q \in 1..(k + 1) : u[p] = u[q] => p = q
  <2> SUFFICES ASSUME NEW p \in 1..(k + 1), NEW q \in 1..(k + 1), u[p] = u[q]
               PROVE  p = q
    OBVIOUS
  <2>1. CASE p \in 1..k /\ q \in 1..k
    BY <2>1, <1>6, <1>1 DEF Path
  <2>2. CASE p = k + 1 /\ q \in 1..k
    BY <2>2, <1>5, <1>6
  <2>3. CASE p \in 1..k /\ q = k + 1
    BY <2>3, <1>5, <1>6
  <2>. QED
    BY <1>4, <2>1, <2>2, <2>3
<1>8. k + 1 <= n
  <2>1. u \in [1..(k + 1) -> 1..n]
    BY <1>6, LenProperties
  <2>2. Distinct(u, k + 1, n)
    BY <1>7, <2>1 DEF Distinct
  <2>. QED
    BY <1>1, <1>4, <2>2, PathsAreShort
<1>9. u[1] = start
  BY <1>1, <1>4, <1>6 DEF Path
<1> HIDE DEF u
<1>10. Path(u, n, start)
  BY <1>4, <1>6, <1>7, <1>8, <1>9 DEF Path
<1>11. Path(order', Size', start')
  BY <1>2, <1>3, <1>10 DEF u
<1>. QED
  BY <1>1, <1>3, <1>11 DEF SolverInv, Running

LEMMA SeedEndKeeps ==
    ASSUME SolverInv, SeedEnd
    PROVE  SolverInv'
<1>1. /\ Size \in Nat \ {0} /\ start \in 1..Size
      /\ Path(order, Size, start)
  BY DEF SolverInv, SeedEnd
<1>2. Size' = Size /\ start' = start /\ order' = order /\ pass' = "two_opt"
  BY DEF SeedEnd, Size
<1> DEFINE k == Len(order)
<1>3. k \in Nat /\ order \in [1..k -> 1..Size] /\ DOMAIN order = 1..k
  BY <1>1, LenProperties DEF Path
<1>4. \A j \in 1..Size : \E p \in 1..k : order[p] = j
  BY <1>3 DEF SeedEnd, Unvisited
<1>5. k = Size
  <2>1. Distinct(order, k, Size) /\ Onto(order, k, Size)
    BY <1>1, <1>3, <1>4 DEF Path, Distinct, Onto
  <2>. QED
    BY <1>1, <1>3, <2>1, PathsAreShort
<1>6. Tour(order, Size, start)
  BY <1>1, <1>4, <1>5 DEF Tour
<1>. QED
  BY <1>1, <1>2, <1>6 DEF SolverInv, Running

LEMMA TwoOptMoveKeeps ==
    ASSUME SolverInv, TwoOptMove
    PROVE  SolverInv'
<1>1. Size \in Nat \ {0} /\ start \in 1..Size /\ Tour(order, Size, start) /\ pass = "two_opt"
  BY DEF SolverInv, TwoOptMove
<1>2. PICK m \in Swaps : order' = ReverseSegment(order, m[1], m[2])
  BY DEF TwoOptMove
<1>3. m[1] \in 2..Size /\ m[2] \in 2..Size /\ m[1] < m[2]
  BY <1>2 DEF Swaps
<1>4. Tour(order', Size, start)
  BY <1>1, <1>2, <1>3, ReverseKeepsTour
<1>5. Size' = Size /\ start' = start /\ pass' = pass
  BY DEF TwoOptMove, Size
<1>. QED
  BY <1>1, <1>4, <1>5 DEF SolverInv, Running

LEMMA OrOptMoveKeeps ==
    ASSUME SolverInv, OrOptMove
    PROVE  SolverInv'
<1>1. Size \in Nat \ {0} /\ start \in 1..Size /\ Tour(order, Size, start) /\ pass = "or_opt"
  BY DEF SolverInv, OrOptMove
<1>2. PICK m \in ChainMoves : order' = MoveChain(order, m[1], m[2], m[3])
  BY DEF OrOptMove
<1>3. /\ m[1] \in 1..3 /\ m[2] \in 2..Size /\ m[3] \in 2..(Size + 1)
      /\ m[2] + m[1] <= Size + 1
      /\ m[3] \notin m[2]..(m[2] + m[1])
  BY <1>2 DEF ChainMoves
<1>4. Tour(order', Size, start)
  BY <1>1, <1>2, <1>3, MoveKeepsTour
<1>5. Size' = Size /\ start' = start /\ pass' = pass
  BY DEF OrOptMove, Size
<1>. QED
  BY <1>1, <1>4, <1>5 DEF SolverInv, Running

LEMMA PassEndKeeps ==
    ASSUME SolverInv, TwoOptEnd \/ OrOptEnd
    PROVE  SolverInv'
<1>1. Size \in Nat \ {0} /\ start \in 1..Size /\ Tour(order, Size, start)
  BY DEF SolverInv, TwoOptEnd, OrOptEnd
<1>2. Size' = Size /\ start' = start /\ order' = order
  BY DEF TwoOptEnd, OrOptEnd, Size
<1>3. pass' \in {"two_opt", "or_opt", "done"}
  BY DEF TwoOptEnd, OrOptEnd, EndRound
<1>. QED
  BY <1>1, <1>2, <1>3 DEF SolverInv, Running

LEMMA Induction ==
    ASSUME SolverInv, [SolverNext]_solverVars
    PROVE  SolverInv'
<1>1. CASE UNCHANGED solverVars
  BY <1>1 DEF SolverInv, solverVars, Size
<1>2. CASE \E m \in Matrices : \E s \in 1..Len(m) : Call(m, s)
  BY <1>2, CallKeeps
<1>3. CASE SolverStep
  BY <1>3, SeedKeeps, SeedEndKeeps, TwoOptMoveKeeps, OrOptMoveKeeps, PassEndKeeps
     DEF SolverStep
<1>4. CASE Collect \/ Abort
  BY <1>4 DEF Collect, Abort, SolverInv, Running
<1>. QED
  BY <1>1, <1>2, <1>3, <1>4 DEF SolverNext

\* For every matrix, start, number of iterations and rounds, and however many
\* calls are aborted: solveTwoOpt answers with every index exactly once, the
\* pinned start first.
THEOREM SolverKeepsTours == SolverSpec => []IsTour
<1>1. SolverInit => SolverInv
  BY DEF SolverInit, SolverInv, Running
<1>2. SolverInv /\ [SolverNext]_solverVars => SolverInv'
  BY Induction
<1>3. SolverInv => IsTour
  BY DEF SolverInv, IsTour, Tour, Path
<1>. QED
  BY <1>1, <1>2, <1>3, PTL DEF SolverSpec

----------------------------------------------------------------------------
(***************************************************************************)
(* Where the solver stops.  A round that applied no move has looked at     *)
(* every move of both neighbourhoods for one and the same tour.            *)
(***************************************************************************)

SwapsAreDone  == \A m \in Swaps : SwapGain(m) >= 0
ChainsAreDone == \A m \in ChainMoves : ChainGain(m) >= 0

RoundInv ==
    /\ pass # "idle" => matrix \in [1..Size -> [1..Size -> Nat]]
    /\ pass \in {"seed", "two_opt", "or_opt"} /\ ~improved => iterations = 0
    /\ pass = "or_opt" /\ ~improved => SwapsAreDone
    /\ LocalOptimum

\* Sums and differences of distances are integers.
LEMMA LengthsAreTyped ==
    /\ \A a, b \in Nat : Plus(a, b) \in Nat
    /\ \A a, b \in Nat : Delta(a, b) \in Int
BY InfinityAssumption DEF Plus, Delta

\* The places of a tour, and the distances between what is there.
LEMMA PlacesAreTyped ==
    ASSUME Size \in Nat \ {0}, Tour(order, Size, start),
           matrix \in [1..Size -> [1..Size -> Nat]]
    PROVE  /\ \A p \in 1..Size : order[p] \in 1..Size /\ After(p) \in 1..Size
           /\ \A i, j \in 1..Size : D2(i, j) \in Nat
<1>1. order \in [1..Size -> 1..Size]
  BY LenProperties DEF Tour, Path
<1>2. \A i, j \in 1..Size : D2(i, j) \in Nat
  <2>1. \A i, j \in 1..Size : matrix[i][j] \in Nat
    OBVIOUS
  <2>. QED
    BY <2>1 DEF D2
<1>3. \A p \in 1..Size : After(p) \in 1..Size
  BY DEF After
<1>. QED
  BY <1>1, <1>2, <1>3

LEMMA GainsAreTyped ==
    ASSUME Size \in Nat \ {0}, Tour(order, Size, start),
           matrix \in [1..Size -> [1..Size -> Nat]]
    PROVE  /\ \A m \in Swaps : SwapGain(m) \in Int
           /\ \A m \in ChainMoves : ChainGain(m) \in Int
<1>1. ASSUME NEW m \in Swaps PROVE SwapGain(m) \in Int
  <2> DEFINE i == m[1]
             k == m[2]
  <2>1. i \in 2..Size /\ k \in 2..Size
    BY DEF Swaps
  <2> HIDE DEF i, k
  <2>2. i - 1 \in 1..Size /\ i \in 1..Size /\ k \in 1..Size
    BY <2>1
  <2> DEFINE a == order[i - 1]
             b == order[i]
             c == order[k]
             d == order[After(k)]
             removed == Plus(D2(a, b), D2(c, d))
             added == Plus(D2(a, c), D2(b, d))
  <2>3. a \in 1..Size /\ b \in 1..Size /\ c \in 1..Size /\ d \in 1..Size
    BY <2>2, PlacesAreTyped
  <2>4. SwapGain(m) = Delta(removed, added)
    BY DEF SwapGain, i, k
  <2> HIDE DEF a, b, c, d
  <2>5. D2(a, b) \in Nat /\ D2(c, d) \in Nat /\ D2(a, c) \in Nat /\ D2(b, d) \in Nat
    BY <2>3, PlacesAreTyped
  <2>6. removed \in Nat /\ added \in Nat
    BY <2>5, LengthsAreTyped
  <2>. QED
    BY <2>4, <2>6, LengthsAreTyped
<1>2. ASSUME NEW m \in ChainMoves PROVE ChainGain(m) \in Int
  <2> DEFINE L == m[1]
             i == m[2]
             j == m[3]
  <2>1. L \in 1..3 /\ i \in 2..Size /\ j \in 2..(Size + 1) /\ i + L <= Size + 1
    BY DEF ChainMoves
  <2> HIDE DEF L, i, j
  <2>2. i - 1 \in 1..Size /\ i \in 1..Size /\ i + L - 1 \in 1..Size /\ j - 1 \in 1..Size
    BY <2>1
  <2> DEFINE pred == order[i - 1]
             head == order[i]
             tail == order[i + L - 1]
             succ == order[After(i + L - 1)]
             before == order[j - 1]
             after == order[After(j - 1)]
             removed == Plus(Plus(D2(pred, head), D2(tail, succ)), D2(before, after))
             added == Plus(D2(pred, succ), Plus(D2(before, head), D2(tail, after)))
  <2>3. /\ pred \in 1..Size /\ head \in 1..Size /\ tail \in 1..Size
        /\ succ \in 1..Size /\ before \in 1..Size /\ after \in 1..Size
    BY <2>2, PlacesAreTyped
  <2>4. ChainGain(m) = Delta(removed, added)
    BY DEF ChainGain, L, i, j
  <2> HIDE DEF pred, head, tail, succ, before, after
  <2>5. /\ D2(pred, head) \in Nat /\ D2(tail, succ) \in Nat /\ D2(before, after) \in Nat
        /\ D2(pred, succ) \in Nat /\ D2(before, head) \in Nat /\ D2(tail, after) \in Nat
    BY <2>3, PlacesAreTyped
  <2>6. removed \in Nat /\ added \in Nat
    BY <2>5, LengthsAreTyped
  <2>. QED
    BY <2>4, <2>6, LengthsAreTyped
<1>. QED
  BY <1>1, <1>2

\* A pass that has made no move ends because there is none.
LEMMA PassesAreThorough ==
    ASSUME SolverInv, RoundInv, ~improved
    PROVE  /\ TwoOptEnd => SwapsAreDone
           /\ OrOptEnd => ChainsAreDone
<1>1. 0 < MaxIterations
  BY TwoOptAssumption
<1>2. ASSUME TwoOptEnd PROVE SwapsAreDone
  <2>1. pass = "two_opt" /\ ~CanMove(Swaps, SwapGain)
    BY <1>2 DEF TwoOptEnd
  <2>2. \A m \in Swaps : SwapGain(m) \in Int
    BY <2>1, GainsAreTyped DEF SolverInv, RoundInv
  <2>3. iterations = 0
    BY <2>1 DEF RoundInv
  <2>4. \A m \in Swaps : ~(SwapGain(m) < 0)
    BY <1>1, <2>1, <2>3 DEF CanMove
  <2>. QED
    BY <2>2, <2>4 DEF SwapsAreDone
<1>3. ASSUME OrOptEnd PROVE ChainsAreDone
  <2>1. pass = "or_opt" /\ ~CanMove(ChainMoves, ChainGain)
    BY <1>3 DEF OrOptEnd
  <2>2. \A m \in ChainMoves : ChainGain(m) \in Int
    BY <2>1, GainsAreTyped DEF SolverInv, RoundInv
  <2>3. iterations = 0
    BY <2>1 DEF RoundInv
  <2>4. \A m \in ChainMoves : ~(ChainGain(m) < 0)
    BY <1>1, <2>1, <2>3 DEF CanMove
  <2>. QED
    BY <2>2, <2>4 DEF ChainsAreDone
<1>. QED
  BY <1>2, <1>3

\* The same tour over the same matrix offers the same moves.
LEMMA MovesStay ==
    ASSUME UNCHANGED <<matrix, order>>
    PROVE  /\ SwapsAreDone => SwapsAreDone'
           /\ ChainsAreDone => ChainsAreDone'
<1>1. Size' = Size
  BY DEF Size
<1>2. Swaps' = Swaps /\ ChainMoves' = ChainMoves
  BY <1>1 DEF Swaps, ChainMoves
<1>3. \A m \in Swaps : SwapGain(m)' = SwapGain(m)
  BY <1>1 DEF SwapGain, D2, After
<1>4. \A m \in ChainMoves : ChainGain(m)' = ChainGain(m)
  BY <1>1 DEF ChainGain, D2, After
<1>. QED
  BY <1>2, <1>3, <1>4 DEF SwapsAreDone, ChainsAreDone

LEMMA RoundEndKeeps ==
    ASSUME SolverInv, RoundInv, TwoOptEnd \/ OrOptEnd
    PROVE  RoundInv'
<1>1. UNCHANGED <<matrix, order>> /\ Size' = Size /\ pass \in {"two_opt", "or_opt"}
  BY DEF TwoOptEnd, OrOptEnd, Size
<1>2. matrix' \in [1..Size' -> [1..Size' -> Nat]]
  BY <1>1 DEF RoundInv
<1>3. CASE EndRound
  <2>1. iterations' = 0
    BY <1>3 DEF EndRound
  <2>2. pass' \in {"two_opt", "done"}
    BY <1>3 DEF EndRound
  <2>3. ASSUME pass' = "done", rounds' < MaxRounds
        PROVE  SwapsAreDone' /\ (Size' >= 4 => ChainsAreDone')
    <3>1. ~improved
      BY <1>3, <2>3 DEF EndRound
    <3>2. CASE TwoOptEnd /\ ~(Size >= 4)
      BY <1>1, <3>1, <3>2, PassesAreThorough, MovesStay
    <3>3. CASE OrOptEnd
      <4>1. SwapsAreDone /\ ChainsAreDone
        BY <3>1, <3>3, PassesAreThorough DEF OrOptEnd, RoundInv
      <4>. QED
        BY <1>1, <4>1, MovesStay
    <3>4. TwoOptEnd /\ Size >= 4 => pass' = "or_opt"
      BY DEF TwoOptEnd
    <3>. QED
      BY <2>3, <3>2, <3>3, <3>4
  <2>4. LocalOptimum'
    BY <2>3 DEF LocalOptimum, SwapsAreDone, ChainsAreDone
  <2>. QED
    BY <1>2, <2>1, <2>2, <2>4 DEF RoundInv
<1>4. CASE ~EndRound
  <2>1. /\ TwoOptEnd /\ pass' = "or_opt" /\ iterations' = 0 /\ improved' = improved
    BY <1>4 DEF TwoOptEnd, OrOptEnd
  <2>2. ~improved' => SwapsAreDone'
    BY <1>1, <2>1, PassesAreThorough, MovesStay
  <2>. QED
    BY <1>2, <2>1, <2>2 DEF RoundInv, LocalOptimum
<1>. QED
  BY <1>3, <1>4

LEMMA RoundInduction ==
    ASSUME SolverInv, RoundInv, [SolverNext]_solverVars
    PROVE  RoundInv'
<1>1. CASE UNCHANGED solverVars
  <2>1. UNCHANGED <<matrix, order>> /\ Size' = Size
    BY <1>1 DEF solverVars, Size
  <2>2. pass = "done" /\ rounds < MaxRounds => SwapsAreDone /\ (Size >= 4 => ChainsAreDone)
    BY DEF RoundInv, LocalOptimum, SwapsAreDone, ChainsAreDone
  <2>3. LocalOptimum'
    BY <1>1, <2>1, <2>2, MovesStay DEF LocalOptimum, SwapsAreDone, ChainsAreDone, solverVars
  <2>. QED
    BY <1>1, <2>1, <2>3, MovesStay DEF RoundInv, solverVars
<1>2. CASE \E m \in Matrices : \E s \in 1..Len(m) : Call(m, s)
  <2>1. PICK m \in Matrices : \E s \in 1..Len(m) : Call(m, s)
    BY <1>2
  <2>2. PICK n \in Nat \ {0} : m \in [1..n -> [1..n -> Nat]]
    BY DEF Matrices
  <2>3. Len(m) = n
    BY <2>2, LenOfFunction
  <2>4. matrix' = m /\ pass' = "seed" /\ iterations' = 0 /\ Size' = n
    BY <2>1, <2>3 DEF Call, Size
  <2>. QED
    BY <2>2, <2>4 DEF RoundInv, LocalOptimum
<1>3. CASE SeedStep \/ SeedEnd
  <2>1. /\ pass = "seed" /\ pass' \in {"seed", "two_opt"}
        /\ UNCHANGED <<matrix, improved, iterations>> /\ Size' = Size
    BY <1>3 DEF SeedStep, SeedEnd, Size
  <2>. QED
    BY <2>1 DEF RoundInv, LocalOptimum
<1>4. CASE TwoOptMove \/ OrOptMove
  <2>1. /\ pass \in {"two_opt", "or_opt"} /\ improved' = TRUE
        /\ UNCHANGED <<matrix, pass>> /\ Size' = Size
    BY <1>4 DEF TwoOptMove, OrOptMove, Size
  <2>. QED
    BY <2>1 DEF RoundInv, LocalOptimum
<1>5. CASE TwoOptEnd \/ OrOptEnd
  BY <1>5, RoundEndKeeps
<1>6. CASE Collect \/ Abort
  BY <1>6 DEF Collect, Abort, RoundInv, LocalOptimum
<1>. QED
  BY <1>1, <1>2, <1>3, <1>4, <1>5, <1>6 DEF SolverNext, SolverStep

\* When solveTwoOpt returns before its last round, no reversal and no move of
\* a chain shortens the tour: what Or-opt did, 2-opt has seen.
THEOREM SolverEndsInOptimum == SolverSpec => []LocalOptimum
<1>1. SolverInit => SolverInv /\ RoundInv
  BY DEF SolverInit, SolverInv, RoundInv, LocalOptimum, Running
<1>2. SolverInv /\ [SolverNext]_solverVars => SolverInv'
  BY Induction
<1>3. SolverInv /\ RoundInv /\ [SolverNext]_solverVars => RoundInv'
  BY RoundInduction
<1>4. RoundInv => LocalOptimum
  BY DEF RoundInv
<1>. QED
  BY <1>1, <1>2, <1>3, <1>4, PTL DEF SolverSpec

----------------------------------------------------------------------------
(***************************************************************************)
(* Induction.  The theorems of the library take a predicate; here the      *)
(* numbers a claim holds for are a set.                                    *)
(***************************************************************************)

\* A set of natural numbers that is not empty has a least element.
LEMMA LeastNatural ==
    ASSUME NEW T, T \subseteq Nat, T # {}
    PROVE  \E x \in T : \A y \in T : x <= y
<1> DEFINE R == {ss \in Nat \X Nat : ss[1] < ss[2]}
<1>1. IsWellFoundedOn(R, Nat)
  BY NatLessThanWellFounded DEF OpToRel
<1>2. PICK x \in T : \A y \in T : ~(<<y, x>> \in R)
  <2> HIDE DEF R
  <2> QED BY <1>1, WFMin
<1>3. ASSUME NEW y \in T PROVE x <= y
  <2>1. ~(<<y, x>> \in R)
    BY <1>2
  <2>2. x \in Nat /\ y \in Nat
    OBVIOUS
  <2> QED BY <2>1, <2>2
<1> QED BY <1>3

\* What holds of 0 and of the successor of each number holds of all.
LEMMA AllNaturals ==
    ASSUME NEW T, 0 \in T, \A n \in Nat : n \in T => n + 1 \in T
    PROVE  \A n \in Nat : n \in T
<1>1. SUFFICES ASSUME NEW n \in Nat, n \notin T PROVE FALSE
  OBVIOUS
<1>2. PICK x \in (Nat \ T) : \A y \in (Nat \ T) : x <= y
  <2>1. (Nat \ T) \subseteq Nat /\ (Nat \ T) # {}
    BY <1>1
  <2> QED BY <2>1, LeastNatural
<1>3. x # 0 /\ x - 1 \in Nat
  OBVIOUS
<1>4. x - 1 \in T
  BY <1>2, <1>3
<1>5. x \in T
  BY <1>3, <1>4
<1> QED BY <1>2, <1>5

\* The same below a bound.
LEMMA AllUpTo ==
    ASSUME NEW n \in Nat, NEW T, 0 \in T,
           \A k \in 0..(n - 1) : k \in T => k + 1 \in T
    PROVE  \A k \in 0..n : k \in T
<1> DEFINE U == {k \in Nat : k <= n => k \in T}
<1>1. 0 \in U
  OBVIOUS
<1>2. ASSUME NEW k \in Nat, k \in U PROVE k + 1 \in U
  <2>1. CASE k + 1 <= n
    <3>1. k \in 0..(n - 1) /\ k \in T
      BY <1>2, <2>1
    <3> QED BY <3>1
  <2> QED BY <2>1
<1>3. \A k \in Nat : k \in U
  <2> HIDE DEF U
  <2> QED BY <1>1, <1>2, AllNaturals
<1> QED BY <1>3

\* g takes the values of a recursion over 0..n.
Runs(g, n, V, base, step) ==
    /\ g \in [0..n -> V]
    /\ g[0] = base
    /\ \A k \in 1..n : g[k] = step[<<k, g[k - 1]>>]

\* A recursion over 0..n has a solution.
LEMMA RecursionExists ==
    ASSUME NEW n \in Nat, NEW V, NEW base \in V, NEW step \in [(1..n) \X V -> V]
    PROVE  \E g : Runs(g, n, V, base, step)
<1> DEFINE Solves(g, m) == g[0] = base /\ \A k \in 1..m : g[k] = step[<<k, g[k - 1]>>]
           T == {m \in Nat : m <= n => \E g \in [0..m -> V] : Solves(g, m)}
<1>1. 0 \in T
  <2>1. Solves([k \in 0..0 |-> base], 0) /\ [k \in 0..0 |-> base] \in [0..0 -> V]
    OBVIOUS
  <2> QED BY <2>1
<1>2. ASSUME NEW m \in Nat, m \in T PROVE m + 1 \in T
  <2>1. SUFFICES ASSUME m + 1 <= n PROVE \E g \in [0..(m + 1) -> V] : Solves(g, m + 1)
    OBVIOUS
  <2>2. PICK g \in [0..m -> V] : Solves(g, m)
    BY <1>2, <2>1
  <2> DEFINE h == [k \in 0..(m + 1) |-> IF k <= m THEN g[k] ELSE step[<<m + 1, g[m]>>]]
  <2>3. h \in [0..(m + 1) -> V]
    <3>1. <<m + 1, g[m]>> \in (1..n) \X V
      BY <2>1
    <3>2. step[<<m + 1, g[m]>>] \in V
      BY <3>1
    <3> QED BY <3>2
  <2>4. h[0] = base
    BY <2>2
  <2>5. ASSUME NEW k \in 1..(m + 1) PROVE h[k] = step[<<k, h[k - 1]>>]
    <3>1. CASE k = m + 1
      <4>1. h[m + 1] = step[<<m + 1, g[m]>>] /\ h[m] = g[m]
        OBVIOUS
      <4>2. k - 1 = m
        BY <3>1
      <4> HIDE DEF h
      <4> QED BY <4>1, <4>2, <3>1
    <3>2. CASE k \in 1..m
      <4>1. h[k] = g[k] /\ h[k - 1] = g[k - 1]
        BY <3>2
      <4> QED BY <4>1, <2>2, <3>2
    <3> QED BY <3>1, <3>2
  <2> HIDE DEF h
  <2> QED BY <2>3, <2>4, <2>5
<1>3. n \in T
  <2> HIDE DEF T
  <2> QED BY <1>1, <1>2, AllNaturals
<1> QED BY <1>3 DEF Runs

----------------------------------------------------------------------------
(***************************************************************************)
(* Ranked lists a finite set in the order of a strict total order on it.   *)
(***************************************************************************)

\* R is a strict total order on S.
Orders(R, S) ==
    /\ \A x \in S : <<x, x>> \notin R
    /\ \A x, y \in S : x # y => <<x, y>> \in R \/ <<y, x>> \in R
    /\ \A x, y, z \in S : <<x, y>> \in R /\ <<y, z>> \in R => <<x, z>> \in R

Below(R, S, x) == {y \in S : <<y, x>> \in R}

\* f lists S without repeating itself.
Lists(f, S) ==
    /\ f \in [1..Cardinality(S) -> S]
    /\ \A i, j \in 1..Cardinality(S) : f[i] = f[j] => i = j
    /\ \A x \in S : \E i \in 1..Cardinality(S) : f[i] = x

\* No two elements have the same number of elements below them.
LEMMA RanksDiffer ==
    ASSUME NEW S, IsFiniteSet(S), NEW R, Orders(R, S)
    PROVE  /\ \A x \in S : Cardinality(Below(R, S, x)) \in 0..(Cardinality(S) - 1)
           /\ \A x, y \in S : <<x, y>> \in R
                => Cardinality(Below(R, S, x)) < Cardinality(Below(R, S, y))
<1>1. Cardinality(S) \in Nat
  BY FS_CardinalityType
<1>2. ASSUME NEW x \in S
      PROVE  /\ IsFiniteSet(Below(R, S, x)) /\ Cardinality(Below(R, S, x)) \in Nat
             /\ IsFiniteSet(Below(R, S, x) \cup {x})
             /\ Cardinality(Below(R, S, x) \cup {x}) = Cardinality(Below(R, S, x)) + 1
  <2>1. Below(R, S, x) \in SUBSET S /\ x \notin Below(R, S, x)
    BY DEF Below, Orders
  <2>2. IsFiniteSet(Below(R, S, x))
    BY <2>1, FS_Subset
  <2> QED BY <2>1, <2>2, FS_CardinalityType, FS_AddElement
<1>3. ASSUME NEW x \in S PROVE Cardinality(Below(R, S, x)) \in 0..(Cardinality(S) - 1)
  <2>1. Below(R, S, x) \cup {x} \in SUBSET S
    BY DEF Below
  <2>2. Cardinality(Below(R, S, x) \cup {x}) <= Cardinality(S)
    BY <2>1, FS_Subset
  <2>3. /\ Cardinality(Below(R, S, x)) \in Nat
        /\ Cardinality(Below(R, S, x) \cup {x}) = Cardinality(Below(R, S, x)) + 1
    BY <1>2
  <2> QED BY <1>1, <2>2, <2>3
<1>4. ASSUME NEW x \in S, NEW y \in S, <<x, y>> \in R
      PROVE  Cardinality(Below(R, S, x)) < Cardinality(Below(R, S, y))
  <2>1. (Below(R, S, x) \cup {x}) \in SUBSET Below(R, S, y)
    BY <1>4 DEF Below, Orders
  <2>2. Cardinality(Below(R, S, x) \cup {x}) <= Cardinality(Below(R, S, y))
    BY <2>1, <1>2, FS_Subset
  <2>3. /\ Cardinality(Below(R, S, x)) \in Nat /\ Cardinality(Below(R, S, y)) \in Nat
        /\ Cardinality(Below(R, S, x) \cup {x}) = Cardinality(Below(R, S, x)) + 1
    BY <1>2
  <2> QED BY <2>2, <2>3
<1> QED BY <1>3, <1>4

\* Every rank below the size of the set is taken.
LEMMA RanksFill ==
    ASSUME NEW S, IsFiniteSet(S), NEW R, Orders(R, S)
    PROVE  \A i \in 1..Cardinality(S) :
              \E x \in S : Cardinality(Below(R, S, x)) = i - 1
<1> DEFINE n == Cardinality(S)
           f == [x \in S |-> Cardinality(Below(R, S, x)) + 1]
<1>1. n \in Nat
  BY FS_CardinalityType
<1>2. f \in [S -> 1..n]
  BY <1>1, RanksDiffer
<1>3. \A x, y \in S : f[x] = f[y] => x = y
  <2>1. SUFFICES ASSUME NEW x \in S, NEW y \in S, x # y PROVE f[x] # f[y]
    OBVIOUS
  <2>2. <<x, y>> \in R \/ <<y, x>> \in R
    BY <2>1 DEF Orders
  <2>3. /\ Cardinality(Below(R, S, x)) \in Int /\ Cardinality(Below(R, S, y)) \in Int
        /\ \/ Cardinality(Below(R, S, x)) < Cardinality(Below(R, S, y))
           \/ Cardinality(Below(R, S, y)) < Cardinality(Below(R, S, x))
    BY <2>2, RanksDiffer
  <2> QED BY <2>3
<1>4. IsFiniteSet(1..n) /\ Cardinality(1..n) = n
  BY <1>1, FS_Interval
<1>5. f \in Injection(S, 1..n)
  BY <1>2, <1>3, Fun_IsInj
<1>6. f \in Surjection(S, 1..n)
  <2> HIDE DEF f
  <2> QED BY <1>4, <1>5, FS_Injection
<1>7. \A i \in 1..n : \E x \in S : f[x] = i
  <2> HIDE DEF f
  <2> QED BY <1>6, Fun_SurjectionProperties
<1>8. ASSUME NEW i \in 1..n PROVE \E x \in S : Cardinality(Below(R, S, x)) = i - 1
  <2>1. PICK x \in S : f[x] = i
    BY <1>7
  <2>2. Cardinality(Below(R, S, x)) + 1 = i /\ Cardinality(Below(R, S, x)) \in Int
    BY <2>1, RanksDiffer
  <2> QED BY <2>2
<1> QED BY <1>8

\* The list has each element once, in the order given.
LEMMA RankedLists ==
    ASSUME NEW S, IsFiniteSet(S), NEW R, Orders(R, S), NEW f \in [1..Cardinality(S) -> S],
           \A i \in 1..Cardinality(S) : Cardinality(Below(R, S, f[i])) = i - 1
    PROVE  /\ Lists(f, S)
           /\ \A i, j \in 1..Cardinality(S) : i < j => <<f[i], f[j]>> \in R
<1> DEFINE n == Cardinality(S)
<1>1. n \in Nat
  BY FS_CardinalityType
<1>2. ASSUME NEW i \in 1..n
      PROVE  f[i] \in S /\ Cardinality(Below(R, S, f[i])) = i - 1
  OBVIOUS
<1>3. f \in [1..n -> S]
  BY <1>2
<1>4. \A i, j \in 1..n : f[i] = f[j] => i = j
  <2>1. ASSUME NEW i \in 1..n, NEW j \in 1..n, f[i] = f[j] PROVE i = j
    <3>1. i - 1 = j - 1
      BY <1>2, <2>1
    <3> QED BY <3>1
  <2> QED BY <2>1
<1>5. ASSUME NEW x \in S PROVE \E i \in 1..n : f[i] = x
  <2> DEFINE i == Cardinality(Below(R, S, x)) + 1
  <2>1. i \in 1..n /\ i - 1 = Cardinality(Below(R, S, x))
    BY <1>1, RanksDiffer
  <2>2. f[i] \in S /\ Cardinality(Below(R, S, f[i])) = Cardinality(Below(R, S, x))
    BY <1>2, <2>1
  <2>3. f[i] = x
    <3>1. SUFFICES ASSUME f[i] # x PROVE FALSE
      OBVIOUS
    <3>2. <<f[i], x>> \in R \/ <<x, f[i]>> \in R
      BY <2>2, <3>1 DEF Orders
    <3>3. Cardinality(Below(R, S, x)) \in Int
      BY RanksDiffer
    <3>4. CASE <<f[i], x>> \in R
      <4>1. Cardinality(Below(R, S, f[i])) < Cardinality(Below(R, S, x))
        BY <3>4, <2>2, RanksDiffer
      <4> QED BY <4>1, <2>2, <3>3
    <3>5. CASE <<x, f[i]>> \in R
      <4>1. Cardinality(Below(R, S, x)) < Cardinality(Below(R, S, f[i]))
        BY <3>5, <2>2, RanksDiffer
      <4> QED BY <4>1, <2>2, <3>3
    <3> QED BY <3>2, <3>4, <3>5
  <2> QED BY <2>1, <2>3
<1>6. ASSUME NEW i \in 1..n, NEW j \in 1..n, i < j PROVE <<f[i], f[j]>> \in R
  <2>1. f[i] # f[j]
    BY <1>4, <1>6
  <2>2. <<f[i], f[j]>> \in R \/ <<f[j], f[i]>> \in R
    BY <1>2, <2>1 DEF Orders
  <2>3. ~(<<f[j], f[i]>> \in R)
    <3>1. SUFFICES ASSUME <<f[j], f[i]>> \in R PROVE FALSE
      OBVIOUS
    <3>2. Cardinality(Below(R, S, f[j])) < Cardinality(Below(R, S, f[i]))
      BY <1>2, <3>1, RanksDiffer
    <3>3. j - 1 < i - 1
      BY <1>2, <3>2
    <3> QED BY <3>3, <1>6
  <2> QED BY <2>2, <2>3
<1> QED BY <1>3, <1>4, <1>5, <1>6 DEF Lists

\* Sorted lists a finite set of numbers in ascending order.
LEMMA SortedLists ==
    ASSUME NEW S, IsFiniteSet(S), S \subseteq Nat
    PROVE  /\ Lists(Sorted(S), S)
           /\ \A i, j \in 1..Cardinality(S) : i < j => Sorted(S)[i] < Sorted(S)[j]
<1> DEFINE R == {p \in S \X S : p[1] < p[2]}
<1>1. Orders(R, S)
  BY DEF Orders
<1>2. \A x \in S : Below(R, S, x) = {y \in S : y < x}
  BY DEF Below
<1>3. ASSUME NEW i \in 1..Cardinality(S)
      PROVE  Sorted(S)[i] \in S /\ Cardinality(Below(R, S, Sorted(S)[i])) = i - 1
  <2> HIDE DEF R
  <2>1. \E x \in S : Cardinality({y \in S : y < x}) = i - 1
    <3>1. PICK x \in S : Cardinality(Below(R, S, x)) = i - 1
      BY <1>1, RanksFill
    <3>2. Below(R, S, x) = {y \in S : y < x}
      BY <1>2
    <3> QED BY <3>1, <3>2
  <2>2. Sorted(S)[i] = CHOOSE x \in S : Cardinality({y \in S : y < x}) = i - 1
    BY DEF Sorted, Ranked
  <2> QED BY <1>2, <2>1, <2>2
<1>4. /\ Lists(Sorted(S), S)
      /\ \A i, j \in 1..Cardinality(S) : i < j => <<Sorted(S)[i], Sorted(S)[j]>> \in R
  <2>1. Sorted(S) \in [1..Cardinality(S) -> S]
    BY <1>3 DEF Sorted, Ranked
  <2> HIDE DEF R
  <2> QED BY <1>1, <1>3, <2>1, RankedLists
<1> QED BY <1>4

----------------------------------------------------------------------------
(***************************************************************************)
(* The walk-connected components: Component, which takes as many rounds as *)
(* there are caches, reaches all there is to reach, and two components     *)
(* that share a cache are one.                                             *)
(***************************************************************************)

Links(w, cap, S, near) == {b \in S : \E a \in near : Linked(w, cap, a, b)}

IsClosed(w, cap, S, near) == Links(w, cap, S, near) \subseteq near

\* The rounds of the search.
Reaches(reach, w, cap, S, from) ==
    /\ reach \in [0..Cardinality(S) -> SUBSET S]
    /\ reach[0] = from
    /\ \A n \in 1..Cardinality(S) :
          reach[n] = reach[n - 1] \cup Links(w, cap, S, reach[n - 1])

LEMMA ComponentUnfolds ==
    ASSUME NEW S, IsFiniteSet(S), NEW from \in SUBSET S, NEW w, NEW cap
    PROVE  \E reach : /\ Reaches(reach, w, cap, S, from)
                      /\ Component(w, cap, S, from) = reach[Cardinality(S)]
<1> DEFINE N == Cardinality(S)
           step == [x \in (1..N) \X SUBSET S |-> x[2] \cup Links(w, cap, S, x[2])]
           P(f) == f = [n \in 0..N |->
                    IF n = 0 THEN from
                    ELSE f[n - 1] \cup {b \in S : \E a \in f[n - 1] : Linked(w, cap, a, b)}]
<1>1. N \in Nat
  BY FS_CardinalityType
<1>2. step \in [(1..N) \X SUBSET S -> SUBSET S]
  BY DEF Links
<1>3. PICK g : Runs(g, N, SUBSET S, from, step)
  <2> HIDE DEF step, N
  <2>1. from \in SUBSET S
    OBVIOUS
  <2> QED BY <1>1, <1>2, <2>1, RecursionExists
<1>4. \A n \in 1..N : g[n] = g[n - 1] \cup Links(w, cap, S, g[n - 1])
  <2>1. ASSUME NEW n \in 1..N PROVE g[n] = g[n - 1] \cup Links(w, cap, S, g[n - 1])
    <3>1. <<n, g[n - 1]>> \in (1..N) \X SUBSET S
      BY <1>1, <1>3 DEF Runs
    <3> QED BY <1>3, <3>1 DEF Runs
  <2> QED BY <2>1
<1>5. P(g)
  BY <1>1, <1>3, <1>4 DEF Links, Runs
<1>6. P(CHOOSE f : P(f))
  <2> HIDE DEF P
  <2> QED BY <1>5
<1> DEFINE r == CHOOSE f : P(f)
<1>7. Component(w, cap, S, from) = r[N]
  BY DEF Component
<1>8. r = [n \in 0..N |-> IF n = 0 THEN from ELSE r[n - 1] \cup Links(w, cap, S, r[n - 1])]
  BY <1>6 DEF Links
<1> HIDE DEF r
<1>9. r[0] = from /\ \A n \in 1..N : r[n] = r[n - 1] \cup Links(w, cap, S, r[n - 1])
  <2> HIDE DEF N
  <2>1. 0 \in 0..N /\ \A n \in 1..N : n \in 0..N /\ n # 0
    BY <1>1
  <2> QED BY <1>8, <2>1
<1>10. \A n \in 0..N : r[n] \in SUBSET S
  <2> DEFINE T == {n \in 0..N : r[n] \in SUBSET S}
  <2>1. 0 \in T
    BY <1>1, <1>9
  <2>2. ASSUME NEW n \in 0..(N - 1), n \in T PROVE n + 1 \in T
    <3>1. n + 1 \in 1..N /\ (n + 1) - 1 = n
      BY <1>1
    <3>2. r[n + 1] = r[n] \cup Links(w, cap, S, r[n])
      BY <1>9, <3>1
    <3> QED BY <2>2, <3>1, <3>2 DEF Links
  <2>3. \A n \in 0..N : n \in T
    <3> HIDE DEF T
    <3> QED BY <1>1, <2>1, <2>2, AllUpTo
  <2> QED BY <2>3
<1>11. r \in [0..N -> SUBSET S]
  BY <1>8, <1>10
<1> QED BY <1>7, <1>9, <1>11 DEF Reaches

\* It is the least set that contains the start and all it is linked to.
LEMMA ComponentIsLeastClosed ==
    ASSUME NEW S, IsFiniteSet(S), NEW from \in SUBSET S, from # {}, NEW w, NEW cap
    PROVE  LET C == Component(w, cap, S, from)
           IN  /\ C \in SUBSET S
               /\ from \subseteq C
               /\ IsClosed(w, cap, S, C)
               /\ \A U \in SUBSET S :
                    from \subseteq U /\ IsClosed(w, cap, S, U) => C \subseteq U
<1> DEFINE N == Cardinality(S)
<1>0. PICK reach : Reaches(reach, w, cap, S, from) /\ Component(w, cap, S, from) = reach[N]
  BY ComponentUnfolds
<1>1. /\ reach \in [0..N -> SUBSET S]
      /\ reach[0] = from
      /\ \A n \in 1..N : reach[n] = reach[n - 1] \cup Links(w, cap, S, reach[n - 1])
      /\ Component(w, cap, S, from) = reach[N]
  BY <1>0 DEF Reaches
<1>2. N \in Nat
  BY FS_CardinalityType
<1>3. \A n \in 0..N : IsFiniteSet(reach[n]) /\ Cardinality(reach[n]) \in Nat
                      /\ Cardinality(reach[n]) <= N
  <2>1. \A n \in 0..N : reach[n] \in SUBSET S
    BY <1>1
  <2> QED BY <2>1, FS_Subset, FS_CardinalityType
<1> DEFINE T == {n \in 0..N : /\ from \subseteq reach[n]
                              /\ \/ IsClosed(w, cap, S, reach[n])
                                 \/ Cardinality(reach[n]) >= n + 1}
<1>4. 0 \in T
  <2>1. Cardinality(from) # 0 /\ Cardinality(from) \in Nat
    BY <1>1, <1>2, <1>3, FS_EmptySet
  <2> QED BY <1>1, <1>2, <2>1
<1>5. ASSUME NEW n \in 0..(N - 1), n \in T PROVE n + 1 \in T
  <2>1. n + 1 \in 1..N /\ (n + 1) - 1 = n /\ n \in 0..N /\ n + 1 \in 0..N
    BY <1>2
  <2>2. reach[n + 1] = reach[n] \cup Links(w, cap, S, reach[n])
    BY <1>1, <2>1
  <2>3. CASE IsClosed(w, cap, S, reach[n])
    <3>1. reach[n + 1] = reach[n]
      BY <2>2, <2>3 DEF IsClosed
    <3> QED BY <1>5, <2>1, <2>3, <3>1
  <2>4. CASE ~IsClosed(w, cap, S, reach[n]) /\ Cardinality(reach[n]) >= n + 1
    <3>1. PICK b \in S : b \notin reach[n] /\ b \in reach[n + 1]
      BY <2>2, <2>4 DEF IsClosed, Links
    <3>2. Cardinality(reach[n] \cup {b}) = Cardinality(reach[n]) + 1
      BY <1>3, <2>1, <3>1, FS_AddElement
    <3>3. Cardinality(reach[n] \cup {b}) <= Cardinality(reach[n + 1])
      <4>1. (reach[n] \cup {b}) \in SUBSET reach[n + 1] /\ IsFiniteSet(reach[n + 1])
        BY <1>3, <2>1, <2>2, <3>1
      <4> QED BY <4>1, FS_Subset
    <3>4. Cardinality(reach[n + 1]) >= (n + 1) + 1
      <4>1. Cardinality(reach[n]) \in Nat /\ Cardinality(reach[n + 1]) \in Nat
        BY <1>3, <2>1
      <4> QED BY <2>1, <2>4, <3>2, <3>3, <4>1
    <3> QED BY <1>5, <2>1, <2>2, <3>4
  <2> QED BY <1>5, <2>3, <2>4
<1>6. N \in T
  <2>1. \A n \in 0..N : n \in T
    <3> HIDE DEF T
    <3> QED BY <1>2, <1>4, <1>5, AllUpTo
  <2> QED BY <1>2, <2>1
<1>7. from \subseteq reach[N] /\ IsClosed(w, cap, S, reach[N])
  <2>1. N \in 0..N /\ Cardinality(reach[N]) <= N /\ Cardinality(reach[N]) \in Nat
    BY <1>2, <1>3
  <2> QED BY <1>6, <2>1
<1>8. ASSUME NEW U \in SUBSET S, from \subseteq U, IsClosed(w, cap, S, U)
      PROVE  reach[N] \subseteq U
  <2> DEFINE W == {n \in 0..N : reach[n] \subseteq U}
  <2>1. 0 \in W
    BY <1>1, <1>2, <1>8
  <2>2. ASSUME NEW n \in 0..(N - 1), n \in W PROVE n + 1 \in W
    <3>1. n + 1 \in 1..N /\ (n + 1) - 1 = n /\ n + 1 \in 0..N
      BY <1>2
    <3>2. reach[n + 1] = reach[n] \cup Links(w, cap, S, reach[n])
      BY <1>1, <3>1
    <3>3. Links(w, cap, S, reach[n]) \subseteq Links(w, cap, S, U)
      BY <2>2 DEF Links
    <3> QED BY <1>8, <2>2, <3>1, <3>2, <3>3 DEF IsClosed
  <2>3. \A n \in 0..N : n \in W
    <3> HIDE DEF W
    <3> QED BY <1>2, <2>1, <2>2, AllUpTo
  <2> QED BY <1>2, <2>3
<1> QED BY <1>1, <1>7, <1>8, <1>2

\* The metres between the members of S.
Measures(w, S) == \A a, b \in S : a # b => w[a][b] \in Nat

LEMMA LinksAreSymmetric ==
    ASSUME NEW S, NEW w, Measures(w, S), NEW cap \in Nat, NEW a \in S, NEW b \in S,
           Linked(w, cap, a, b)
    PROVE  Linked(w, cap, b, a)
BY DEF Measures, Linked, Less

LEMMA ComponentsPart ==
    ASSUME NEW S, IsFiniteSet(S), NEW w, Measures(w, S), NEW cap \in Nat,
           NEW a \in S, NEW b \in S, NEW c,
           c \in Component(w, cap, S, {a}), c \in Component(w, cap, S, {b})
    PROVE  Component(w, cap, S, {a}) = Component(w, cap, S, {b})
<1> DEFINE C(x) == Component(w, cap, S, {x})
<1>1. ASSUME NEW x \in S
      PROVE  /\ C(x) \in SUBSET S /\ x \in C(x) /\ IsClosed(w, cap, S, C(x))
             /\ \A U \in SUBSET S : x \in U /\ IsClosed(w, cap, S, U) => C(x) \subseteq U
  <2>1. {x} \in SUBSET S /\ {x} # {}
    OBVIOUS
  <2>2. LET D == Component(w, cap, S, {x})
        IN  /\ D \in SUBSET S
            /\ {x} \subseteq D
            /\ IsClosed(w, cap, S, D)
            /\ \A U \in SUBSET S :
                 {x} \subseteq U /\ IsClosed(w, cap, S, U) => D \subseteq U
    BY <2>1, ComponentIsLeastClosed
  <2> QED BY <2>2
<1> HIDE DEF C
<1>2. ASSUME NEW x \in S, NEW y \in C(x) PROVE C(x) = C(y)
  <2>1. y \in S
    BY <1>1, <1>2
  <2>2. C(y) \subseteq C(x)
    BY <1>1, <1>2, <2>1
  <2>3. IsClosed(w, cap, S, S \ C(y))
    <3>1. SUFFICES ASSUME NEW d \in S, d \in C(y), NEW e \in S \ C(y), Linked(w, cap, e, d)
                   PROVE  FALSE
      BY DEF IsClosed, Links
    <3>2. Linked(w, cap, d, e)
      BY <3>1, LinksAreSymmetric
    <3>3. e \in Links(w, cap, S, C(y))
      BY <3>1, <3>2 DEF Links
    <3> QED BY <1>1, <2>1, <3>1, <3>3 DEF IsClosed
  <2>4. x \in C(y)
    <3>1. SUFFICES ASSUME x \notin C(y) PROVE FALSE
      OBVIOUS
    <3>2. (S \ C(y)) \in SUBSET S /\ x \in S \ C(y)
      BY <1>2, <3>1
    <3>3. C(x) \subseteq S \ C(y)
      BY <1>1, <1>2, <2>3, <3>2
    <3>4. y \in C(y)
      BY <1>1, <2>1
    <3> QED BY <1>2, <3>3, <3>4
  <2>5. C(x) \subseteq C(y)
    BY <1>1, <1>2, <2>1, <2>4
  <2> QED BY <2>2, <2>5
<1>3. C(a) = C(c) /\ C(b) = C(c)
  BY <1>2 DEF C
<1> QED BY <1>3 DEF C

----------------------------------------------------------------------------
(***************************************************************************)
(* Ways over short links: c visits n places of S, none of them twice, from *)
(* a to b by way of places of V, and s adds up the metres.                 *)
(***************************************************************************)

Follows(n, c, s, w, S, V, a, b, metres) ==
    /\ n \in Nat \ {0}
    /\ c \in [1..n -> S]
    /\ \A i, j \in 1..n : c[i] = c[j] => i = j
    /\ c[1] = a /\ c[n] = b
    /\ \A i \in 2..(n - 1) : c[i] \in V
    /\ s \in [1..n -> Nat]
    /\ s[1] = 0 /\ s[n] = metres
    /\ \A i \in 2..n : /\ w[c[i - 1]][c[i]] <= MaxLink
                       /\ s[i] = s[i - 1] + w[c[i - 1]][c[i]]

Way(w, S, V, a, b, metres) == \E n, c, s : Follows(n, c, s, w, S, V, a, b, metres)

\* Further on, the sum is no less.
LEMMA SumsGrow ==
    ASSUME NEW w, NEW S, Measures(w, S), NEW V, NEW a, NEW b, NEW metres, NEW n, NEW c, NEW s,
           Follows(n, c, s, w, S, V, a, b, metres)
    PROVE  \A i, j \in 1..n : i <= j => s[i] <= s[j]
<1>1. n \in Nat /\ s \in [1..n -> Nat]
  BY DEF Follows
<1>2. ASSUME NEW i \in 1..n PROVE \A j \in 1..n : i <= j => s[i] <= s[j]
  <2> DEFINE T == {m \in 0..(n - i) : s[i] <= s[i + m]}
  <2>1. 0 \in T
    BY <1>1
  <2>2. ASSUME NEW m \in 0..((n - i) - 1), m \in T PROVE m + 1 \in T
    <3>1. i + m + 1 \in 2..n /\ i + m \in 1..n /\ (i + m + 1) - 1 = i + m /\ i + (m + 1) = i + m + 1
      BY <1>1
    <3>2. c[i + m] \in S /\ c[i + m + 1] \in S /\ c[i + m] # c[i + m + 1]
      BY <3>1 DEF Follows
    <3>3. w[c[i + m]][c[i + m + 1]] \in Nat
      BY <3>2 DEF Measures
    <3>4. s[i + m + 1] = s[i + m] + w[c[i + m]][c[i + m + 1]]
      BY <3>1 DEF Follows
    <3>5. s[i + m] \in Nat /\ s[i] \in Nat
      BY <1>1, <3>1
    <3>6. s[i] <= s[i + m]
      BY <2>2
    <3>7. s[i] <= s[i + (m + 1)]
      BY <3>1, <3>3, <3>4, <3>5, <3>6
    <3>8. m + 1 \in 0..(n - i)
      BY <1>1
    <3> QED BY <3>7, <3>8
  <2>3. \A m \in 0..(n - i) : m \in T
    <3>1. n - i \in Nat
      BY <1>1
    <3> HIDE DEF T
    <3> QED BY <2>1, <2>2, <3>1, AllUpTo
  <2>4. ASSUME NEW j \in 1..n, i <= j PROVE s[i] <= s[j]
    <3>1. j - i \in 0..(n - i) /\ i + (j - i) = j
      BY <1>1, <2>4
    <3> QED BY <2>3, <3>1
  <2> QED BY <2>4
<1> QED BY <1>2

\* No way at all, and one link.
LEMMA ShortWays ==
    ASSUME NEW w, NEW S, Measures(w, S), NEW V, NEW a \in S, NEW b \in S
    PROVE  /\ a = b => Way(w, S, V, a, b, 0)
           /\ a # b /\ w[a][b] <= MaxLink => Way(w, S, V, a, b, w[a][b])
<1>1. ASSUME a = b PROVE Way(w, S, V, a, b, 0)
  <2> DEFINE c == [i \in 1..1 |-> a]
             s == [i \in 1..1 |-> 0]
  <2>1. Follows(1, c, s, w, S, V, a, b, 0)
    BY <1>1 DEF Follows
  <2> HIDE DEF c, s
  <2> QED BY <2>1 DEF Way
<1>2. ASSUME a # b, w[a][b] <= MaxLink PROVE Way(w, S, V, a, b, w[a][b])
  <2> DEFINE c == [i \in 1..2 |-> IF i = 1 THEN a ELSE b]
             s == [i \in 1..2 |-> IF i = 1 THEN 0 ELSE w[a][b]]
  <2>1. w[a][b] \in Nat
    BY <1>2 DEF Measures
  <2>2. c \in [1..2 -> S] /\ s \in [1..2 -> Nat]
    BY <2>1
  <2>3. c[1] = a /\ c[2] = b /\ s[1] = 0 /\ s[2] = w[a][b]
    OBVIOUS
  <2> HIDE DEF c, s
  <2>4. \A i, j \in 1..2 : c[i] = c[j] => i = j
    BY <1>2, <2>3
  <2>5. \A i \in 2..2 : w[c[i - 1]][c[i]] <= MaxLink /\ s[i] = s[i - 1] + w[c[i - 1]][c[i]]
    <3>1. ASSUME NEW i \in 2..2
          PROVE  w[c[i - 1]][c[i]] <= MaxLink /\ s[i] = s[i - 1] + w[c[i - 1]][c[i]]
      <4>1. i = 2 /\ i - 1 = 1
        OBVIOUS
      <4> QED BY <4>1, <1>2, <2>1, <2>3
    <3> QED BY <3>1
  <2>6. Follows(2, c, s, w, S, V, a, b, w[a][b])
    BY <2>2, <2>3, <2>4, <2>5 DEF Follows
  <2> QED BY <2>6 DEF Way
<1> QED BY <1>1, <1>2

\* A way is cut in two at any of its places.
LEMMA WaysSplit ==
    ASSUME NEW w, NEW S, Measures(w, S), NEW V, NEW a, NEW b, NEW metres, NEW n, NEW c, NEW s,
           Follows(n, c, s, w, S, V, a, b, metres), NEW i \in 1..n, NEW U,
           \A j \in 2..(n - 1) : j # i => c[j] \in U
    PROVE  Way(w, S, U, a, c[i], s[i]) /\ Way(w, S, U, c[i], b, metres - s[i])
<1>1. /\ n \in Nat \ {0} /\ c \in [1..n -> S] /\ s \in [1..n -> Nat]
      /\ \A k, j \in 1..n : c[k] = c[j] => k = j
      /\ c[1] = a /\ c[n] = b /\ s[1] = 0 /\ s[n] = metres
      /\ \A k \in 2..n : /\ w[c[k - 1]][c[k]] <= MaxLink
                         /\ s[k] = s[k - 1] + w[c[k - 1]][c[k]]
  BY DEF Follows
<1>2. Way(w, S, U, a, c[i], s[i])
  <2> DEFINE d == [k \in 1..i |-> c[k]]
             t == [k \in 1..i |-> s[k]]
  <2>1. i \in Nat \ {0} /\ d \in [1..i -> S] /\ t \in [1..i -> Nat]
    BY <1>1
  <2>2. \A k \in 1..i : d[k] = c[k] /\ t[k] = s[k] /\ k \in 1..n
    BY <1>1
  <2> HIDE DEF d, t
  <2>3. \A k \in 2..i : k \in 1..i /\ k - 1 \in 1..i /\ k \in 2..n
    BY <1>1
  <2>4. \A k \in 2..(i - 1) : k \in 2..(n - 1) /\ k # i /\ k \in 1..i
    BY <1>1
  <2>5. 1 \in 1..i /\ i \in 1..i
    BY <2>1
  <2>6. \A k, j \in 1..i : d[k] = d[j] => k = j
    BY <1>1, <2>2
  <2>7. \A k \in 2..(i - 1) : d[k] \in U
    BY <2>2, <2>4
  <2>8. \A k \in 2..i : w[d[k - 1]][d[k]] <= MaxLink /\ t[k] = t[k - 1] + w[d[k - 1]][d[k]]
    BY <1>1, <2>2, <2>3
  <2>9. Follows(i, d, t, w, S, U, a, c[i], s[i])
    BY <1>1, <2>1, <2>2, <2>5, <2>6, <2>7, <2>8 DEF Follows
  <2> QED BY <2>9 DEF Way
<1>3. Way(w, S, U, c[i], b, metres - s[i])
  <2> DEFINE m == n - i + 1
             d == [k \in 1..m |-> c[i + k - 1]]
             t == [k \in 1..m |-> s[i + k - 1] - s[i]]
  <2>1. m \in Nat \ {0} /\ i + m - 1 = n /\ i + 1 - 1 = i
    BY <1>1
  <2>2. \A k \in 1..m : i + k - 1 \in 1..n /\ i <= i + k - 1
    BY <1>1
  <2>3. \A k \in 1..m : d[k] = c[i + k - 1] /\ t[k] = s[i + k - 1] - s[i]
    OBVIOUS
  <2>4. d \in [1..m -> S]
    BY <1>1, <2>2
  <2>5. t \in [1..m -> Nat]
    <3>1. ASSUME NEW k \in 1..m PROVE s[i + k - 1] - s[i] \in Nat
      <4>1. s[i + k - 1] \in Nat /\ s[i] \in Nat /\ s[i] <= s[i + k - 1]
        BY <1>1, <2>2, SumsGrow
      <4> QED BY <4>1
    <3> QED BY <3>1
  <2>6. 1 \in 1..m /\ m \in 1..m
    BY <2>1
  <2>7. d[1] = c[i] /\ t[1] = 0 /\ d[m] = b /\ t[m] = metres - s[i]
    <3>1. s[i] - s[i] = 0 /\ c[n] = b /\ s[n] = metres
      BY <1>1
    <3>2. d[1] = c[i + 1 - 1] /\ t[1] = s[i + 1 - 1] - s[i]
      BY <2>1
    <3>3. d[m] = c[i + m - 1] /\ t[m] = s[i + m - 1] - s[i]
      BY <2>3, <2>6
    <3> HIDE DEF d, t, m
    <3>4. d[1] = c[i] /\ t[1] = 0
      BY <2>1, <3>1, <3>2
    <3>5. d[m] = b /\ t[m] = metres - s[i]
      BY <2>1, <3>1, <3>3
    <3> QED BY <3>4, <3>5
  <2>8. \A k \in 2..m : /\ k \in 1..m /\ k - 1 \in 1..m /\ i + k - 1 \in 2..n
                        /\ i + (k - 1) - 1 = (i + k - 1) - 1
    BY <1>1
  <2>9. \A k \in 2..(m - 1) : k \in 1..m /\ i + k - 1 \in 2..(n - 1) /\ i + k - 1 # i
    BY <1>1
  <2>10. \A k, j \in 1..m : i + k - 1 = i + j - 1 => k = j
    BY <1>1
  <2> HIDE DEF d, t, m
  <2>11. \A k, j \in 1..m : d[k] = d[j] => k = j
    BY <1>1, <2>2, <2>3, <2>10
  <2>12. \A k \in 2..(m - 1) : d[k] \in U
    BY <2>3, <2>9
  <2>13. ASSUME NEW k \in 2..m
         PROVE  w[d[k - 1]][d[k]] <= MaxLink /\ t[k] = t[k - 1] + w[d[k - 1]][d[k]]
    <3> DEFINE e == i + k - 1
    <3>1. e \in 2..n /\ d[k] = c[e] /\ d[k - 1] = c[e - 1]
          /\ t[k] = s[e] - s[i] /\ t[k - 1] = s[e - 1] - s[i]
      BY <2>3, <2>8
    <3>2. w[c[e - 1]][c[e]] <= MaxLink /\ s[e] = s[e - 1] + w[c[e - 1]][c[e]]
      BY <1>1, <3>1
    <3>3. e \in 1..n /\ e - 1 \in 1..n
      BY <1>1, <3>1
    <3>4. c[e] # c[e - 1] /\ c[e] \in S /\ c[e - 1] \in S
      <4>1. e # e - 1
        BY <3>1
      <4> HIDE DEF e
      <4> QED BY <1>1, <3>3, <4>1
    <3>5. w[c[e - 1]][c[e]] \in Nat /\ s[e - 1] \in Nat /\ s[i] \in Nat
      BY <1>1, <3>3, <3>4 DEF Measures
    <3> HIDE DEF e
    <3> QED BY <3>1, <3>2, <3>5
  <2>14. Follows(m, d, t, w, S, U, c[i], b, metres - s[i])
    BY <2>1, <2>4, <2>5, <2>7, <2>11, <2>12, <2>13 DEF Follows
  <2> QED BY <2>14 DEF Way
<1> QED BY <1>2, <1>3

\* Two ways that meet make one way, that is no longer than both: from the
\* first place of the first that is on the second.
LEMMA WaysJoin ==
    ASSUME NEW w, NEW S, Measures(w, S), NEW a, NEW b, NEW c, NEW m1, NEW m2,
           Way(w, S, S, a, c, m1), Way(w, S, S, c, b, m2)
    PROVE  /\ m1 \in Nat /\ m2 \in Nat
           /\ \E m : Way(w, S, S, a, b, m) /\ m \in Nat /\ m <= m1 + m2
<1>1. PICK n1, c1, s1 : Follows(n1, c1, s1, w, S, S, a, c, m1)
  BY DEF Way
<1>2. PICK n2, c2, s2 : Follows(n2, c2, s2, w, S, S, c, b, m2)
  BY DEF Way
<1>3. /\ n1 \in Nat \ {0} /\ c1 \in [1..n1 -> S] /\ s1 \in [1..n1 -> Nat]
      /\ \A k, j \in 1..n1 : c1[k] = c1[j] => k = j
      /\ c1[1] = a /\ c1[n1] = c /\ s1[1] = 0 /\ s1[n1] = m1
      /\ \A k \in 2..n1 : /\ w[c1[k - 1]][c1[k]] <= MaxLink
                          /\ s1[k] = s1[k - 1] + w[c1[k - 1]][c1[k]]
  BY <1>1 DEF Follows
<1>4. /\ n2 \in Nat \ {0} /\ c2 \in [1..n2 -> S] /\ s2 \in [1..n2 -> Nat]
      /\ \A k, j \in 1..n2 : c2[k] = c2[j] => k = j
      /\ c2[1] = c /\ c2[n2] = b /\ s2[1] = 0 /\ s2[n2] = m2
      /\ \A k \in 2..n2 : /\ w[c2[k - 1]][c2[k]] <= MaxLink
                          /\ s2[k] = s2[k - 1] + w[c2[k - 1]][c2[k]]
  BY <1>2 DEF Follows
<1>5. m1 \in Nat /\ m2 \in Nat
  <2>1. n1 \in 1..n1 /\ n2 \in 1..n2
    BY <1>3, <1>4
  <2> QED BY <1>3, <1>4, <2>1
<1> DEFINE meets == {k \in 1..n1 : \E j \in 1..n2 : c1[k] = c2[j]}
<1>6. PICK i \in meets : \A k \in meets : i <= k
  <2>1. n1 \in meets
    BY <1>3, <1>4
  <2>2. meets \subseteq Nat /\ meets # {}
    BY <1>3, <2>1
  <2> HIDE DEF meets
  <2> QED BY <2>2, LeastNatural
<1>7. PICK j \in 1..n2 : c1[i] = c2[j]
  BY <1>6
<1>8. i \in 1..n1
  BY <1>6
<1> DEFINE n == i + n2 - j
           d == [k \in 1..n |-> IF k <= i THEN c1[k] ELSE c2[k - i + j]]
           s == [k \in 1..n |-> IF k <= i THEN s1[k] ELSE s1[i] + (s2[k - i + j] - s2[j])]
           m == s1[i] + (s2[n2] - s2[j])
<1>9. \A k \in 1..n : /\ k <= i => k \in 1..n1
                      /\ k > i => k - i + j \in (j + 1)..n2 /\ k - i + j \in 1..n2
  BY <1>3, <1>4, <1>7, <1>8
<1>10. n \in Nat \ {0} /\ i \in 1..n /\ 1 \in 1..n /\ n \in 1..n /\ i <= n
  BY <1>3, <1>4, <1>7, <1>8
<1>11. ASSUME NEW k \in 1..n
       PROVE  /\ k <= i => d[k] = c1[k] /\ s[k] = s1[k]
              /\ k > i => d[k] = c2[k - i + j] /\ s[k] = s1[i] + (s2[k - i + j] - s2[j])
  BY <1>8
<1>12. s1[i] \in Nat /\ s1[i] <= m1
  <2>1. n1 \in 1..n1 /\ i <= n1
    BY <1>3, <1>8
  <2>2. s1[i] <= s1[n1]
    BY <1>1, <1>8, <2>1, SumsGrow
  <2> QED BY <1>3, <1>8, <2>2
<1>13. \A k \in j..n2 : s2[k] - s2[j] \in Nat /\ s2[k] \in Nat /\ s2[j] \in Nat
  <2>1. ASSUME NEW k \in j..n2 PROVE s2[k] - s2[j] \in Nat /\ s2[k] \in Nat /\ s2[j] \in Nat
    <3>1. k \in 1..n2 /\ j <= k
      BY <1>4, <1>7
    <3>2. s2[j] <= s2[k]
      BY <1>2, <1>7, <3>1, SumsGrow
    <3>3. s2[j] \in Nat /\ s2[k] \in Nat
      BY <1>4, <1>7, <3>1
    <3> QED BY <3>2, <3>3
  <2> QED BY <2>1
<1>14. m \in Nat /\ m <= m1 + m2
  <2>1. n2 \in j..n2 /\ s2[n2] = m2
    BY <1>4, <1>7
  <2> QED BY <1>5, <1>12, <1>13, <2>1
<1>15. d \in [1..n -> S] /\ s \in [1..n -> Nat]
  <2>1. ASSUME NEW k \in 1..n
        PROVE  /\ (IF k <= i THEN c1[k] ELSE c2[k - i + j]) \in S
               /\ (IF k <= i THEN s1[k] ELSE s1[i] + (s2[k - i + j] - s2[j])) \in Nat
    <3>1. CASE k <= i
      BY <1>3, <1>9, <3>1
    <3>2. CASE k > i
      <4>1. k - i + j \in 1..n2 /\ k - i + j \in j..n2
        BY <1>4, <1>7, <1>8, <1>9, <3>2
      <4>2. c2[k - i + j] \in S
        BY <1>4, <4>1
      <4>3. s1[i] + (s2[k - i + j] - s2[j]) \in Nat
        BY <1>12, <1>13, <4>1
      <4>4. ~(k <= i)
        BY <1>8, <3>2
      <4> QED BY <4>2, <4>3, <4>4
    <3> QED BY <1>8, <3>1, <3>2
  <2> QED BY <2>1
<1>16. d[1] = a /\ s[1] = 0
  BY <1>3, <1>8, <1>10, <1>11
<1>17. d[n] = b /\ s[n] = m
  <2>1. CASE j = n2
    <3>1. n = i /\ s2[n2] - s2[j] = 0
      <4>1. s2[n2] \in Nat
        BY <1>4, <1>7, <2>1
      <4> QED BY <1>8, <2>1, <4>1
    <3>2. d[n] = c1[i] /\ s[n] = s1[i]
      BY <1>8, <1>10, <1>11, <3>1
    <3> QED BY <1>4, <1>7, <1>12, <2>1, <3>1, <3>2
  <2>2. CASE j # n2
    <3>1. n > i /\ n - i + j = n2
      BY <1>4, <1>7, <1>8, <2>2
    <3>2. d[n] = c2[n - i + j] /\ s[n] = s1[i] + (s2[n - i + j] - s2[j])
      BY <1>10, <1>11, <3>1
    <3> QED BY <1>4, <3>1, <3>2
  <2> QED BY <2>1, <2>2
<1>18. ASSUME NEW k \in 1..n, NEW l \in 1..n, k < l, d[k] = d[l] PROVE FALSE
  <2>1. CASE l <= i
    <3>1. k <= i /\ d[k] = c1[k] /\ d[l] = c1[l] /\ k \in 1..n1 /\ l \in 1..n1
      BY <1>3, <1>8, <1>11, <1>18, <2>1
    <3>2. k = l
      BY <1>3, <1>18, <3>1
    <3> QED BY <1>18, <3>2
  <2>2. CASE k > i
    <3>1. /\ d[k] = c2[k - i + j] /\ d[l] = c2[l - i + j]
          /\ k - i + j \in 1..n2 /\ l - i + j \in 1..n2
      BY <1>8, <1>9, <1>11, <1>18, <2>2
    <3>2. k - i + j = l - i + j
      BY <1>4, <1>18, <3>1
    <3> QED BY <1>7, <1>8, <1>18, <3>2
  <2>3. CASE k <= i /\ l > i
    <3>1. /\ d[k] = c1[k] /\ k \in 1..n1
          /\ d[l] = c2[l - i + j] /\ l - i + j \in (j + 1)..n2 /\ l - i + j \in 1..n2
      BY <1>9, <1>11, <2>3
    <3>2. k \in meets
      BY <1>18, <3>1
    <3>3. k = i
      BY <1>6, <1>8, <2>3, <3>1, <3>2
    <3>4. c2[j] = c2[l - i + j]
      BY <1>7, <1>18, <3>1, <3>3
    <3>5. j = l - i + j
      BY <1>4, <3>1, <3>4
    <3> QED BY <1>7, <3>1, <3>5
  <2> QED BY <1>8, <2>1, <2>2, <2>3
<1>19. \A k, l \in 1..n : d[k] = d[l] => k = l
  <2> HIDE DEF d, n
  <2>1. SUFFICES ASSUME NEW k \in 1..n, NEW l \in 1..n, d[k] = d[l], k # l PROVE FALSE
    OBVIOUS
  <2>2. k < l \/ l < k
    BY <1>10, <2>1
  <2> QED BY <1>18, <2>1, <2>2
<1>20. ASSUME NEW k \in 2..n
       PROVE  w[d[k - 1]][d[k]] <= MaxLink /\ s[k] = s[k - 1] + w[d[k - 1]][d[k]]
  <2>1. k \in 1..n /\ k - 1 \in 1..n
    BY <1>10
  <2>2. CASE k <= i
    <3>1. d[k] = c1[k] /\ d[k - 1] = c1[k - 1] /\ s[k] = s1[k] /\ s[k - 1] = s1[k - 1]
      BY <1>8, <1>11, <2>1, <2>2
    <3>2. k \in 2..n1
      BY <1>3, <1>8, <2>2
    <3> QED BY <1>3, <3>1, <3>2
  <2>3. CASE k > i
    <3> DEFINE e == k - i + j
    <3>1. e \in (j + 1)..n2 /\ e \in 2..n2 /\ e - 1 \in j..n2 /\ e - 1 = (k - 1) - i + j
      BY <1>4, <1>7, <1>8, <1>9, <2>1, <2>3
    <3>2. d[k] = c2[e] /\ s[k] = s1[i] + (s2[e] - s2[j])
      BY <1>11, <2>1, <2>3
    <3>3. d[k - 1] = c2[e - 1] /\ s[k - 1] = s1[i] + (s2[e - 1] - s2[j])
      <4>1. CASE k - 1 = i
        <5>1. e - 1 = j
          BY <1>7, <1>8, <4>1
        <5>2. d[k - 1] = c1[i] /\ s[k - 1] = s1[i]
          BY <1>8, <1>11, <2>1, <4>1
        <5>3. s2[e - 1] - s2[j] = 0
          BY <1>13, <3>1, <5>1
        <5> HIDE DEF d, s, e
        <5> QED BY <1>7, <1>12, <5>1, <5>2, <5>3
      <4>2. CASE k - 1 > i
        <5>1. d[k - 1] = c2[(k - 1) - i + j] /\ s[k - 1] = s1[i] + (s2[(k - 1) - i + j] - s2[j])
          BY <1>11, <2>1, <4>2
        <5> QED BY <3>1, <5>1
      <4> QED BY <1>8, <2>1, <2>3, <4>1, <4>2
    <3>4. w[c2[e - 1]][c2[e]] <= MaxLink /\ s2[e] = s2[e - 1] + w[c2[e - 1]][c2[e]]
      BY <1>4, <3>1
    <3>5. w[c2[e - 1]][c2[e]] \in Nat
      <4>1. e \in 1..n2 /\ e - 1 \in 1..n2 /\ e # e - 1
        BY <1>7, <3>1
      <4> HIDE DEF e
      <4>2. c2[e] \in S /\ c2[e - 1] \in S /\ c2[e] # c2[e - 1]
        BY <1>4, <4>1
      <4> QED BY <4>2 DEF Measures
    <3>6. s2[e - 1] \in Nat /\ s2[j] \in Nat /\ s1[i] \in Nat
      BY <1>12, <1>13, <3>1
    <3> HIDE DEF d, s, e
    <3> QED BY <3>2, <3>3, <3>4, <3>5, <3>6
  <2> QED BY <1>8, <2>1, <2>2, <2>3
<1>21. Way(w, S, S, a, b, m)
  <2> HIDE DEF n, d, s, m
  <2>1. \A k \in 2..(n - 1) : d[k] \in S
    BY <1>10, <1>15
  <2>2. Follows(n, d, s, w, S, S, a, b, m)
    BY <1>10, <1>15, <1>16, <1>17, <1>19, <1>20, <2>1 DEF Follows
  <2> QED BY <2>2 DEF Way
<1> QED BY <1>5, <1>14, <1>21

----------------------------------------------------------------------------
(***************************************************************************)
(* The metric closure is Floyd and Warshall's: over the links within the   *)
(* cap it measures the shortest way.                                       *)
(***************************************************************************)

Link(w, a, b) == IF a = b THEN 0 ELSE IF w[a][b] <= MaxLink THEN w[a][b] ELSE Infinity

\* The rounds of the closure, by the place that each takes in.
Rounds(d, ids, n, w, S) ==
    /\ n \in Nat
    /\ ids \in [1..n -> S]
    /\ \A x \in S : \E k \in 1..n : ids[k] = x
    /\ d \in [0..n -> [S -> [S -> 0..Infinity]]]
    /\ \A a, b \in S : d[0][a][b] = Link(w, a, b)
    /\ \A k \in 1..n, a, b \in S :
          d[k][a][b] = Less(d[k - 1][a][b],
                            Plus(d[k - 1][a][ids[k]], d[k - 1][ids[k]][b]))

LEMMA SortedIsSequence ==
    ASSUME NEW S, IsFiniteSet(S), S \subseteq Nat
    PROVE  /\ Sorted(S) \in Seq(S) /\ Len(Sorted(S)) = Cardinality(S)
           /\ Cardinality(S) \in Nat /\ Lists(Sorted(S), S)
<1>1. Lists(Sorted(S), S) /\ Cardinality(S) \in Nat
  BY SortedLists, FS_CardinalityType
<1>2. Sorted(S) \in [1..Cardinality(S) -> S]
  BY <1>1 DEF Lists
<1>3. Sorted(S) \in Seq(S)
  BY <1>1, <1>2
<1>4. DOMAIN Sorted(S) = 1..Cardinality(S) /\ DOMAIN Sorted(S) = 1..Len(Sorted(S))
      /\ Len(Sorted(S)) \in Nat
  BY <1>2, <1>3, LenProperties
<1> QED BY <1>1, <1>3, <1>4

LEMMA PlusIsNatural ==
    ASSUME NEW x \in Nat, NEW y \in Nat
    PROVE  /\ Plus(x, y) \in Nat
           /\ Plus(x, y) < Infinity => Plus(x, y) = x + y /\ x < Infinity /\ y < Infinity
           /\ x + y < Infinity => Plus(x, y) = x + y
           /\ Plus(x, y) <= x + y
BY InfinityAssumption DEF Plus

\* The closure is what the rounds d come to.
ClosedBy(d, w, S) ==
    /\ Rounds(d, Sorted(S), Cardinality(S), w, S)
    /\ \A a, b \in S : Closure(w, S)[a][b] =
          IF a # b /\ w[a][b] < Infinity THEN w[a][b] ELSE d[Cardinality(S)][a][b]

LEMMA ClosureUnfolds ==
    ASSUME NEW S, IsFiniteSet(S), S \subseteq Nat, NEW w, Measures(w, S)
    PROVE  \E d : ClosedBy(d, w, S)
<1> DEFINE N == Cardinality(S)
           ids == Sorted(S)
           V == [S -> [S -> 0..Infinity]]
           base == [a \in S |-> [b \in S |->
                      IF a = b THEN 0 ELSE IF w[a][b] <= MaxLink THEN w[a][b] ELSE Infinity]]
           next(d, k) == [a \in S |-> [b \in S |-> Less(d[a][b], Plus(d[a][ids[k]], d[ids[k]][b]))]]
           step == [x \in (1..N) \X V |-> next(x[2], x[1])]
           P(f) == f = [k \in 0..N |-> IF k = 0 THEN base ELSE next(f[k - 1], k)]
<1>1. /\ ids \in Seq(S) /\ Len(ids) = N /\ N \in Nat
      /\ ids \in [1..N -> S] /\ \A x \in S : \E k \in 1..N : ids[k] = x
  BY SortedIsSequence DEF Lists
<1>2. Infinity \in Nat /\ MaxLink \in 0..(Infinity - 1)
  BY InfinityAssumption, WalkMatrixAssumption
<1>3. base \in V
  BY <1>2 DEF Measures
<1>4. ASSUME NEW d \in V, NEW k \in 1..N PROVE next(d, k) \in V
  <2>1. ASSUME NEW a \in S, NEW b \in S
        PROVE  Less(d[a][b], Plus(d[a][ids[k]], d[ids[k]][b])) \in 0..Infinity
    <3>1. ids[k] \in S
      BY <1>1
    <3>2. d[a][b] \in 0..Infinity /\ d[a][ids[k]] \in 0..Infinity /\ d[ids[k]][b] \in 0..Infinity
      BY <3>1
    <3> HIDE DEF V, ids
    <3> QED BY <1>2, <3>2 DEF Less, Plus
  <2> QED BY <2>1
<1>5. step \in [(1..N) \X V -> V]
  <2> HIDE DEF V, next, N
  <2> QED BY <1>4
<1>6. PICK g : Runs(g, N, V, base, step)
  <2> HIDE DEF step, N, V, base
  <2> QED BY <1>1, <1>3, <1>5, RecursionExists
<1>7. /\ g \in [0..N -> V] /\ g[0] = base
      /\ \A k \in 1..N : g[k] = next(g[k - 1], k)
  <2> HIDE DEF next, V, base, N
  <2>1. g \in [0..N -> V] /\ g[0] = base /\ \A k \in 1..N : g[k] = step[<<k, g[k - 1]>>]
    BY <1>6 DEF Runs
  <2>2. ASSUME NEW k \in 1..N PROVE g[k] = next(g[k - 1], k)
    <3>1. k - 1 \in 0..N
      BY <1>1
    <3>2. g[k - 1] \in V
      BY <2>1, <3>1
    <3>3. <<k, g[k - 1]>> \in (1..N) \X V
      BY <3>2
    <3> QED BY <2>1, <3>3
  <2> QED BY <2>1, <2>2
<1>8. P(g)
  <2> HIDE DEF next, V, base, N
  <2> QED BY <1>1, <1>7
<1>9. P(CHOOSE f : P(f))
  <2> HIDE DEF P
  <2> QED BY <1>8
<1> DEFINE d == CHOOSE f : P(f)
<1>10. ASSUME NEW a \in S, NEW b \in S
       PROVE  Closure(w, S)[a][b] =
                IF a # b /\ w[a][b] < Infinity THEN w[a][b] ELSE d[N][a][b]
  BY <1>1 DEF Closure
<1>11. d = [k \in 0..N |-> IF k = 0 THEN base ELSE next(d[k - 1], k)]
  <2> HIDE DEF N, base, next
  <2> QED BY <1>9
<1> HIDE DEF d
<1>12. d[0] = base /\ \A k \in 1..N : d[k] = next(d[k - 1], k)
  <2> HIDE DEF N, base, next
  <2>1. 0 \in 0..N /\ \A k \in 1..N : k \in 0..N /\ k # 0
    BY <1>1
  <2> QED BY <1>11, <2>1
<1>13. \A k \in 0..N : d[k] \in V
  <2> DEFINE T == {k \in 0..N : d[k] \in V}
  <2> HIDE DEF V, N, base, next
  <2>1. 0 \in T
    BY <1>1, <1>3, <1>12
  <2>2. ASSUME NEW k \in 0..(N - 1), k \in T PROVE k + 1 \in T
    <3>1. k + 1 \in 1..N /\ (k + 1) - 1 = k /\ k + 1 \in 0..N
      BY <1>1
    <3> QED BY <1>4, <1>12, <2>2, <3>1
  <2>3. \A k \in 0..N : k \in T
    <3> HIDE DEF T
    <3> QED BY <1>1, <2>1, <2>2, AllUpTo
  <2> QED BY <2>3
<1>14. d \in [0..N -> V]
  <2> HIDE DEF V, N, base, next
  <2> QED BY <1>11, <1>13
<1>15. \A a, b \in S : d[0][a][b] = Link(w, a, b)
  BY <1>12 DEF Link
<1>16. \A k \in 1..N, a, b \in S :
          d[k][a][b] = Less(d[k - 1][a][b], Plus(d[k - 1][a][ids[k]], d[k - 1][ids[k]][b]))
  <2>1. ASSUME NEW k \in 1..N, NEW a \in S, NEW b \in S
        PROVE  d[k][a][b] = Less(d[k - 1][a][b], Plus(d[k - 1][a][ids[k]], d[k - 1][ids[k]][b]))
    <3>1. d[k] = next(d[k - 1], k)
      BY <1>12
    <3> HIDE DEF N, ids
    <3> QED BY <3>1
  <2> HIDE DEF N, ids
  <2> QED BY <2>1
<1>17. Rounds(d, ids, N, w, S)
  <2> HIDE DEF N, ids
  <2> QED BY <1>1, <1>14, <1>15, <1>16 DEF Rounds
<1>18. ClosedBy(d, w, S)
  BY <1>10, <1>17 DEF ClosedBy
<1> QED BY <1>18

\* What a round measures is a way.
LEMMA RoundsMeasureWays ==
    ASSUME NEW S, NEW w, Measures(w, S), NEW n, NEW ids, NEW d, Rounds(d, ids, n, w, S)
    PROVE  \A k \in 0..n, a, b \in S : d[k][a][b] < Infinity =>
              \E m : Way(w, S, S, a, b, m) /\ m \in Nat /\ m <= d[k][a][b]
<1> DEFINE Short(x, a, b) == \E m : Way(w, S, S, a, b, m) /\ m \in Nat /\ m <= x
           T == {k \in 0..n : \A a, b \in S : d[k][a][b] < Infinity => Short(d[k][a][b], a, b)}
<1>1. n \in Nat /\ Infinity \in Nat
  BY InfinityAssumption DEF Rounds
<1>2. 0 \in T
  <2>1. ASSUME NEW a \in S, NEW b \in S, d[0][a][b] < Infinity PROVE Short(d[0][a][b], a, b)
    <3>1. d[0][a][b] = Link(w, a, b)
      BY DEF Rounds
    <3>2. CASE a = b
      <4>1. Way(w, S, S, a, b, 0) /\ d[0][a][b] = 0
        BY <3>1, <3>2, ShortWays DEF Link
      <4> QED BY <4>1
    <3>3. CASE a # b
      <4>1. w[a][b] <= MaxLink /\ d[0][a][b] = w[a][b] /\ w[a][b] \in Nat
        BY <1>1, <2>1, <3>1, <3>3 DEF Link, Measures
      <4>2. Way(w, S, S, a, b, w[a][b])
        BY <3>3, <4>1, ShortWays
      <4> QED BY <4>1, <4>2
    <3> QED BY <3>2, <3>3
  <2> HIDE DEF Short
  <2> QED BY <1>1, <2>1
<1>3. ASSUME NEW k \in 0..(n - 1), k \in T PROVE k + 1 \in T
  <2>0. k + 1 \in 1..n /\ (k + 1) - 1 = k /\ k + 1 \in 0..n /\ k \in 0..n
    BY <1>1
  <2>1. ASSUME NEW a \in S, NEW b \in S, d[k + 1][a][b] < Infinity
        PROVE  Short(d[k + 1][a][b], a, b)
    <3> DEFINE c == ids[k + 1]
    <3>1. c \in S
      BY <2>0 DEF Rounds
    <3>2. d[k][a][b] \in Nat /\ d[k][a][c] \in Nat /\ d[k][c][b] \in Nat
      <4>1. d[k] \in [S -> [S -> 0..Infinity]]
        BY <2>0 DEF Rounds
      <4> HIDE DEF c
      <4> QED BY <3>1, <4>1
    <3>3. d[k + 1][a][b] = Less(d[k][a][b], Plus(d[k][a][c], d[k][c][b]))
      BY <2>0 DEF Rounds
    <3>4. \A x, y \in S : d[k][x][y] < Infinity => Short(d[k][x][y], x, y)
      BY <1>3
    <3> HIDE DEF c, Short
    <3>5. CASE d[k][a][b] <= Plus(d[k][a][c], d[k][c][b])
      <4>1. d[k + 1][a][b] = d[k][a][b]
        BY <3>3, <3>5 DEF Less
      <4> QED BY <2>1, <3>4, <4>1
    <3>6. CASE ~(d[k][a][b] <= Plus(d[k][a][c], d[k][c][b]))
      <4>1. d[k + 1][a][b] = Plus(d[k][a][c], d[k][c][b])
        BY <3>3, <3>6 DEF Less
      <4>2. /\ d[k + 1][a][b] = d[k][a][c] + d[k][c][b]
            /\ d[k][a][c] < Infinity /\ d[k][c][b] < Infinity
        <5>1. Plus(d[k][a][c], d[k][c][b]) < Infinity
          BY <2>1, <4>1
        <5> QED BY <3>2, <4>1, <5>1, PlusIsNatural
      <4>3. PICK m1 : Way(w, S, S, a, c, m1) /\ m1 \in Nat /\ m1 <= d[k][a][c]
        BY <3>1, <3>4, <4>2 DEF Short
      <4>4. PICK m2 : Way(w, S, S, c, b, m2) /\ m2 \in Nat /\ m2 <= d[k][c][b]
        BY <3>1, <3>4, <4>2 DEF Short
      <4>5. PICK m : Way(w, S, S, a, b, m) /\ m \in Nat /\ m <= m1 + m2
        BY <4>3, <4>4, WaysJoin
      <4>6. m <= d[k + 1][a][b]
        BY <3>2, <4>2, <4>3, <4>4, <4>5
      <4> QED BY <4>5, <4>6 DEF Short
    <3> QED BY <3>5, <3>6
  <2> HIDE DEF Short
  <2> QED BY <2>0, <2>1
<1>4. \A k \in 0..n : k \in T
  <2> HIDE DEF T
  <2> QED BY <1>1, <1>2, <1>3, AllUpTo
<1> QED BY <1>4

\* After round k no way by the first k places is shorter.
LEMMA RoundsAreShortest ==
    ASSUME NEW S, NEW w, Measures(w, S), NEW n, NEW ids, NEW d, Rounds(d, ids, n, w, S)
    PROVE  \A k \in 0..n, a, b \in S :
              \A m : Way(w, S, {ids[i] : i \in 1..k}, a, b, m) => d[k][a][b] <= m
<1> DEFINE First(k) == {ids[i] : i \in 1..k}
           T == {k \in 0..n : \A a, b \in S : \A m : Way(w, S, First(k), a, b, m) => d[k][a][b] <= m}
<1>1. n \in Nat /\ Infinity \in Nat
  BY InfinityAssumption DEF Rounds
<1>2. 0 \in T
  <2>1. ASSUME NEW a \in S, NEW b \in S, NEW m, Way(w, S, First(0), a, b, m)
        PROVE  d[0][a][b] <= m
    <3>1. PICK l, c, s : Follows(l, c, s, w, S, First(0), a, b, m)
      BY <2>1 DEF Way
    <3>2. /\ l \in Nat \ {0} /\ c \in [1..l -> S] /\ s \in [1..l -> Nat]
          /\ \A i, j \in 1..l : c[i] = c[j] => i = j
          /\ c[1] = a /\ c[l] = b /\ s[1] = 0 /\ s[l] = m
          /\ \A i \in 2..(l - 1) : c[i] \in First(0)
          /\ \A i \in 2..l : w[c[i - 1]][c[i]] <= MaxLink /\ s[i] = s[i - 1] + w[c[i - 1]][c[i]]
      BY <3>1 DEF Follows
    <3>3. First(0) = {}
      OBVIOUS
    <3> HIDE DEF First
    <3>4. l \in {1, 2}
      <4>1. SUFFICES ASSUME l > 2 PROVE FALSE
        BY <3>2
      <4>2. 2 \in 2..(l - 1)
        BY <3>2, <4>1
      <4> QED BY <3>2, <3>3, <4>2
    <3>5. d[0][a][b] = Link(w, a, b)
      BY DEF Rounds
    <3>6. CASE l = 1
      <4>1. a = b /\ m = 0
        BY <3>2, <3>6
      <4> QED BY <3>5, <4>1 DEF Link
    <3>7. CASE l = 2
      <4>1. 2 \in 2..l /\ 2 - 1 = 1 /\ 1 \in 1..l /\ 2 \in 1..l
        BY <3>7
      <4>2. a # b
        BY <3>2, <3>7, <4>1
      <4>3. w[a][b] <= MaxLink /\ m = 0 + w[a][b]
        BY <3>2, <3>7, <4>1
      <4>4. w[a][b] \in Nat
        BY <4>2 DEF Measures
      <4> QED BY <3>5, <4>2, <4>3, <4>4 DEF Link
    <3> QED BY <3>4, <3>6, <3>7
  <2> HIDE DEF First
  <2> QED BY <1>1, <2>1
<1>3. ASSUME NEW k \in 0..(n - 1), k \in T PROVE k + 1 \in T
  <2>0. k + 1 \in 1..n /\ (k + 1) - 1 = k /\ k + 1 \in 0..n /\ k \in 0..n
    BY <1>1
  <2>1. ASSUME NEW a \in S, NEW b \in S, NEW m, Way(w, S, First(k + 1), a, b, m)
        PROVE  d[k + 1][a][b] <= m
    <3> DEFINE v == ids[k + 1]
    <3>1. v \in S
      BY <2>0 DEF Rounds
    <3>2. d[k][a][b] \in Nat /\ d[k][a][v] \in Nat /\ d[k][v][b] \in Nat
      <4>1. d[k] \in [S -> [S -> 0..Infinity]]
        BY <2>0 DEF Rounds
      <4> HIDE DEF v
      <4> QED BY <3>1, <4>1
    <3>3. d[k + 1][a][b] = Less(d[k][a][b], Plus(d[k][a][v], d[k][v][b]))
      BY <2>0 DEF Rounds
    <3>4. \A x, y \in S : \A q : Way(w, S, First(k), x, y, q) => d[k][x][y] <= q
      BY <1>3
    <3>5. First(k + 1) = First(k) \cup {v}
      <4>1. \A i \in 1..(k + 1) : i \in 1..k \/ i = k + 1
        BY <2>0
      <4>2. \A i \in 1..k : i \in 1..(k + 1)
        BY <2>0
      <4>3. k + 1 \in 1..(k + 1)
        BY <2>0
      <4> QED BY <4>1, <4>2, <4>3
    <3>6. PICK l, c, s : Follows(l, c, s, w, S, First(k + 1), a, b, m)
      BY <2>1 DEF Way
    <3>7. /\ l \in Nat \ {0} /\ c \in [1..l -> S] /\ s \in [1..l -> Nat]
          /\ \A i, j \in 1..l : c[i] = c[j] => i = j
          /\ \A i \in 2..(l - 1) : c[i] \in First(k + 1)
          /\ s[l] = m
      BY <3>6 DEF Follows
    <3>8. m \in Nat
      BY <3>7
    <3> HIDE DEF First, v
    <3>9. CASE \E i \in 2..(l - 1) : c[i] = v
      <4>1. PICK i \in 2..(l - 1) : c[i] = v
        BY <3>9
      <4>2. i \in 1..l
        BY <3>7
      <4>3. \A j \in 2..(l - 1) : j # i => c[j] \in First(k)
        <5>1. ASSUME NEW j \in 2..(l - 1), j # i PROVE c[j] \in First(k)
          <6>1. j \in 1..l
            BY <3>7
          <6>2. c[j] # v
            BY <3>7, <4>1, <4>2, <5>1, <6>1
          <6> QED BY <3>5, <3>7, <6>2
        <5> QED BY <5>1
      <4>4. Way(w, S, First(k), a, v, s[i]) /\ Way(w, S, First(k), v, b, m - s[i])
        BY <3>6, <4>1, <4>2, <4>3, WaysSplit
      <4>5. d[k][a][v] <= s[i] /\ d[k][v][b] <= m - s[i]
        BY <3>1, <3>4, <4>4
      <4>6. s[i] \in Nat
        BY <3>7, <4>2
      <4>7. Plus(d[k][a][v], d[k][v][b]) <= d[k][a][v] + d[k][v][b]
            /\ Plus(d[k][a][v], d[k][v][b]) \in Nat
        BY <3>2, PlusIsNatural
      <4>8. Plus(d[k][a][v], d[k][v][b]) <= m
        BY <3>2, <3>8, <4>5, <4>6, <4>7
      <4> QED BY <3>2, <3>3, <3>8, <4>7, <4>8 DEF Less
    <3>10. CASE ~\E i \in 2..(l - 1) : c[i] = v
      <4>1. \A j \in 2..(l - 1) : c[j] \in First(k)
        BY <3>5, <3>7, <3>10
      <4>2. Follows(l, c, s, w, S, First(k), a, b, m)
        BY <3>6, <4>1 DEF Follows
      <4>3. Way(w, S, First(k), a, b, m)
        BY <4>2 DEF Way
      <4>4. d[k][a][b] <= m
        BY <3>4, <4>3
      <4>5. Plus(d[k][a][v], d[k][v][b]) \in Nat
        BY <3>2, PlusIsNatural
      <4> QED BY <3>2, <3>3, <3>8, <4>4, <4>5 DEF Less
    <3> QED BY <3>9, <3>10
  <2> HIDE DEF First
  <2> QED BY <2>0, <2>1
<1>4. \A k \in 0..n : k \in T
  <2> HIDE DEF T
  <2> QED BY <1>1, <1>2, <1>3, AllUpTo
<1> QED BY <1>4

\* A pair without a direct route gets the shortest way there is.
LEMMA ClosureMeasuresWays ==
    ASSUME NEW S, IsFiniteSet(S), S \subseteq Nat, NEW w, Measures(w, S),
           NEW a \in S, NEW b \in S, a # b, ~(w[a][b] < Infinity)
    PROVE  /\ Closure(w, S)[a][b] \in 0..Infinity
           /\ Closure(w, S)[a][b] < Infinity =>
                \E m : Way(w, S, S, a, b, m) /\ m \in Nat /\ m <= Closure(w, S)[a][b]
           /\ \A m : Way(w, S, S, a, b, m) => Closure(w, S)[a][b] <= m
<1> DEFINE N == Cardinality(S)
<1>0. PICK d : ClosedBy(d, w, S)
  BY ClosureUnfolds
<1>1. /\ Rounds(d, Sorted(S), N, w, S)
      /\ \A x, y \in S : Closure(w, S)[x][y] =
            IF x # y /\ w[x][y] < Infinity THEN w[x][y] ELSE d[N][x][y]
  BY <1>0 DEF ClosedBy
<1>2. Closure(w, S)[a][b] = d[N][a][b]
  BY <1>1
<1> HIDE DEF N
<1>3. N \in Nat /\ N \in 0..N /\ d[N] \in [S -> [S -> 0..Infinity]]
  BY <1>1 DEF Rounds
<1>4. {Sorted(S)[i] : i \in 1..N} = S
  <2>1. \A i \in 1..N : Sorted(S)[i] \in S
    BY <1>1 DEF Rounds
  <2>2. \A x \in S : \E i \in 1..N : Sorted(S)[i] = x
    BY <1>1 DEF Rounds
  <2> QED BY <2>1, <2>2
<1>5. \A m : Way(w, S, S, a, b, m) => d[N][a][b] <= m
  BY <1>1, <1>3, <1>4, RoundsAreShortest
<1>6. d[N][a][b] < Infinity => \E m : Way(w, S, S, a, b, m) /\ m \in Nat /\ m <= d[N][a][b]
  BY <1>1, <1>3, RoundsMeasureWays
<1> QED BY <1>2, <1>3, <1>5, <1>6

LEMMA ClosureKeepsRoutes ==
    ASSUME NEW S, IsFiniteSet(S), S \subseteq Nat, NEW w, Measures(w, S),
           NEW a \in S, NEW b \in S, a # b, w[a][b] < Infinity
    PROVE  Closure(w, S)[a][b] = w[a][b]
<1>0. PICK d : ClosedBy(d, w, S)
  BY ClosureUnfolds
<1>1. /\ Rounds(d, Sorted(S), Cardinality(S), w, S)
      /\ \A x, y \in S : Closure(w, S)[x][y] =
            IF x # y /\ w[x][y] < Infinity THEN w[x][y] ELSE d[Cardinality(S)][x][y]
  BY <1>0 DEF ClosedBy
<1> QED BY <1>1

----------------------------------------------------------------------------
(***************************************************************************)
(* ChainLength of a chain is the length of the way it is, if it is one.    *)
(***************************************************************************)

\* ChainLength for any walks.
ChainMetres(w, chain) ==
    LET upto[k \in 1..Len(chain)] ==
            IF k = 1 THEN 0
            ELSE IF w[chain[k - 1]][chain[k]] > MaxLink THEN Infinity
                 ELSE Plus(upto[k - 1], w[chain[k - 1]][chain[k]])
    IN  upto[Len(chain)]

\* A chain over places of S, none of them twice.
Chain(c, S) == c \in Seq(S) /\ c # <<>> /\ \A i, j \in 1..Len(c) : c[i] = c[j] => i = j

Added(u, w, c) ==
    /\ u \in [1..Len(c) -> Nat]
    /\ u[1] = 0
    /\ \A k \in 2..Len(c) :
          u[k] = IF w[c[k - 1]][c[k]] > MaxLink THEN Infinity
                 ELSE Plus(u[k - 1], w[c[k - 1]][c[k]])

LEMMA ChainSteps ==
    ASSUME NEW S, NEW w, Measures(w, S), NEW c, Chain(c, S)
    PROVE  /\ Len(c) \in Nat \ {0}
           /\ \A k \in 1..Len(c) : c[k] \in S
           /\ \A k \in 2..Len(c) : w[c[k - 1]][c[k]] \in Nat
<1>1. c \in Seq(S) /\ c # <<>>
  BY DEF Chain
<1>2. Len(c) \in Nat \ {0}
  BY <1>1, EmptySeq
<1>3. \A k \in 1..Len(c) : c[k] \in S
  BY <1>1, ElementOfSeq
<1>4. ASSUME NEW k \in 2..Len(c) PROVE w[c[k - 1]][c[k]] \in Nat
  <2>1. k \in 1..Len(c) /\ k - 1 \in 1..Len(c) /\ k # k - 1
    BY <1>2
  <2>2. c[k - 1] # c[k] /\ c[k - 1] \in S /\ c[k] \in S
    BY <1>3, <2>1 DEF Chain
  <2> QED BY <2>2 DEF Measures
<1> QED BY <1>2, <1>3, <1>4

LEMMA ChainUnfolds ==
    ASSUME NEW S, NEW w, Measures(w, S), NEW c, Chain(c, S)
    PROVE  \E u : Added(u, w, c) /\ ChainMetres(w, c) = u[Len(c)]
<1> DEFINE L == Len(c)
           more(x, k) == IF w[c[k - 1]][c[k]] > MaxLink THEN Infinity
                         ELSE Plus(x, w[c[k - 1]][c[k]])
           step == [x \in (1..(L - 1)) \X Nat |-> more(x[2], x[1] + 1)]
           P(f) == f = [k \in 1..L |-> IF k = 1 THEN 0 ELSE more(f[k - 1], k)]
<1>1. L \in Nat \ {0}
  BY ChainSteps
<1>2. ASSUME NEW x \in Nat, NEW k \in 2..L PROVE more(x, k) \in Nat
  <2>1. w[c[k - 1]][c[k]] \in Nat
    BY <1>2, ChainSteps
  <2>2. Plus(x, w[c[k - 1]][c[k]]) \in Nat
    BY <2>1, PlusIsNatural
  <2> QED BY <2>2, InfinityAssumption
<1>3. step \in [(1..(L - 1)) \X Nat -> Nat]
  <2>1. ASSUME NEW x \in (1..(L - 1)) \X Nat PROVE more(x[2], x[1] + 1) \in Nat
    <3>1. x[2] \in Nat /\ x[1] + 1 \in 2..L
      BY <1>1
    <3> HIDE DEF more
    <3> QED BY <1>2, <3>1
  <2> HIDE DEF more, L
  <2> QED BY <2>1
<1>4. PICK g : Runs(g, L - 1, Nat, 0, step)
  <2>1. L - 1 \in Nat
    BY <1>1
  <2> HIDE DEF step, L
  <2> QED BY <1>3, <2>1, RecursionExists
<1> DEFINE h == [k \in 1..L |-> g[k - 1]]
<1>5. P(h)
  <2>1. g \in [0..(L - 1) -> Nat] /\ g[0] = 0 /\ \A k \in 1..(L - 1) : g[k] = step[<<k, g[k - 1]>>]
    <3> HIDE DEF step, L
    <3> QED BY <1>4 DEF Runs
  <2>2. ASSUME NEW k \in 1..L PROVE h[k] = IF k = 1 THEN 0 ELSE more(h[k - 1], k)
    <3>1. CASE k = 1
      BY <2>1, <3>1
    <3>2. CASE k # 1
      <4>1. k - 1 \in 1..(L - 1) /\ (k - 1) - 1 \in 0..(L - 1) /\ (k - 1) + 1 = k /\ k - 1 \in 1..L
        BY <1>1, <3>2
      <4>2. g[(k - 1) - 1] \in Nat
        BY <2>1, <4>1
      <4>3. <<k - 1, g[(k - 1) - 1]>> \in (1..(L - 1)) \X Nat
        BY <4>1, <4>2
      <4>4. g[k - 1] = more(g[(k - 1) - 1], (k - 1) + 1)
        <5> HIDE DEF more, L
        <5> QED BY <2>1, <4>1, <4>3
      <4>5. h[k] = g[k - 1] /\ h[k - 1] = g[(k - 1) - 1]
        BY <4>1
      <4> HIDE DEF more, h
      <4> QED BY <3>2, <4>1, <4>4, <4>5
    <3> QED BY <3>1, <3>2
  <2>3. h = [k \in 1..L |-> h[k]]
    OBVIOUS
  <2> HIDE DEF more, L, h
  <2> QED BY <2>2, <2>3
<1>6. P(CHOOSE f : P(f))
  <2> HIDE DEF P
  <2> QED BY <1>5
<1> DEFINE u == CHOOSE f : P(f)
<1>7. ChainMetres(w, c) = u[L]
  BY DEF ChainMetres
<1>8. u = [k \in 1..L |-> IF k = 1 THEN 0 ELSE more(u[k - 1], k)]
  <2> HIDE DEF more, L
  <2> QED BY <1>6
<1> HIDE DEF u
<1>9. u[1] = 0 /\ \A k \in 2..L : u[k] = more(u[k - 1], k)
  <2> HIDE DEF more, L
  <2>1. 1 \in 1..L /\ \A k \in 2..L : k \in 1..L /\ k # 1
    BY <1>1
  <2> QED BY <1>8, <2>1
<1>10. \A k \in 1..L : u[k] \in Nat
  <2> DEFINE T == {k \in 0..(L - 1) : u[k + 1] \in Nat}
  <2> HIDE DEF more, L
  <2>1. 0 \in T
    BY <1>1, <1>9
  <2>2. ASSUME NEW k \in 0..((L - 1) - 1), k \in T PROVE k + 1 \in T
    <3>1. (k + 1) + 1 \in 2..L /\ ((k + 1) + 1) - 1 = k + 1 /\ k + 1 \in 0..(L - 1)
      BY <1>1
    <3>2. u[(k + 1) + 1] = more(u[k + 1], (k + 1) + 1)
      BY <1>9, <3>1
    <3> QED BY <1>2, <2>2, <3>1, <3>2
  <2>3. \A k \in 0..(L - 1) : k \in T
    <3>1. L - 1 \in Nat
      BY <1>1
    <3> HIDE DEF T
    <3> QED BY <2>1, <2>2, <3>1, AllUpTo
  <2>4. \A k \in 1..L : k - 1 \in 0..(L - 1) /\ (k - 1) + 1 = k
    BY <1>1
  <2> QED BY <2>3, <2>4
<1>11. u \in [1..L -> Nat]
  <2> HIDE DEF more, L
  <2> QED BY <1>8, <1>10
<1> QED BY <1>7, <1>9, <1>11 DEF Added

\* The sums of a way are those of its chain, as long as they are finite.
LEMMA WaysAreChains ==
    ASSUME NEW S, NEW w, Measures(w, S), NEW V, NEW a, NEW b, NEW m, m < Infinity,
           NEW n, NEW c, NEW s, Follows(n, c, s, w, S, V, a, b, m)
    PROVE  Chain(c, S) /\ Len(c) = n /\ ChainMetres(w, c) = m
<1>1. /\ n \in Nat \ {0} /\ c \in [1..n -> S] /\ s \in [1..n -> Nat]
      /\ \A i, j \in 1..n : c[i] = c[j] => i = j
      /\ s[1] = 0 /\ s[n] = m
      /\ \A k \in 2..n : w[c[k - 1]][c[k]] <= MaxLink /\ s[k] = s[k - 1] + w[c[k - 1]][c[k]]
  BY DEF Follows
<1>2. c \in Seq(S) /\ Len(c) = n
  <2>1. c \in Seq(S)
    BY <1>1
  <2>2. DOMAIN c = 1..n /\ DOMAIN c = 1..Len(c) /\ Len(c) \in Nat
    BY <1>1, <2>1, LenProperties
  <2> QED BY <1>1, <2>1, <2>2
<1>3. Chain(c, S)
  <2>1. c # <<>>
    BY <1>1, <1>2, EmptySeq
  <2> QED BY <1>1, <1>2, <2>1 DEF Chain
<1>4. PICK u : Added(u, w, c) /\ ChainMetres(w, c) = u[Len(c)]
  BY <1>3, ChainUnfolds
<1>5. \A k \in 1..n : s[k] \in Nat /\ s[k] < Infinity
  <2>1. ASSUME NEW k \in 1..n PROVE s[k] \in Nat /\ s[k] < Infinity
    <3>1. n \in 1..n /\ k <= n
      BY <1>1
    <3>2. s[k] <= s[n]
      BY <3>1, SumsGrow
    <3>3. s[k] \in Nat /\ s[n] \in Nat
      BY <1>1, <3>1
    <3> QED BY <1>1, <3>2, <3>3, InfinityAssumption
  <2> QED BY <2>1
<1>6. ASSUME NEW k \in 2..n, u[k - 1] = s[k - 1] PROVE u[k] = s[k]
  <2>1. w[c[k - 1]][c[k]] \in Nat
    BY <1>2, <1>3, ChainSteps
  <2>2. w[c[k - 1]][c[k]] <= MaxLink /\ s[k] = s[k - 1] + w[c[k - 1]][c[k]]
    BY <1>1
  <2>3. MaxLink \in Int
    BY WalkMatrixAssumption
  <2>4. u[k] = Plus(u[k - 1], w[c[k - 1]][c[k]])
    <3>1. ~(w[c[k - 1]][c[k]] > MaxLink)
      BY <2>1, <2>2, <2>3
    <3> QED BY <1>2, <1>4, <3>1 DEF Added
  <2>5. k \in 1..n /\ k - 1 \in 1..n
    BY <1>1
  <2>6. s[k - 1] \in Nat /\ s[k] \in Nat /\ s[k] < Infinity
    BY <1>5, <2>5
  <2>7. Plus(s[k - 1], w[c[k - 1]][c[k]]) = s[k - 1] + w[c[k - 1]][c[k]]
    <3>1. s[k - 1] + w[c[k - 1]][c[k]] < Infinity
      BY <2>2, <2>6
    <3> QED BY <2>1, <2>6, <3>1, PlusIsNatural
  <2> QED BY <1>6, <2>2, <2>4, <2>7
<1>7. u[n] = s[n]
  <2> DEFINE T == {k \in 0..(n - 1) : u[k + 1] = s[k + 1]}
  <2>1. 0 \in T
    BY <1>1, <1>4 DEF Added
  <2>2. ASSUME NEW k \in 0..((n - 1) - 1), k \in T PROVE k + 1 \in T
    <3>1. (k + 1) + 1 \in 2..n /\ ((k + 1) + 1) - 1 = k + 1 /\ k + 1 \in 0..(n - 1)
      BY <1>1
    <3>2. u[k + 1] = s[k + 1]
      BY <2>2
    <3>3. u[(k + 1) + 1] = s[(k + 1) + 1]
      BY <1>6, <3>1, <3>2
    <3> QED BY <3>1, <3>3
  <2>3. \A k \in 0..(n - 1) : k \in T
    <3>1. n - 1 \in Nat
      BY <1>1
    <3> HIDE DEF T
    <3> QED BY <2>1, <2>2, <3>1, AllUpTo
  <2>4. n - 1 \in 0..(n - 1) /\ (n - 1) + 1 = n
    BY <1>1
  <2> QED BY <2>3, <2>4
<1> QED BY <1>1, <1>2, <1>3, <1>4, <1>7

\* A chain of finite length is a way.
LEMMA ChainsAreWays ==
    ASSUME NEW S, NEW w, Measures(w, S), NEW c, Chain(c, S)
    PROVE  /\ ChainMetres(w, c) \in Nat
           /\ ChainMetres(w, c) < Infinity =>
                Way(w, S, S, c[1], c[Len(c)], ChainMetres(w, c))
<1>1. PICK u : Added(u, w, c) /\ ChainMetres(w, c) = u[Len(c)]
  BY ChainUnfolds
<1> DEFINE n == Len(c)
<1>2. /\ n \in Nat \ {0} /\ \A k \in 1..n : c[k] \in S
      /\ \A k \in 2..n : w[c[k - 1]][c[k]] \in Nat
  BY ChainSteps
<1>3. /\ u \in [1..n -> Nat] /\ u[1] = 0
      /\ \A k \in 2..n : u[k] = IF w[c[k - 1]][c[k]] > MaxLink THEN Infinity
                                ELSE Plus(u[k - 1], w[c[k - 1]][c[k]])
  BY <1>1 DEF Added
<1>4. n \in 1..n /\ u[n] \in Nat
  BY <1>2, <1>3
<1>5. ASSUME u[n] < Infinity
      PROVE  \A k \in 1..n : u[k] < Infinity
  <2> DEFINE T == {k \in 0..(n - 1) : u[n - k] < Infinity}
  <2>1. 0 \in T
    BY <1>2, <1>5
  <2>2. ASSUME NEW k \in 0..((n - 1) - 1), k \in T PROVE k + 1 \in T
    <3>1. n - k \in 2..n /\ (n - k) - 1 = n - (k + 1) /\ k + 1 \in 0..(n - 1)
          /\ (n - k) - 1 \in 1..n
      BY <1>2
    <3>2. u[n - k] < Infinity
      BY <2>2
    <3>3. w[c[(n - k) - 1]][c[n - k]] \in Nat /\ u[(n - k) - 1] \in Nat
      BY <1>2, <1>3, <3>1
    <3>4. u[n - k] = IF w[c[(n - k) - 1]][c[n - k]] > MaxLink THEN Infinity
                     ELSE Plus(u[(n - k) - 1], w[c[(n - k) - 1]][c[n - k]])
      BY <1>3, <3>1
    <3>5. u[(n - k) - 1] < Infinity
      <4> HIDE DEF n
      <4>1. u[n - k] = Plus(u[(n - k) - 1], w[c[(n - k) - 1]][c[n - k]])
        BY <3>2, <3>4, InfinityAssumption
      <4>2. Plus(u[(n - k) - 1], w[c[(n - k) - 1]][c[n - k]]) < Infinity
        BY <3>2, <4>1
      <4> QED BY <3>3, <4>2, PlusIsNatural
    <3> QED BY <3>1, <3>5
  <2>3. \A k \in 0..(n - 1) : k \in T
    <3>1. n - 1 \in Nat
      BY <1>2
    <3> HIDE DEF T
    <3> QED BY <2>1, <2>2, <3>1, AllUpTo
  <2>4. ASSUME NEW k \in 1..n PROVE u[k] < Infinity
    <3>1. n - k \in 0..(n - 1) /\ n - (n - k) = k
      BY <1>2
    <3> QED BY <2>3, <3>1
  <2> QED BY <2>4
<1>6. ASSUME u[n] < Infinity, NEW k \in 2..n
      PROVE  w[c[k - 1]][c[k]] <= MaxLink /\ u[k] = u[k - 1] + w[c[k - 1]][c[k]]
  <2>1. k \in 1..n /\ k - 1 \in 1..n
    BY <1>2
  <2>2. u[k] < Infinity /\ u[k - 1] \in Nat /\ w[c[k - 1]][c[k]] \in Nat
    BY <1>2, <1>3, <1>5, <1>6, <2>1
  <2>3. u[k] = IF w[c[k - 1]][c[k]] > MaxLink THEN Infinity
               ELSE Plus(u[k - 1], w[c[k - 1]][c[k]])
    BY <1>3
  <2>4. MaxLink \in Int
    BY WalkMatrixAssumption
  <2> HIDE DEF n
  <2>5. w[c[k - 1]][c[k]] <= MaxLink /\ u[k] = Plus(u[k - 1], w[c[k - 1]][c[k]])
    BY <2>2, <2>3, <2>4, InfinityAssumption
  <2>6. Plus(u[k - 1], w[c[k - 1]][c[k]]) < Infinity
    BY <2>2, <2>5
  <2> QED BY <2>2, <2>5, <2>6, PlusIsNatural
<1>7. ASSUME u[n] < Infinity PROVE Way(w, S, S, c[1], c[n], u[n])
  <2>1. c \in [1..n -> S] /\ \A i, j \in 1..n : c[i] = c[j] => i = j
    <3>1. c \in Seq(S) /\ \A i, j \in 1..n : c[i] = c[j] => i = j
      BY DEF Chain
    <3>2. c \in [1..n -> S]
      BY <3>1, LenProperties
    <3> QED BY <3>1, <3>2
  <2>2. \A i \in 2..(n - 1) : c[i] \in S
    BY <1>2
  <2>3. Follows(n, c, u, w, S, S, c[1], c[n], u[n])
    <3> HIDE DEF n
    <3> QED BY <1>2, <1>3, <1>6, <1>7, <2>1, <2>2 DEF Follows
  <2> HIDE DEF n
  <2> QED BY <2>3 DEF Way
<1> QED BY <1>1, <1>4, <1>7

----------------------------------------------------------------------------
(***************************************************************************)
(* The chains of ClosureIsShortestWalk are all there are.                  *)
(***************************************************************************)

Vias(S, a, b) == UNION {SetToSeqs(V) : V \in SUBSET (S \ {a, b})}

LEMMA Appended ==
    ASSUME NEW S, NEW a \in S, NEW b \in S, NEW v \in Seq(S)
    PROVE  LET c == <<a>> \o v \o <<b>>
           IN  /\ c \in Seq(S) /\ Len(c) = Len(v) + 2 /\ Len(v) \in Nat
               /\ c[1] = a /\ c[Len(v) + 2] = b
               /\ \A i \in 1..Len(v) : c[i + 1] = v[i]
<1> DEFINE p == <<a>> \o v
           c == p \o <<b>>
<1>1. <<a>> \in Seq(S) /\ <<b>> \in Seq(S) /\ Len(<<a>>) = 1 /\ Len(<<b>>) = 1 /\ Len(v) \in Nat
  BY LenProperties
<1>2. /\ p \in Seq(S) /\ Len(p) = Len(v) + 1
      /\ p[1] = a /\ \A i \in 1..Len(v) : p[i + 1] = v[i]
  BY <1>1, ConcatProperties
<1>3. /\ c \in Seq(S) /\ Len(c) = Len(p) + 1
      /\ c[Len(p) + 1] = b /\ \A i \in 1..Len(p) : c[i] = p[i]
  <2> HIDE DEF p
  <2> QED BY <1>1, <1>2, ConcatProperties
<1> HIDE DEF p, c
<1>4. c[1] = a
  <2>1. 1 \in 1..Len(p)
    BY <1>1, <1>2
  <2> QED BY <1>2, <1>3, <2>1
<1>5. \A i \in 1..Len(v) : c[i + 1] = v[i]
  <2>1. \A i \in 1..Len(v) : i + 1 \in 1..Len(p)
    BY <1>1, <1>2
  <2> QED BY <1>2, <1>3, <2>1
<1>6. Len(c) = Len(v) + 2 /\ c[Len(v) + 2] = b
  <2>1. Len(p) + 1 = Len(v) + 2
    BY <1>1, <1>2
  <2> QED BY <1>3, <2>1
<1> QED BY <1>1, <1>3, <1>4, <1>5, <1>6 DEF c, p

LEMMA ViasAreChains ==
    ASSUME NEW S, IsFiniteSet(S), NEW a \in S, NEW b \in S, a # b, NEW v \in Vias(S, a, b)
    PROVE  LET c == <<a>> \o v \o <<b>>
           IN  Chain(c, S) /\ c[1] = a /\ c[Len(c)] = b
<1>1. PICK V \in SUBSET (S \ {a, b}) : v \in SetToSeqs(V)
  BY DEF Vias
<1>2. IsFiniteSet(V) /\ Cardinality(V) \in Nat
  BY <1>1, FS_Subset, FS_CardinalityType
<1> DEFINE n == Cardinality(V)
<1>3. v \in [1..n -> V] /\ \A i, j \in 1..n : i # j => v[i] # v[j]
  BY <1>1 DEF SetToSeqs
<1> HIDE DEF n
<1>4. n \in Nat
  BY <1>2 DEF n
<1>5. v \in Seq(S) /\ Len(v) = n
  <2>1. v \in [1..n -> S]
    BY <1>1, <1>3
  <2> QED BY <1>4, <2>1, LenOfFunction
<1> DEFINE c == <<a>> \o v \o <<b>>
<1>6. /\ c \in Seq(S) /\ Len(c) = n + 2
      /\ c[1] = a /\ c[n + 2] = b /\ \A i \in 1..n : c[i + 1] = v[i]
  BY <1>5, Appended
<1> HIDE DEF c
<1>7. \A i \in 2..(n + 1) : c[i] = v[i - 1] /\ i - 1 \in 1..n /\ c[i] \in V
  <2>1. ASSUME NEW i \in 2..(n + 1) PROVE c[i] = v[i - 1] /\ i - 1 \in 1..n /\ c[i] \in V
    <3>1. i - 1 \in 1..n /\ (i - 1) + 1 = i
      BY <1>4
    <3>2. c[(i - 1) + 1] = v[i - 1]
      BY <1>6, <3>1
    <3> QED BY <1>3, <3>1, <3>2
  <2> QED BY <2>1
<1>8. \A i \in 1..(n + 2) : i = 1 \/ i = n + 2 \/ i \in 2..(n + 1)
  BY <1>4
<1>9. a \notin V /\ b \notin V
  BY <1>1
<1>10. ASSUME NEW i \in 1..(n + 2), NEW j \in 1..(n + 2), c[i] = c[j] PROVE i = j
  <2>1. CASE i \in 2..(n + 1) /\ j \in 2..(n + 1)
    <3>1. v[i - 1] = v[j - 1] /\ i - 1 \in 1..n /\ j - 1 \in 1..n
      BY <1>7, <1>10, <2>1
    <3>2. i - 1 = j - 1
      BY <1>3, <3>1
    <3> QED BY <2>1, <3>2
  <2> QED BY <1>6, <1>7, <1>8, <1>9, <1>10, <2>1
<1>11. Chain(c, S)
  <2>1. c # <<>>
    BY <1>4, <1>6, EmptySeq
  <2> QED BY <1>6, <1>10, <2>1 DEF Chain
<1> QED BY <1>6, <1>11 DEF c

LEMMA ChainsAreVias ==
    ASSUME NEW S, NEW c, Chain(c, S), c[1] # c[Len(c)]
    PROVE  \E v \in Vias(S, c[1], c[Len(c)]) : c = <<c[1]>> \o v \o <<c[Len(c)]>>
<1> DEFINE n == Len(c)
           a == c[1]
           b == c[n]
           v == [i \in 1..(n - 2) |-> c[i + 1]]
           V == {c[i + 1] : i \in 1..(n - 2)}
<1>1. /\ c \in Seq(S) /\ c # <<>> /\ n \in Nat
      /\ \A i, j \in 1..n : c[i] = c[j] => i = j
  BY LenProperties DEF Chain
<1>2. n >= 2
  <2>1. n # 0
    BY <1>1, EmptySeq
  <2>2. n # 1
    BY <1>1
  <2> QED BY <1>1, <2>1, <2>2
<1>3. \A i \in 1..n : c[i] \in S
  BY <1>1, ElementOfSeq
<1>4. \A i \in 1..(n - 2) : i + 1 \in 1..n /\ i + 1 # 1 /\ i + 1 # n
  BY <1>1
<1>5. 1 \in 1..n /\ n \in 1..n /\ n - 2 \in Nat /\ n \in Nat
  BY <1>1, <1>2
<1> HIDE DEF n
<1>6. V \in SUBSET (S \ {a, b})
  BY <1>1, <1>3, <1>4, <1>5
<1>7. v \in [1..(n - 2) -> V] /\ \A i \in 1..(n - 2) : v[i] = c[i + 1]
  OBVIOUS
<1>8. ASSUME NEW i \in 1..(n - 2), NEW j \in 1..(n - 2), v[i] = v[j] PROVE i = j
  <2>1. c[i + 1] = c[j + 1]
    BY <1>8
  <2>2. i + 1 = j + 1
    BY <1>1, <1>4, <2>1
  <2> QED BY <2>2
<1>9. Cardinality(V) = n - 2
  <2>1. \A x \in V : \E i \in 1..(n - 2) : v[i] = x
    OBVIOUS
  <2> HIDE DEF v, V
  <2>2. v \in Injection(1..(n - 2), V)
    BY <1>7, <1>8, Fun_IsInj
  <2>3. v \in Surjection(1..(n - 2), V)
    BY <1>7, <2>1, Fun_IsSurj
  <2>4. v \in Bijection(1..(n - 2), V)
    BY <2>2, <2>3 DEF Bijection
  <2>5. IsFiniteSet(1..(n - 2)) /\ Cardinality(1..(n - 2)) = n - 2
    BY <1>5, FS_Interval
  <2>6. ExistsBijection(1..(n - 2), V)
    BY <2>4 DEF ExistsBijection
  <2> QED BY <2>5, <2>6, FS_Bijection
<1>10. v \in SetToSeqs(V)
  <2>1. v \in [1..Cardinality(V) -> V]
    BY <1>7, <1>9
  <2>2. \A i, j \in 1..Cardinality(V) : i # j => v[i] # v[j]
    BY <1>8, <1>9
  <2> HIDE DEF v, V
  <2> QED BY <2>1, <2>2 DEF SetToSeqs
<1>11. v \in Vias(S, a, b)
  <2> HIDE DEF v, V, a, b
  <2> QED BY <1>6, <1>10 DEF Vias
<1> DEFINE e == <<a>> \o v \o <<b>>
<1>12. e = c
  <2>1. v \in Seq(S) /\ Len(v) = n - 2
    <3>1. v \in [1..(n - 2) -> S]
      BY <1>3, <1>4
    <3> HIDE DEF v
    <3> QED BY <1>5, <3>1, LenOfFunction
  <2>2. a \in S /\ b \in S
    BY <1>3, <1>5
  <2> HIDE DEF a, b, v
  <2>3. /\ e \in Seq(S) /\ Len(e) = (n - 2) + 2 /\ e[1] = a /\ e[(n - 2) + 2] = b
        /\ \A i \in 1..(n - 2) : e[i + 1] = v[i]
    BY <2>1, <2>2, Appended
  <2> HIDE DEF e
  <2>4. (n - 2) + 2 = n
    BY <1>5
  <2>5. ASSUME NEW i \in 1..n PROVE e[i] = c[i]
    <3>1. i = 1 \/ i = n \/ (i - 1 \in 1..(n - 2) /\ (i - 1) + 1 = i)
      BY <1>5
    <3>2. CASE i - 1 \in 1..(n - 2) /\ (i - 1) + 1 = i
      <4>1. e[(i - 1) + 1] = v[i - 1] /\ v[i - 1] = c[(i - 1) + 1]
        BY <1>7, <2>3, <3>2
      <4> QED BY <3>2, <4>1
    <3> QED BY <2>3, <2>4, <3>1, <3>2 DEF a, b
  <2> QED BY <1>1, <2>3, <2>4, <2>5, SeqEqual DEF n
<1> QED BY <1>11, <1>12 DEF n

LEMMA LeastIsMin ==
    ASSUME NEW X \in SUBSET Int, NEW x \in X, \A y \in X : x <= y
    PROVE  Min(X) = x
<1>1. \A z \in X : (\A y \in X : z <= y) => z = x
  OBVIOUS
<1> QED BY <1>1 DEF Min

\* The length of the chain from a over v to b.
ViaMetres(w, a, b, v) == ChainMetres(w, <<a>> \o v \o <<b>>)

\* The shortest of the chains of links from a to b.
ShortestVia(w, S, a, b) ==
    Min({Infinity} \cup {ViaMetres(w, a, b, v) : v \in Vias(S, a, b)})

\* The closure leaves a direct route alone and fills every other pair with the
\* shortest of the chains of links between the two.
LEMMA ClosureIsShortest ==
    ASSUME NEW S, IsFiniteSet(S), S \subseteq Nat, NEW w, Measures(w, S),
           NEW a \in S, NEW b \in S, a # b
    PROVE  Closure(w, S)[a][b] =
              IF w[a][b] < Infinity THEN w[a][b]
              ELSE ShortestVia(w, S, a, b)
<1> DEFINE d == Closure(w, S)[a][b]
           metres(v) == ViaMetres(w, a, b, v)
           X == {Infinity} \cup {metres(v) : v \in Vias(S, a, b)}
<1>1. CASE w[a][b] < Infinity
  BY <1>1, ClosureKeepsRoutes
<1>2. CASE ~(w[a][b] < Infinity)
  <2>1. /\ d \in 0..Infinity
        /\ d < Infinity => \E m : Way(w, S, S, a, b, m) /\ m \in Nat /\ m <= d
        /\ \A m : Way(w, S, S, a, b, m) => d <= m
    BY <1>2, ClosureMeasuresWays
  <2> HIDE DEF d
  <2>2. Infinity \in Nat
    BY InfinityAssumption
  <2>3. ASSUME NEW v \in Vias(S, a, b)
        PROVE  metres(v) \in Nat /\ d <= metres(v)
    <3> DEFINE c == <<a>> \o v \o <<b>>
    <3>1. Chain(c, S) /\ c[1] = a /\ c[Len(c)] = b
      BY ViasAreChains
    <3> HIDE DEF c
    <3>2. /\ ChainMetres(w, c) \in Nat
          /\ ChainMetres(w, c) < Infinity => Way(w, S, S, c[1], c[Len(c)], ChainMetres(w, c))
      BY <3>1, ChainsAreWays
    <3>3. d <= ChainMetres(w, c)
      BY <2>1, <2>2, <3>1, <3>2
    <3> QED BY <3>2, <3>3 DEF c, ViaMetres
  <2> HIDE DEF metres
  <2>4. X \in SUBSET Int /\ \A y \in X : d <= y
    BY <2>1, <2>2, <2>3
  <2>5. d \in X
    <3>1. CASE d = Infinity
      <4>1. Infinity \in X
        BY Zenon
      <4> HIDE DEF X
      <4> QED BY <3>1, <4>1
    <3>2. CASE d < Infinity
      <4>1. PICK m : Way(w, S, S, a, b, m) /\ m \in Nat /\ m <= d
        BY <2>1, <3>2
      <4>2. d = m /\ m < Infinity
        BY <2>1, <2>2, <3>2, <4>1
      <4>3. PICK n, c, s : Follows(n, c, s, w, S, S, a, b, m)
        BY <4>1 DEF Way
      <4>4. Chain(c, S) /\ Len(c) = n /\ ChainMetres(w, c) = m
        BY <4>2, <4>3, WaysAreChains
      <4>5. c[1] = a /\ c[n] = b
        BY <4>3 DEF Follows
      <4>6. PICK v \in Vias(S, a, b) : c = <<a>> \o v \o <<b>>
        BY <4>4, <4>5, ChainsAreVias
      <4>7. metres(v) = d
        BY <4>2, <4>4, <4>6 DEF metres, ViaMetres
      <4> QED BY <4>7
    <3> QED BY <2>1, <2>2, <3>1, <3>2
  <2> HIDE DEF X
  <2>6. Min(X) = d
    BY <2>4, <2>5, LeastIsMin
  <2>7. ShortestVia(w, S, a, b) = Min(X)
    BY Zenon DEF ShortestVia, X, metres
  <2> QED BY <1>2, <2>6, <2>7 DEF d
<1> QED BY <1>1, <1>2

----------------------------------------------------------------------------
(***************************************************************************)
(* The largest component: there is one that wins every tie.                *)
(***************************************************************************)

LEMMA MinIsLeast ==
    ASSUME NEW X \in SUBSET Nat, X # {}
    PROVE  Min(X) \in X /\ \A y \in X : Min(X) <= y
<1>1. PICK x \in X : \A y \in X : x <= y
  BY LeastNatural
<1>2. Min(X) = x
  BY <1>1, LeastIsMin
<1> QED BY <1>1, <1>2

\* c is the largest of the components, or the first of those.
Wins(c, w, S) ==
    \A d \in {Component(w, MaxLink, S, {a}) : a \in S} \ {c} :
        \/ Cardinality(c) > Cardinality(d)
        \/ Cardinality(c) = Cardinality(d) /\ Min(c) < Min(d)

LEMMA LargestExists ==
    ASSUME NEW S, IsFiniteSet(S), S \subseteq Nat, S # {}, NEW w, Measures(w, S)
    PROVE  \E a \in S : Wins(Component(w, MaxLink, S, {a}), w, S)
<1> DEFINE C(x) == Component(w, MaxLink, S, {x})
           N == Cardinality(S)
<1>1. ASSUME NEW x \in S
      PROVE  /\ C(x) \in SUBSET S /\ x \in C(x) /\ Cardinality(C(x)) \in 0..N
             /\ Min(C(x)) \in C(x) /\ Min(C(x)) \in Nat
  <2>1. {x} \in SUBSET S /\ {x} # {}
    OBVIOUS
  <2>2. LET D == Component(w, MaxLink, S, {x})
        IN  D \in SUBSET S /\ {x} \subseteq D
    BY <2>1, ComponentIsLeastClosed
  <2>3. C(x) \in SUBSET S /\ x \in C(x)
    BY <2>2
  <2> HIDE DEF C
  <2>4. C(x) \in SUBSET Nat /\ C(x) # {}
    BY <2>3
  <2>5. Min(C(x)) \in C(x)
    BY <2>4, MinIsLeast
  <2>6. Cardinality(C(x)) \in 0..N
    <3>1. Cardinality(C(x)) <= N /\ Cardinality(C(x)) \in Nat /\ N \in Nat
      BY <2>3, FS_Subset, FS_CardinalityType
    <3> QED BY <3>1
  <2> QED BY <2>3, <2>4, <2>5, <2>6
<1>2. ASSUME NEW x \in S, NEW y \in S, Min(C(x)) = Min(C(y)) PROVE C(x) = C(y)
  <2>1. MaxLink \in Nat
    BY WalkMatrixAssumption, InfinityAssumption
  <2>2. Min(C(x)) \in C(x) /\ Min(C(x)) \in C(y)
    BY <1>1, <1>2
  <2> QED BY <2>1, <2>2, ComponentsPart
<1>3. N \in Nat
  BY FS_CardinalityType
<1> HIDE DEF C, N
<1>4. PICK x \in S : \A y \in S : Cardinality(C(y)) <= Cardinality(C(x))
  <2> DEFINE T == {N - Cardinality(C(y)) : y \in S}
  <2>1. T \subseteq Nat /\ T # {}
    <3>1. \A y \in S : N - Cardinality(C(y)) \in Nat
      BY <1>1, <1>3
    <3> QED BY <3>1
  <2>2. PICK t \in T : \A u \in T : t <= u
    <3> HIDE DEF T
    <3> QED BY <2>1, LeastNatural
  <2>3. PICK x \in S : t = N - Cardinality(C(x))
    BY <2>2
  <2>4. ASSUME NEW y \in S PROVE Cardinality(C(y)) <= Cardinality(C(x))
    <3>1. N - Cardinality(C(x)) <= N - Cardinality(C(y))
      BY <2>2, <2>3
    <3>2. Cardinality(C(x)) \in Nat /\ Cardinality(C(y)) \in Nat
      BY <1>1
    <3> QED BY <1>3, <3>1, <3>2
  <2> QED BY <2>4
<1>5. PICK z \in S : /\ Cardinality(C(z)) = Cardinality(C(x))
                     /\ \A y \in S : Cardinality(C(y)) = Cardinality(C(x)) => Min(C(z)) <= Min(C(y))
  <2> DEFINE T == {Min(C(y)) : y \in {v \in S : Cardinality(C(v)) = Cardinality(C(x))}}
  <2>1. T \subseteq Nat /\ T # {}
    BY <1>1
  <2>2. PICK t \in T : \A u \in T : t <= u
    <3> HIDE DEF T
    <3> QED BY <2>1, LeastNatural
  <2>3. PICK z \in S : t = Min(C(z)) /\ Cardinality(C(z)) = Cardinality(C(x))
    BY <2>2
  <2> QED BY <2>2, <2>3
<1>6. ASSUME NEW y \in S, C(y) # C(z)
      PROVE  \/ Cardinality(C(z)) > Cardinality(C(y))
             \/ Cardinality(C(z)) = Cardinality(C(y)) /\ Min(C(z)) < Min(C(y))
  <2>1. /\ Cardinality(C(y)) \in Nat /\ Cardinality(C(x)) \in Nat /\ Cardinality(C(z)) \in Nat
        /\ Min(C(y)) \in Nat /\ Min(C(z)) \in Nat
    BY <1>1
  <2>2. Min(C(y)) # Min(C(z))
    BY <1>2, <1>6
  <2>3. Cardinality(C(y)) <= Cardinality(C(x)) /\ Cardinality(C(z)) = Cardinality(C(x))
        /\ (Cardinality(C(y)) = Cardinality(C(x)) => Min(C(z)) <= Min(C(y)))
    BY <1>4, <1>5
  <2> QED BY <2>1, <2>2, <2>3
<1>7. Wins(C(z), w, S)
  <2>1. \A d \in {C(y) : y \in S} \ {C(z)} :
           \/ Cardinality(C(z)) > Cardinality(d)
           \/ Cardinality(C(z)) = Cardinality(d) /\ Min(C(z)) < Min(d)
    BY <1>6
  <2> QED BY <2>1 DEF Wins, C
<1> QED BY <1>7 DEF C

LEMMA LargestIsComponent ==
    ASSUME NEW S, IsFiniteSet(S), S \subseteq Nat, NEW w, Measures(w, S)
    PROVE  /\ LargestComponent(w, S) \in SUBSET S
           /\ S # {} => \E a \in S : LargestComponent(w, S) = Component(w, MaxLink, S, {a})
<1>1. CASE S = {}
  BY <1>1 DEF LargestComponent
<1>2. CASE S # {}
  <2> DEFINE K == {Component(w, MaxLink, S, {a}) : a \in S}
  <2>1. \E c \in K : Wins(c, w, S)
    BY <1>2, LargestExists
  <2>2. (CHOOSE c \in K : Wins(c, w, S)) \in K
    <3> HIDE DEF K
    <3> QED BY <2>1
  <2>3. LargestComponent(w, S) = CHOOSE c \in K : Wins(c, w, S)
    BY <1>2 DEF LargestComponent, Wins
  <2>4. PICK a \in S : LargestComponent(w, S) = Component(w, MaxLink, S, {a})
    BY <2>2, <2>3
  <2>5. {a} \in SUBSET S /\ {a} # {}
    OBVIOUS
  <2>6. LET D == Component(w, MaxLink, S, {a})
        IN  D \in SUBSET S
    BY <2>5, ComponentIsLeastClosed
  <2> QED BY <2>4, <2>6
<1> QED BY <1>1, <1>2

----------------------------------------------------------------------------
(***************************************************************************)
(* What a request comes to be about.                                       *)
(***************************************************************************)

LEMMA FunctionImageIsFinite ==
    ASSUME NEW S, IsFiniteSet(S), NEW f, DOMAIN f = S
    PROVE  IsFiniteSet({f[x] : x \in S})
<1> DEFINE T == {f[x] : x \in S}
           g == [x \in S |-> f[x]]
<1>1. g \in [S -> T] /\ \A t \in T : \E x \in S : g[x] = t
  OBVIOUS
<1>2. g \in Surjection(S, T)
  <2> HIDE DEF g, T
  <2> QED BY <1>1, Fun_IsSurj
<1> QED BY <1>2, FS_Surjection

\* A listing of a finite set visits every member, none of them twice.
LEMMA ListingsAreOnto ==
    ASSUME NEW S, IsFiniteSet(S), NEW q \in SetToSeqs(S)
    PROVE  /\ Cardinality(S) \in Nat
           /\ q \in [1..Cardinality(S) -> S] /\ q \in Seq(S) /\ Len(q) = Cardinality(S)
           /\ \A i, j \in 1..Cardinality(S) : q[i] = q[j] => i = j
           /\ \A x \in S : \E i \in 1..Cardinality(S) : q[i] = x
<1> DEFINE n == Cardinality(S)
<1>1. n \in Nat
  BY FS_CardinalityType
<1>2. q \in [1..n -> S] /\ \A i, j \in 1..n : i # j => q[i] # q[j]
  BY DEF SetToSeqs
<1>3. n = Cardinality(S)
  OBVIOUS
<1> HIDE DEF n
<1>4. q \in Seq(S) /\ Len(q) = n
  BY <1>1, <1>2, LenOfFunction
<1>5. q \in Injection(1..n, S)
  BY <1>2, Fun_IsInj
<1>6. IsFiniteSet(1..n) /\ Cardinality(1..n) = n
  BY <1>1, FS_Interval
<1>7. q \in Surjection(1..n, S)
  BY <1>3, <1>5, <1>6, FS_Injection
<1>8. \A x \in S : \E i \in 1..n : q[i] = x
  BY <1>7 DEF Surjection
<1> QED BY <1>1, <1>2, <1>3, <1>4, <1>8 DEF n

\* The cluster is augmented with what is near, and keeps what it had.
LEMMA AugmentationsAreNear ==
    ASSUME IsFiniteSet(Nearby), NEW x \in Augmentations
    PROVE  x \subseteq asked \cup Nearby
<1>1. IsFiniteSet(CohesiveGroups)
  <2>1. CohesiveGroups \subseteq SUBSET Nearby
    BY DEF CohesiveGroups, Groups
  <2>2. IsFiniteSet(SUBSET Nearby)
    BY FS_SUBSET
  <2> QED BY <2>1, <2>2, FS_Subset
<1>2. PICK queue \in SetToSeqs(CohesiveGroups) :
         x = LET ids[k \in 0..Len(queue)] == IF k = 0 THEN asked ELSE Grown(ids[k - 1], queue[k])
             IN  ids[Len(queue)]
  BY DEF Augmentations
<1> DEFINE n == Len(queue)
           V == SUBSET (asked \cup Nearby)
           P(f) == f = [k \in 0..n |-> IF k = 0 THEN asked ELSE Grown(f[k - 1], queue[k])]
           step == [y \in (1..n) \X V |-> Grown(y[2], queue[y[1]])]
<1>3. n \in Nat /\ \A k \in 1..n : queue[k] \subseteq Nearby
  <2>1. /\ Len(queue) = Cardinality(CohesiveGroups)
        /\ Cardinality(CohesiveGroups) \in Nat
        /\ queue \in [1..Cardinality(CohesiveGroups) -> CohesiveGroups]
    BY <1>1, ListingsAreOnto
  <2>2. \A g \in CohesiveGroups : g \subseteq Nearby
    BY DEF CohesiveGroups, Groups
  <2> QED BY <2>1, <2>2
<1>4. x = (CHOOSE f : P(f))[n]
  BY <1>2
<1> HIDE DEF n
<1>5. \A y \in V, k \in 1..n : Grown(y, queue[k]) \in V
  BY <1>3 DEF Grown
<1>6. step \in [(1..n) \X V -> V]
  BY <1>5
<1>7. asked \in V
  OBVIOUS
<1>8. PICK g : Runs(g, n, V, asked, step)
  <2> HIDE DEF V, step
  <2> QED BY <1>3, <1>6, <1>7, RecursionExists
<1>9. P(g)
  <2>1. g \in [0..n -> V] /\ g[0] = asked /\ \A k \in 1..n : g[k] = step[<<k, g[k - 1]>>]
    BY <1>8 DEF Runs
  <2>2. ASSUME NEW k \in 1..n PROVE g[k] = Grown(g[k - 1], queue[k])
    <3>1. k - 1 \in 0..n
      BY <1>3
    <3>2. <<k, g[k - 1]>> \in (1..n) \X V
      BY <2>1, <3>1
    <3>3. step[<<k, g[k - 1]>>] = Grown(g[k - 1], queue[k])
      BY <3>2
    <3> QED BY <2>1, <3>3
  <2>3. \A k \in 0..n : k = 0 \/ k \in 1..n
    BY <1>3
  <2>4. DOMAIN g = 0..n /\ g = [k \in DOMAIN g |-> g[k]]
    BY <2>1
  <2> HIDE DEF V, step
  <2> QED BY <2>1, <2>2, <2>3, <2>4
<1>10. P(CHOOSE f : P(f))
  <2> HIDE DEF P
  <2> QED BY <1>9
<1> DEFINE u == CHOOSE f : P(f)
<1>11. u = [k \in 0..n |-> IF k = 0 THEN asked ELSE Grown(u[k - 1], queue[k])]
  BY <1>10
<1> HIDE DEF u, P
<1> DEFINE T == {k \in 0..n : u[k] \in V}
<1>12. 0 \in T
  BY <1>3, <1>7, <1>11
<1>13. ASSUME NEW k \in 0..(n - 1), k \in T PROVE k + 1 \in T
  <2>1. k + 1 \in 1..n /\ k + 1 \in 0..n /\ (k + 1) - 1 = k /\ k + 1 # 0
    BY <1>3
  <2>2. u[k + 1] = Grown(u[k], queue[k + 1])
    BY <1>11, <2>1
  <2>3. u[k] \in V
    BY <1>13
  <2>4. u[k + 1] \in V
    BY <1>5, <2>1, <2>2, <2>3
  <2> QED BY <2>1, <2>4
<1>14. n \in T
  <2>1. \A k \in 0..n : k \in T
    <3> HIDE DEF T
    <3> QED BY <1>3, <1>12, <1>13, AllUpTo
  <2> QED BY <1>3, <2>1
<1> QED BY <1>4, <1>14 DEF u

----------------------------------------------------------------------------
(***************************************************************************)
(* What expandForCompleteAdventures makes of a cluster: every adventure is *)
(* a candidate or is reported, as a whole or in what was asked for.        *)
(***************************************************************************)

Plain == {c \in asked \cap Owned : Adventure[c] = None}

Dropped(ds) == {d.id : d \in ds}

\* What Admit has come to, of candidates C, when the adventures of rows that
\* come before the next have had their turn.
Admitted(so, C, rows, k) ==
    /\ so \in [ids : SUBSET C, drops : SUBSET [id : C, reason : {"unreachable", "candidate-cap"}]]
    /\ Plain \subseteq so.ids
    /\ so.ids \cup Dropped(so.drops) \subseteq
            Plain \cup {c \in C : \E i \in 1..k : c \in StagesOf(rows[i])}
    /\ \A i \in 1..k : asked \cap StagesOf(rows[i]) \subseteq so.ids \cup Dropped(so.drops)
    /\ so.ids \cap Dropped(so.drops) = {}
    /\ \A d, e \in so.drops : d.id = e.id => d = e

LEMMA AdmitAdmits ==
    ASSUME NEW C, asked \subseteq C, NEW n \in Nat, NEW rows \in [1..n -> Touched],
           \A i \in 1..n : StagesOf(rows[i]) \subseteq C,
           \A i, j \in 1..n : rows[i] = rows[j] => i = j,
           NEW k \in 1..n, NEW so, Admitted(so, C, rows, k - 1)
    PROVE  Admitted(Admit(rows[k], so), C, rows, k)
<1> DEFINE stages == StagesOf(rows[k])
           reported(reason) ==
               [so EXCEPT !.drops = @ \cup {[id |-> c, reason |-> reason] : c \in stages}]
           R == {"unreachable", "candidate-cap"}
           past == {c \in C : \E i \in 1..(k - 1) : c \in StagesOf(rows[i])}
           upto == {c \in C : \E i \in 1..k : c \in StagesOf(rows[i])}
<1>1. /\ so \in [ids : SUBSET C, drops : SUBSET [id : C, reason : R]]
      /\ Plain \subseteq so.ids
      /\ so.ids \cup Dropped(so.drops) \subseteq Plain \cup past
      /\ \A i \in 1..(k - 1) : asked \cap StagesOf(rows[i]) \subseteq so.ids \cup Dropped(so.drops)
      /\ so.ids \cap Dropped(so.drops) = {}
      /\ \A d, e \in so.drops : d.id = e.id => d = e
  BY DEF Admitted
<1>2. stages \subseteq C /\ upto = past \cup stages
  <2>1. stages \subseteq C
    OBVIOUS
  <2>2. \A i \in 1..k : i \in 1..(k - 1) \/ i = k
    OBVIOUS
  <2>3. \A i \in 1..(k - 1) : i \in 1..k
    OBVIOUS
  <2> HIDE DEF stages
  <2>4. \A i \in 1..k : StagesOf(rows[i]) = stages \/ i \in 1..(k - 1)
    BY <2>2 DEF stages
  <2>5. StagesOf(rows[k]) = stages /\ k \in 1..k
    BY DEF stages
  <2> QED BY <2>1, <2>3, <2>4, <2>5
<1>3. stages \cap (Plain \cup past) = {}
  <2>1. \A c \in stages : Adventure[c] = rows[k]
    BY DEF StagesOf
  <2>2. rows[k] # None
    BY DEF Touched
  <2>3. \A i \in 1..(k - 1) : i \in 1..n /\ i # k
    OBVIOUS
  <2>4. ASSUME NEW i \in 1..(k - 1), NEW c \in StagesOf(rows[i]) PROVE c \notin stages
    BY <2>1, <2>3 DEF StagesOf
  <2> HIDE DEF stages
  <2> QED BY <2>1, <2>2, <2>4 DEF Plain
<1> HIDE DEF stages, past, upto, R
<1>4. \A i \in 1..k : i \in 1..(k - 1) \/ StagesOf(rows[i]) = stages
  BY DEF stages
<1>5. ASSUME NEW reason \in R PROVE Admitted(reported(reason), C, rows, k)
  <2> DEFINE new == {[id |-> c, reason |-> reason] : c \in stages}
             x == reported(reason)
  <2>1. x.ids = so.ids /\ x.drops = so.drops \cup new
    BY <1>1
  <2>2. new \in SUBSET [id : C, reason : R] /\ Dropped(new) = stages
    <3>1. new \in SUBSET [id : C, reason : R]
      BY <1>2, <1>5
    <3>2. \A c \in stages : [id |-> c, reason |-> reason] \in new
      OBVIOUS
    <3>3. \A d \in new : d.id \in stages
      OBVIOUS
    <3>4. \A c \in stages : \E d \in new : d.id = c
      BY <3>2
    <3> HIDE DEF new
    <3>5. Dropped(new) = stages
      BY <3>3, <3>4 DEF Dropped
    <3> QED BY <3>1, <3>5
  <2>3. \A d, e \in new : d.id = e.id => d = e
    OBVIOUS
  <2>4. x \in [ids : SUBSET C, drops : SUBSET [id : C, reason : R]]
    BY <1>1, <2>1, <2>2
  <2> HIDE DEF new, x
  <2>5. Dropped(x.drops) = Dropped(so.drops) \cup stages
    BY <2>1, <2>2 DEF Dropped
  <2>6. x.ids \cap Dropped(x.drops) = {}
    BY <1>1, <1>3, <2>1, <2>5
  <2>7. ASSUME NEW d \in x.drops, NEW e \in x.drops, d.id = e.id PROVE d = e
    <3>1. \A y \in so.drops : y.id \in Plain \cup past
      BY <1>1 DEF Dropped
    <3>2. \A y \in new : y.id \in stages
      BY <2>2 DEF Dropped
    <3> QED BY <1>1, <1>3, <2>1, <2>3, <2>7, <3>1, <3>2
  <2>8. x.ids \cup Dropped(x.drops) \subseteq Plain \cup upto
    BY <1>1, <1>2, <2>1, <2>5
  <2>9. \A i \in 1..k : asked \cap StagesOf(rows[i]) \subseteq x.ids \cup Dropped(x.drops)
    BY <1>1, <1>4, <2>1, <2>5
  <2>10. Plain \subseteq x.ids
    BY <1>1, <2>1
  <2> QED BY <2>4, <2>6, <2>7, <2>8, <2>9, <2>10 DEF Admitted, x, upto, R
<1>6. ASSUME NEW some, asked \cap stages \subseteq some, some \subseteq stages
      PROVE  Admitted([so EXCEPT !.ids = @ \cup some], C, rows, k)
  <2> DEFINE x == [so EXCEPT !.ids = @ \cup some]
  <2>1. x.ids = so.ids \cup some /\ x.drops = so.drops
    BY <1>1
  <2>2. x \in [ids : SUBSET C, drops : SUBSET [id : C, reason : R]]
    BY <1>1, <1>2, <1>6, <2>1
  <2> HIDE DEF x
  <2>3. x.ids \cap Dropped(x.drops) = {}
    BY <1>1, <1>3, <1>6, <2>1
  <2>4. x.ids \cup Dropped(x.drops) \subseteq Plain \cup upto
    BY <1>1, <1>2, <1>6, <2>1
  <2>5. \A i \in 1..k : asked \cap StagesOf(rows[i]) \subseteq x.ids \cup Dropped(x.drops)
    BY <1>1, <1>4, <1>6, <2>1
  <2>6. \A d, e \in x.drops : d.id = e.id => d = e
    BY <1>1, <2>1
  <2>7. Plain \subseteq x.ids
    BY <1>1, <2>1
  <2> QED BY <2>2, <2>3, <2>4, <2>5, <2>6, <2>7 DEF Admitted, x, upto, R
<1>7. \/ \E reason \in R : Admit(rows[k], so) = reported(reason)
      \/ Admit(rows[k], so) = [so EXCEPT !.ids = @ \cup (stages \cap asked)]
      \/ Admit(rows[k], so) = [so EXCEPT !.ids = @ \cup stages]
  BY DEF Admit, R, stages
<1> HIDE DEF reported
<1>8. CASE \E reason \in R : Admit(rows[k], so) = reported(reason)
  BY <1>5, <1>8
<1>9. CASE Admit(rows[k], so) = [so EXCEPT !.ids = @ \cup (stages \cap asked)]
  <2>1. asked \cap stages \subseteq stages \cap asked /\ stages \cap asked \subseteq stages
    OBVIOUS
  <2> QED BY <1>6, <1>9, <2>1
<1>10. CASE Admit(rows[k], so) = [so EXCEPT !.ids = @ \cup stages]
  BY <1>6, <1>10
<1> QED BY <1>7, <1>8, <1>9, <1>10

\* Every adventure has its turn: what was asked for and is no archived stage
\* is a candidate or reported, never both, with one reason.
LEMMA ExpansionsAnswer ==
    ASSUME NEW C, IsFiniteSet(asked), asked \subseteq Owned, asked \subseteq C,
           \A a \in Touched : StagesOf(a) \subseteq C, NEW x \in Expansions
    PROVE  /\ x.ids \subseteq C /\ Dropped(x.drops) \subseteq C
           /\ asked \ Archived \subseteq x.ids \cup Dropped(x.drops)
           /\ x.ids \cap Dropped(x.drops) = {}
           /\ \A d, e \in x.drops : d.id = e.id => d = e
<1>1. IsFiniteSet(Touched) /\ IsFiniteSet(ByAdventure)
  <2> DEFINE f == [c \in asked |-> Adventure[c]]
  <2>1. IsFiniteSet({f[c] : c \in asked})
    <3>1. DOMAIN f = asked
      OBVIOUS
    <3> HIDE DEF f
    <3> QED BY <3>1, FunctionImageIsFinite
  <2>2. Touched \subseteq {f[c] : c \in asked}
    BY DEF Touched
  <2>3. IsFiniteSet(Touched)
    <3> HIDE DEF f
    <3> QED BY <2>1, <2>2, FS_Subset
  <2> QED BY <2>3, FS_Subset DEF ByAdventure
<1> DEFINE first == [ids |-> Plain, drops |-> {}]
<1>2. PICK rows \in SetToSeqs(ByAdventure) :
         x = LET so[k \in 0..Len(rows)] == IF k = 0 THEN first ELSE Admit(rows[k], so[k - 1])
             IN  so[Len(rows)]
  BY DEF Expansions, Plain
<1> DEFINE n == Len(rows)
           P(f) == f = [k \in 0..n |-> IF k = 0 THEN first ELSE Admit(rows[k], f[k - 1])]
<1>3. /\ n \in Nat /\ rows \in [1..n -> Touched]
      /\ \A i, j \in 1..n : rows[i] = rows[j] => i = j
      /\ \A a \in ByAdventure : \E i \in 1..n : rows[i] = a
  <2>1. /\ n = Cardinality(ByAdventure)
        /\ Cardinality(ByAdventure) \in Nat
        /\ rows \in [1..Cardinality(ByAdventure) -> ByAdventure]
        /\ \A i, j \in 1..Cardinality(ByAdventure) : rows[i] = rows[j] => i = j
        /\ \A a \in ByAdventure : \E i \in 1..Cardinality(ByAdventure) : rows[i] = a
    BY <1>1, ListingsAreOnto
  <2>2. ByAdventure \subseteq Touched
    BY DEF ByAdventure
  <2> HIDE DEF n
  <2>3. rows \in [1..n -> ByAdventure]
    BY <2>1
  <2>4. rows \in [1..n -> Touched]
    BY <2>2, <2>3
  <2> QED BY <2>1, <2>4
<1>4. x = (CHOOSE f : P(f))[n]
  BY <1>2
<1> HIDE DEF n
<1>5. \A i \in 1..n : StagesOf(rows[i]) \subseteq C
  BY <1>3
<1> DEFINE R == {"unreachable", "candidate-cap"}
           V == [ids : SUBSET C, drops : SUBSET [id : C, reason : R]]
           step == [y \in (1..n) \X V |-> Admit(rows[y[1]], y[2])]
<1>6. ASSUME NEW k \in 1..n, NEW so \in V PROVE Admit(rows[k], so) \in V
  <2> DEFINE stages == StagesOf(rows[k])
             reported(reason) ==
               [so EXCEPT !.drops = @ \cup {[id |-> c, reason |-> reason] : c \in stages}]
  <2>1. \/ \E reason \in R : Admit(rows[k], so) = reported(reason)
        \/ Admit(rows[k], so) = [so EXCEPT !.ids = @ \cup (stages \cap asked)]
        \/ Admit(rows[k], so) = [so EXCEPT !.ids = @ \cup stages]
    BY DEF Admit
  <2>2. stages \subseteq C
    BY <1>5
  <2> HIDE DEF stages
  <2>3. \A reason \in R : {[id |-> c, reason |-> reason] : c \in stages} \subseteq [id : C, reason : R]
    BY <2>2
  <2>4. \A reason \in R : reported(reason) \in V
    BY <2>3
  <2> HIDE DEF reported, R
  <2>5. CASE \E reason \in R : Admit(rows[k], so) = reported(reason)
    BY <2>4, <2>5
  <2>6. CASE Admit(rows[k], so) = [so EXCEPT !.ids = @ \cup (stages \cap asked)]
    BY <2>2, <2>6
  <2>7. CASE Admit(rows[k], so) = [so EXCEPT !.ids = @ \cup stages]
    BY <2>2, <2>7
  <2> QED BY <2>1, <2>5, <2>6, <2>7
<1>7. first \in V /\ Admitted(first, C, rows, 0)
  <2>1. Plain \subseteq C
    BY DEF Plain
  <2>2. Dropped({}) = {} /\ 1..0 = {}
    BY DEF Dropped
  <2> QED BY <2>1, <2>2 DEF Admitted
<1> HIDE DEF first
<1>8. step \in [(1..n) \X V -> V]
  <2> HIDE DEF V
  <2> QED BY <1>6
<1>9. PICK g : Runs(g, n, V, first, step)
  <2> HIDE DEF V, step
  <2> QED BY <1>3, <1>7, <1>8, RecursionExists
<1> HIDE DEF V
<1>10. P(g)
  <2>1. g \in [0..n -> V] /\ g[0] = first /\ \A k \in 1..n : g[k] = step[<<k, g[k - 1]>>]
    BY <1>9 DEF Runs
  <2>2. ASSUME NEW k \in 1..n PROVE g[k] = Admit(rows[k], g[k - 1])
    <3>1. k - 1 \in 0..n
      BY <1>3
    <3>2. <<k, g[k - 1]>> \in (1..n) \X V
      BY <2>1, <3>1
    <3>3. step[<<k, g[k - 1]>>] = Admit(rows[k], g[k - 1])
      BY <3>2
    <3> QED BY <2>1, <3>3
  <2>3. \A k \in 0..n : k = 0 \/ k \in 1..n
    BY <1>3
  <2>4. DOMAIN g = 0..n /\ g = [k \in DOMAIN g |-> g[k]]
    BY <2>1
  <2> HIDE DEF step
  <2> QED BY <2>1, <2>2, <2>3, <2>4
<1>11. P(CHOOSE f : P(f))
  <2> HIDE DEF P
  <2> QED BY <1>10
<1> DEFINE u == CHOOSE f : P(f)
<1>12. u = [k \in 0..n |-> IF k = 0 THEN first ELSE Admit(rows[k], u[k - 1])]
  BY <1>11
<1> HIDE DEF u, P
<1> DEFINE T == {k \in 0..n : Admitted(u[k], C, rows, k)}
<1>13. 0 \in T
  BY <1>3, <1>7, <1>12
<1>14. ASSUME NEW k \in 0..(n - 1), k \in T PROVE k + 1 \in T
  <2>1. k + 1 \in 1..n /\ k + 1 \in 0..n /\ (k + 1) - 1 = k /\ k + 1 # 0
    BY <1>3
  <2>2. u[k + 1] = Admit(rows[k + 1], u[k])
    BY <1>12, <2>1
  <2>3. Admitted(u[k], C, rows, (k + 1) - 1)
    BY <1>14, <2>1
  <2>4. Admitted(Admit(rows[k + 1], u[k]), C, rows, k + 1)
    BY <1>3, <1>5, <2>1, <2>3, AdmitAdmits
  <2> QED BY <2>1, <2>2, <2>4
<1>15. Admitted(u[n], C, rows, n)
  <2>1. \A k \in 0..n : k \in T
    <3> HIDE DEF T
    <3> QED BY <1>3, <1>13, <1>14, AllUpTo
  <2> QED BY <1>3, <2>1
<1>16. x = u[n]
  BY <1>4 DEF u
<1>17. ASSUME NEW c \in asked \ Archived PROVE c \in x.ids \cup Dropped(x.drops)
  <2>1. CASE Adventure[c] = None
    BY <1>15, <1>16, <2>1 DEF Admitted, Plain
  <2>2. CASE Adventure[c] # None
    <3>1. Adventure[c] \in Touched /\ c \in StagesOf(Adventure[c])
      BY <2>2 DEF Touched, StagesOf
    <3>2. PICK i \in 1..n : rows[i] = Adventure[c]
      BY <1>3, <3>1 DEF ByAdventure
    <3> QED BY <1>15, <1>16, <3>1, <3>2 DEF Admitted
  <2> QED BY <2>1, <2>2
<1>18. Plain \subseteq C
  BY DEF Plain
<1>19. Dropped(x.drops) \subseteq C
  <2>1. x.drops \subseteq [id : C, reason : R]
    BY <1>15, <1>16 DEF Admitted
  <2> QED BY <2>1 DEF Dropped
<1>20. x.ids \subseteq C
  BY <1>15, <1>16 DEF Admitted
<1>21. x.ids \cap Dropped(x.drops) = {} /\ \A d, e \in x.drops : d.id = e.id => d = e
  BY <1>15, <1>16 DEF Admitted
<1> QED BY <1>17, <1>19, <1>20, <1>21

----------------------------------------------------------------------------
(***************************************************************************)
(* The request: augmented, expanded, and then left alone.                  *)
(***************************************************************************)

\* The request began as r, and what became of it.
Begun(r) ==
    /\ r \in Requests
    /\ DOMAIN request = DOMAIN r
    /\ request.walk = r.walk
    /\ request.near = r.near
    /\ request.preference = r.preference
    /\ asked \subseteq r.ids \cup r.near
    /\ request.ids \subseteq Candidates(r)
    /\ asked \ Archived \subseteq request.ids \cup Dropped(preplan)
    /\ request.ids \cap Dropped(preplan) = {}
    /\ \A d, e \in preplan : d.id = e.id => d = e
    /\ strategy \in {"augmenting", "undecided", "greedy", "solver"}
    /\ strategy \in {"augmenting", "undecided"} =>
            phase = "requested" /\ request.ids = asked /\ preplan = {}

LEMMA RequestsAreMeasured ==
    ASSUME NEW r \in Requests
    PROVE  /\ {"ids", "near", "walk", "preference"} \subseteq DOMAIN r
           /\ r.preference \in {"auto", "osm-parking", "osrm-nearest-road",
                                "parking-waypoint", "user-supplied-point"}
           /\ r.ids \subseteq Candidates(r) /\ r.near \subseteq Candidates(r)
           /\ IsFiniteSet(Candidates(r)) /\ Candidates(r) \subseteq Nat
           /\ Candidates(r) \cap ParkingPlaces = {}
           /\ \A c \in Candidates(r) : Stage[c] \in Nat
           /\ Candidates(r) \cup ParkingPlaces \subseteq DOMAIN r.walk
           /\ \A a, b \in Candidates(r) \cup ParkingPlaces :
                 /\ a # b => r.walk[a][b] \in Nat
                 /\ AreRoutes(Alternatives(r.walk, a, b)) /\ AreRoutes(Via(r.walk, a, b))
<1>1. r.ids \subseteq Candidates(r) /\ r.near \subseteq Candidates(r)
  BY DEF Candidates
<1> HIDE DEF Candidates
<1> QED BY <1>1, ToursServiceAssumption

LEMMA RequestBegins ==
    ASSUME ServiceInit
    PROVE  \E r \in Requests : Begun(r)
<1>1. request \in Requests /\ phase = "requested"
  BY DEF ServiceInit, Init, PlannerInit
<1>2. request.ids \subseteq Candidates(request)
  BY <1>1, RequestsAreMeasured
<1>3. asked = request.ids /\ preplan = {} /\ strategy \in {"augmenting", "undecided"}
  BY DEF ServiceInit
<1>4. Begun(request)
  BY <1>1, <1>2, <1>3 DEF Begun, Dropped
<1> QED BY <1>1, <1>4

LEMMA AugmentingKeepsRequest ==
    ASSUME NEW r, Begun(r), AugmentClusterWithLabs
    PROVE  Begun(r)'
<1>1. /\ strategy = "augmenting" /\ strategy' = "undecided" /\ preplan' = preplan /\ phase' = phase
      /\ asked' \in Augmentations \/ asked' = asked
      /\ request' = [request EXCEPT !.ids = asked']
  BY DEF AugmentClusterWithLabs
<1>2. /\ r \in Requests /\ DOMAIN request = DOMAIN r
      /\ request.walk = r.walk /\ request.near = r.near /\ request.preference = r.preference
      /\ asked \subseteq r.ids \cup r.near /\ request.ids = asked /\ preplan = {}
      /\ phase = "requested"
  BY <1>1 DEF Begun
<1>3. /\ {"ids", "near", "walk", "preference"} \subseteq DOMAIN request
      /\ r.ids \subseteq Candidates(r) /\ r.near \subseteq Candidates(r)
      /\ IsFiniteSet(Candidates(r))
  BY <1>2, RequestsAreMeasured
<1>4. Nearby \subseteq r.near
  BY <1>2 DEF Nearby
<1>5. IsFiniteSet(Nearby)
  BY <1>3, <1>4, FS_Subset
<1>6. asked' \subseteq r.ids \cup r.near
  <2>1. asked' \subseteq asked \cup Nearby
    BY <1>1, <1>5, AugmentationsAreNear
  <2> QED BY <1>2, <1>4, <2>1
<1>7. /\ DOMAIN request' = DOMAIN request
      /\ request'.walk = request.walk /\ request'.near = request.near
      /\ request'.preference = request.preference /\ request'.ids = asked'
  BY <1>1, <1>3
<1>8. request'.ids \subseteq Candidates(r)
  BY <1>3, <1>6, <1>7
<1>9. Dropped(preplan)' = {} /\ preplan' = {}
  BY <1>1, <1>2 DEF Dropped
<1>10. asked' \ Archived \subseteq request'.ids
  BY <1>7
<1> QED BY <1>1, <1>2, <1>6, <1>7, <1>8, <1>9, <1>10 DEF Begun

LEMMA ExpandingKeepsRequest ==
    ASSUME NEW r, Begun(r), ExpandForCompleteAdventures
    PROVE  Begun(r)'
<1>1. strategy = "undecided" /\ strategy' = "solver" /\ asked' = asked
  BY DEF ExpandForCompleteAdventures
<1>2. /\ r \in Requests /\ DOMAIN request = DOMAIN r
      /\ request.walk = r.walk /\ request.near = r.near /\ request.preference = r.preference
      /\ asked \subseteq r.ids \cup r.near /\ request.ids = asked /\ preplan = {}
  BY <1>1 DEF Begun
<1>3. CASE UNCHANGED <<request, preplan>>
  BY <1>1, <1>3 DEF Begun, Dropped
<1>4. ASSUME asked \subseteq Owned, NEW so \in Expansions,
             request' = [request EXCEPT !.ids = so.ids], preplan' = so.drops
      PROVE  Begun(r)'
  <2>1. /\ {"ids", "near", "walk", "preference"} \subseteq DOMAIN request
        /\ r.ids \subseteq Candidates(r) /\ r.near \subseteq Candidates(r)
        /\ IsFiniteSet(Candidates(r))
    BY <1>2, RequestsAreMeasured
  <2>2. asked \subseteq Candidates(r)
    BY <1>2, <2>1
  <2>3. IsFiniteSet(asked)
    BY <2>1, <2>2, FS_Subset
  <2>4. ASSUME NEW a \in Touched, NEW c \in StagesOf(a) PROVE c \in Candidates(r)
    <3>1. c \in Owned /\ Adventure[c] = a
      BY DEF StagesOf
    <3>2. a \in {Adventure[d] : d \in r.ids \cup r.near} \ {None}
      BY <1>2 DEF Touched
    <3> QED BY <3>1, <3>2 DEF Candidates
  <2>5. /\ so.ids \subseteq Candidates(r)
        /\ asked \ Archived \subseteq so.ids \cup Dropped(so.drops)
        /\ so.ids \cap Dropped(so.drops) = {}
        /\ \A d, e \in so.drops : d.id = e.id => d = e
    BY <1>4, <2>2, <2>3, <2>4, ExpansionsAnswer
  <2>6. /\ DOMAIN request' = DOMAIN request
        /\ request'.walk = request.walk /\ request'.near = request.near
      /\ request'.preference = request.preference /\ request'.ids = so.ids
    BY <1>4, <2>1
  <2>7. Dropped(preplan)' = Dropped(so.drops)
    BY <1>4 DEF Dropped
  <2> QED BY <1>1, <1>2, <1>4, <2>5, <2>6, <2>7 DEF Begun
<1> QED BY <1>3, <1>4 DEF ExpandForCompleteAdventures

\* A step of a planner, of the solver it calls, or of the service over to the
\* other planner.
Plans ==
    \/ Greedy
    \/ Solver
    \/ SolverStep /\ UNCHANGED <<plannerVars, posedVars, serviceVars>>
    \/ FallBack
    \/ ServiceAnswered

\* A planner does not touch what it is to plan.
LEMMA PlannersKeepRequest ==
    ASSUME Plans
    PROVE  /\ UNCHANGED <<request, asked, preplan>>
           /\ strategy \notin {"augmenting", "undecided"}
                => strategy' \in {"greedy", strategy}
           /\ strategy \in {"augmenting", "undecided"} => UNCHANGED <<phase, strategy>>
<1>1. CASE Greedy
  <2>1. UNCHANGED serviceVars /\ strategy = "greedy"
    BY <1>1 DEF Greedy
  <2>2. UNCHANGED request
    <3>1. Prepare => UNCHANGED request
      BY Zenon DEF Prepare
    <3>2. BuildLegs => UNCHANGED request
      BY Zenon DEF BuildLegs, Route
    <3>3. FringeDrop => UNCHANGED request
      BY Zenon DEF FringeDrop
    <3>4. TrimDrop => UNCHANGED request
      BY Zenon DEF TrimDrop
    <3>5. SelectParking => UNCHANGED request
      BY Zenon DEF SelectParking
    <3>6. CycleSolved \/ TrimSolved \/ TrimDone \/ FringeCrash \/ FringeSolved \/ Assemble
             => UNCHANGED request
      BY DEF CycleSolved, TrimSolved, TrimDone, FringeCrash, FringeSolved, Assemble
    <3>7. Expand \/ OsrmFails \/ SolverAborts => UNCHANGED request
      BY DEF Expand, ExpandRoute, OsrmFails, SolverAborts
    <3> QED BY <1>1, <3>1, <3>2, <3>3, <3>4, <3>5, <3>6, <3>7 DEF Greedy, PlannerStep
  <2> QED BY <2>1, <2>2 DEF serviceVars
<1>2. CASE Solver
  <2>1. UNCHANGED serviceVars /\ strategy = "solver"
    BY <1>2 DEF Solver
  <2>2. UNCHANGED request
    BY <1>2 DEF Solver, SolverPlannerStep, SolverPrepare, PickParking, Pose,
       SolverUnavailable, MendDrop, MendSolved, Account, Reclaim, ReclaimSolved,
       SolverLegs, Route, SolverExpand, ExpandRoute, Assemble, SolverOsrmFails
  <2> QED BY <2>1, <2>2 DEF serviceVars
<1>3. CASE FallBack
  BY <1>3 DEF FallBack
<1>4. CASE ServiceAnswered
  BY <1>4 DEF ServiceAnswered, allVars, vars, plannerVars, serviceVars
<1>5. CASE SolverStep /\ UNCHANGED <<plannerVars, posedVars, serviceVars>>
  BY <1>5 DEF plannerVars, serviceVars
<1> QED BY <1>1, <1>2, <1>3, <1>4, <1>5 DEF Plans

LEMMA RequestIsKept ==
    ASSUME NEW r, Begun(r), [ServiceNext]_allVars
    PROVE  Begun(r)'
<1>1. CASE AugmentClusterWithLabs
  BY <1>1, AugmentingKeepsRequest
<1>2. CASE PlanGreedy
  BY <1>2 DEF PlanGreedy, vars, plannerVars, Begun, Dropped
<1>3. CASE ExpandForCompleteAdventures
  BY <1>3, ExpandingKeepsRequest
<1>4. CASE Plans
  <2>1. /\ UNCHANGED <<request, asked, preplan>>
        /\ strategy \notin {"augmenting", "undecided"} => strategy' \in {"greedy", strategy}
        /\ strategy \in {"augmenting", "undecided"} => UNCHANGED <<phase, strategy>>
    BY <1>4, PlannersKeepRequest
  <2> QED BY <2>1 DEF Begun, Dropped
<1>5. CASE UNCHANGED allVars
  BY <1>5 DEF allVars, vars, plannerVars, serviceVars, Begun, Dropped
<1> QED BY <1>1, <1>2, <1>3, <1>4, <1>5 DEF ServiceNext, Plans

----------------------------------------------------------------------------
(***************************************************************************)
(* The preparation: what a planner works on is the closure of what it kept.*)
(***************************************************************************)

Ready == phase \notin {"requested", "failed"} => prep = Prepared /\ ~CannotLoop

LEMMA PlansKeepPreparation ==
    ASSUME Plans
    PROVE  \/ phase' \in {"requested", "failed"}
           \/ prep' = Prepared /\ ~CannotLoop
           \/ prep' = prep /\ phase \notin {"requested", "failed"}
           \/ UNCHANGED <<phase, prep>>
<1>1. CASE Greedy
  <2>1. Prepare => \/ phase' = "failed"
                   \/ prep' = Prepared /\ ~CannotLoop
    BY Zenon DEF Prepare, Fails
  <2>2. BuildLegs => prep' = prep /\ phase = "routing"
    BY Zenon DEF BuildLegs, Route
  <2>3. FringeDrop => prep' = prep /\ phase = "fringe"
    BY Zenon DEF FringeDrop
  <2>4. TrimDrop => prep' = prep /\ phase = "trimming"
    BY Zenon DEF TrimDrop
  <2>5. SelectParking => prep' = prep /\ phase = "parking"
    BY Zenon DEF SelectParking
  <2>6. CycleSolved => prep' = prep /\ phase = "solving"
    BY Zenon DEF CycleSolved
  <2>7. TrimSolved => prep' = prep /\ phase = "trim_solving"
    BY Zenon DEF TrimSolved
  <2>8. TrimDone => prep' = prep /\ phase = "trimming"
    BY Zenon DEF TrimDone
  <2>9. FringeCrash \/ Expand => prep' = prep /\ phase = "fringe"
    BY Zenon DEF FringeCrash, Expand, ExpandRoute
  <2>10. FringeSolved => prep' = prep /\ phase = "fringe_solving"
    BY Zenon DEF FringeSolved
  <2>11. Assemble => prep' = prep /\ phase = "assembling"
    BY Zenon DEF Assemble
  <2>12. OsrmFails \/ SolverAborts => phase' = "failed"
    BY Zenon DEF OsrmFails, SolverAborts, Fails
  <2> QED BY <1>1, <2>1, <2>2, <2>3, <2>4, <2>5, <2>6, <2>7, <2>8, <2>9, <2>10, <2>11, <2>12
          DEF Greedy, PlannerStep
<1>2. CASE Solver
  <2>1. SolverPrepare => \/ phase' = "failed"
                         \/ prep' = Prepared /\ ~CannotLoop
    BY Zenon DEF SolverPrepare, Fails
  <2>2. PickParking => prep' = prep /\ phase = "choosing"
    BY Zenon DEF PickParking
  <2>3. Pose => prep' = prep /\ phase = "posed"
    BY Zenon DEF Pose
  <2>4. MendDrop => prep' = prep /\ phase = "mending"
    BY Zenon DEF MendDrop
  <2>5. MendSolved => prep' = prep /\ phase = "mend_solving"
    BY Zenon DEF MendSolved
  <2>6. Account => prep' = prep /\ phase = "mending"
    BY Zenon DEF Account
  <2>7. Reclaim \/ SolverLegs => prep' = prep /\ phase = "reclaiming"
    BY Zenon DEF Reclaim, SolverLegs, Route
  <2>8. ReclaimSolved => prep' = prep /\ phase = "reclaim_solving"
    BY Zenon DEF ReclaimSolved
  <2>9. SolverExpand => prep' = prep /\ phase = "expanding"
    BY Zenon DEF SolverExpand, ExpandRoute
  <2>10. Assemble => prep' = prep /\ phase = "assembling"
    BY Zenon DEF Assemble
  <2>11. SolverUnavailable \/ SolverOsrmFails => phase' = "failed"
    BY Zenon DEF SolverUnavailable, SolverOsrmFails, Fails
  <2> QED BY <1>2, <2>1, <2>2, <2>3, <2>4, <2>5, <2>6, <2>7, <2>8, <2>9, <2>10, <2>11
          DEF Solver, SolverPlannerStep
<1>3. CASE FallBack
  BY <1>3 DEF FallBack
<1>4. CASE ServiceAnswered
  BY <1>4 DEF ServiceAnswered, allVars, vars, plannerVars
<1>5. CASE SolverStep /\ UNCHANGED <<plannerVars, posedVars, serviceVars>>
  BY <1>5 DEF plannerVars
<1> QED BY <1>1, <1>2, <1>3, <1>4, <1>5 DEF Plans

LEMMA PreparationFollows ==
    ASSUME request' = request
    PROVE  /\ Prepared' = Prepared /\ Kept' = Kept /\ Selected' = Selected
           /\ CannotLoop' = CannotLoop /\ walk' = walk /\ CapTruncated' = CapTruncated
BY DEF Prepared, CannotLoop, Kept, Selected, CapTruncated, walk

LEMMA ReadyIsKept ==
    ASSUME NEW r, Begun(r), Ready, [ServiceNext]_allVars
    PROVE  Ready'
<1>1. CASE Plans
  <2>1. request' = request
    BY <1>1, PlannersKeepRequest
  <2>2. Prepared' = Prepared /\ CannotLoop' = CannotLoop
    BY <2>1, PreparationFollows
  <2>3. \/ phase' \in {"requested", "failed"}
        \/ prep' = Prepared /\ ~CannotLoop
        \/ prep' = prep /\ phase \notin {"requested", "failed"}
        \/ UNCHANGED <<phase, prep>>
    BY <1>1, PlansKeepPreparation
  <2> HIDE DEF Prepared, CannotLoop
  <2> QED BY <2>2, <2>3 DEF Ready
<1>2. CASE AugmentClusterWithLabs \/ ExpandForCompleteAdventures
  <2>1. phase = "requested"
    BY <1>2 DEF AugmentClusterWithLabs, ExpandForCompleteAdventures, Begun
  <2>2. phase' \in {"requested", "failed"}
    BY <1>2, <2>1 DEF AugmentClusterWithLabs, ExpandForCompleteAdventures, Fails
  <2> QED BY <2>2 DEF Ready
<1>3. CASE PlanGreedy \/ UNCHANGED allVars
  <2>1. UNCHANGED <<request, phase, prep>>
    BY <1>3 DEF PlanGreedy, allVars, vars, plannerVars
  <2>2. Prepared' = Prepared /\ CannotLoop' = CannotLoop
    BY <2>1, PreparationFollows
  <2> QED BY <2>1, <2>2 DEF Ready
<1> QED BY <1>1, <1>2, <1>3 DEF ServiceNext, Plans

\* The caches that are kept are some of the candidates, and measured.
LEMMA KeptAreMeasured ==
    ASSUME NEW r, Begun(r)
    PROVE  /\ IsFiniteSet(request.ids) /\ request.ids \subseteq Nat
           /\ ToSet(Selected) \subseteq request.ids
           /\ IsFiniteSet(ToSet(Selected))
           /\ Kept \in SUBSET ToSet(Selected)
           /\ IsFiniteSet(Kept) /\ Kept \subseteq Nat
           /\ Kept \subseteq Candidates(r)
           /\ Measures(walk, Kept)
<1>1. /\ r \in Requests /\ request.walk = r.walk /\ request.ids \subseteq Candidates(r)
      /\ IsFiniteSet(Candidates(r)) /\ Candidates(r) \subseteq Nat
      /\ \A a, b \in Candidates(r) : a # b => r.walk[a][b] \in Nat
  BY RequestsAreMeasured DEF Begun
<1>2. IsFiniteSet(request.ids) /\ request.ids \subseteq Nat
  BY <1>1, FS_Subset
<1> DEFINE n == Cardinality(request.ids)
           m == Less(MaxLoopCaches, n)
<1>3. Sorted(request.ids) \in Seq(request.ids) /\ Len(Sorted(request.ids)) = n /\ n \in Nat
  BY <1>2, SortedIsSequence
<1>4. m \in 0..n
  BY <1>3, PlannerAssumption DEF Less
<1>5. ToSet(Selected) \subseteq request.ids
  <2>1. Selected = SubSeq(Sorted(request.ids), 1, m)
    BY DEF Selected
  <2> DEFINE s == Sorted(request.ids)
  <2> HIDE DEF s, m, n
  <2>2. SubSeq(s, 1, m) = [i \in 1..m |-> s[i]]
    BY <1>3, <1>4 DEF s
  <2>3. \A i \in 1..m : s[i] \in request.ids
    BY <1>3, <1>4, ElementOfSeq DEF s
  <2> QED BY <2>1, <2>2, <2>3 DEF ToSet, s
<1>6. IsFiniteSet(ToSet(Selected)) /\ ToSet(Selected) \subseteq Nat
  BY <1>2, <1>5, FS_Subset
<1>7. Measures(walk, ToSet(Selected))
  BY <1>1, <1>5 DEF Measures, walk
<1>8. Kept \in SUBSET ToSet(Selected)
  <2> DEFINE S == ToSet(Selected)
  <2>1. Kept = LargestComponent(walk, S)
    BY DEF Kept
  <2> HIDE DEF S
  <2>2. LargestComponent(walk, S) \in SUBSET S
    BY <1>6, <1>7, LargestIsComponent DEF S
  <2> QED BY <2>1, <2>2 DEF S
<1>9. IsFiniteSet(Kept) /\ Kept \subseteq Nat /\ Kept \subseteq Candidates(r)
  BY <1>1, <1>5, <1>6, <1>8, FS_Subset
<1>10. Measures(walk, Kept)
  BY <1>7, <1>8 DEF Measures
<1> QED BY <1>2, <1>5, <1>6, <1>8, <1>9, <1>10

\* metricClosure fills every pair without a route with the shortest chain of
\* short links, from one end to the other, and leaves the other pairs alone.
THEOREM ClosureIsExact == ServiceSpec => []ClosureIsShortestWalk
<1> DEFINE Inv == (\E r \in Requests : Begun(r)) /\ Ready
<1>1. ServiceInit => Inv
  <2>1. ServiceInit => phase = "requested"
    BY DEF ServiceInit, Init, PlannerInit
  <2> QED BY <2>1, RequestBegins DEF Ready
<1>2. Inv /\ [ServiceNext]_allVars => Inv'
  <2> SUFFICES ASSUME NEW r \in Requests, Begun(r), Ready, [ServiceNext]_allVars
               PROVE  (\E x \in Requests : Begun(x)') /\ Ready'
    OBVIOUS
  <2>1. Begun(r)'
    BY RequestIsKept
  <2>2. Ready'
    BY ReadyIsKept
  <2> QED BY <2>1, <2>2
<1>3. Inv => ClosureIsShortestWalk
  <2> SUFFICES ASSUME NEW r \in Requests, Begun(r), Ready, phase = "parking",
                      NEW a \in Kept, NEW b \in Kept, a # b
               PROVE  IF walk[a][b] < Infinity THEN dist[a][b] = walk[a][b]
                      ELSE dist[a][b] = Min({Infinity} \cup
                              {ChainLength(<<a>> \o via \o <<b>>) :
                                  via \in UNION {SetToSeqs(S) : S \in SUBSET (Kept \ {a, b})}})
    BY Zenon DEF ClosureIsShortestWalk
  <2>1. dist = Closure(walk, Kept)
    BY DEF Ready, Prepared, dist
  <2>2. IsFiniteSet(Kept) /\ Kept \subseteq Nat /\ Measures(walk, Kept)
    BY KeptAreMeasured
  <2> DEFINE S == Kept
             w == walk
  <2>3. Closure(w, S)[a][b] =
          IF w[a][b] < Infinity THEN w[a][b]
          ELSE ShortestVia(w, S, a, b)
    <3>1. a \in S /\ b \in S /\ IsFiniteSet(S) /\ S \subseteq Nat /\ Measures(w, S)
      BY <2>2
    <3> HIDE DEF S, w
    <3> QED BY <3>1, ClosureIsShortest
  <2>4. \A c : ChainMetres(w, c) = ChainLength(c)
    BY Zenon DEF ChainMetres, ChainLength
  <2>5. Vias(S, a, b) = UNION {SetToSeqs(V) : V \in SUBSET (Kept \ {a, b})}
    BY DEF Vias
  <2> HIDE DEF S
  <2>6. {ViaMetres(w, a, b, v) : v \in Vias(S, a, b)}
           = {ChainLength(<<a>> \o via \o <<b>>) :
                via \in UNION {SetToSeqs(V) : V \in SUBSET (Kept \ {a, b})}}
    BY Zenon, <2>4, <2>5 DEF ViaMetres
  <2> HIDE DEF w
  <2>7. ShortestVia(w, S, a, b) = Min({Infinity} \cup {ViaMetres(w, a, b, v) : v \in Vias(S, a, b)})
    BY Zenon DEF ShortestVia
  <2> QED BY Zenon, <2>1, <2>3, <2>6, <2>7 DEF w, S
<1> QED
  <2> HIDE DEF Inv
  <2> QED BY <1>1, <1>2, <1>3, PTL DEF ServiceSpec

----------------------------------------------------------------------------
(***************************************************************************)
(* Listings: sequences that have every member of a set once.  The planners *)
(* rearrange, shorten, split and join them.                                *)
(***************************************************************************)

Listing(t, A) ==
    /\ t \in Seq(A)
    /\ \A i, j \in 1..Len(t) : t[i] = t[j] => i = j
    /\ \A x \in A : \E i \in 1..Len(t) : t[i] = x

LEMMA ListingIsFinite ==
    ASSUME NEW A, NEW t, Listing(t, A)
    PROVE  /\ IsFiniteSet(A) /\ Cardinality(A) = Len(t) /\ Len(t) \in Nat
           /\ DOMAIN t = 1..Len(t) /\ t \in [1..Len(t) -> A]
           /\ ToSet(t) = A
           /\ t = <<>> <=> A = {}
<1>1. t \in Seq(A) /\ Len(t) \in Nat /\ DOMAIN t = 1..Len(t) /\ t \in [1..Len(t) -> A]
  BY LenProperties DEF Listing
<1> DEFINE n == Len(t)
<1>2. \A i, j \in 1..n : t[i] = t[j] => i = j
  BY DEF Listing
<1>3. \A x \in A : \E i \in 1..n : t[i] = x
  BY DEF Listing
<1>4. n \in Nat /\ t \in [1..n -> A]
  BY <1>1
<1> HIDE DEF n
<1>5. t \in Injection(1..n, A) /\ t \in Surjection(1..n, A)
  BY <1>2, <1>3, <1>4, Fun_IsInj, Fun_IsSurj
<1>6. IsFiniteSet(1..n) /\ Cardinality(1..n) = n
  BY <1>4, FS_Interval
<1>7. IsFiniteSet(A) /\ Cardinality(A) = n
  <2>1. IsFiniteSet(A) /\ (Cardinality(A) = Cardinality(1..n) <=> t \in Injection(1..n, A))
    BY <1>5, <1>6, FS_Surjection
  <2> QED BY <2>1, <1>5, <1>6
<1>8. ToSet(t) = A
  BY <1>1, <1>3, <1>4 DEF ToSet, n
<1>9. t = <<>> <=> A = {}
  <2>1. t = <<>> => A = {}
    BY <1>3, EmptySeq DEF n
  <2>2. t # <<>> => n \in 1..n
    BY <1>1, EmptySeq DEF n
  <2> QED BY <2>1, <2>2, <1>4
<1> QED BY <1>1, <1>7, <1>8, <1>9 DEF n

LEMMA ListingOf ==
    ASSUME NEW n \in Nat, NEW A, NEW t \in [1..n -> A],
           \A i, j \in 1..n : t[i] = t[j] => i = j,
           \A x \in A : \E i \in 1..n : t[i] = x
    PROVE  Listing(t, A) /\ Len(t) = n
BY LenOfFunction DEF Listing

\* The list picked from a listing by a listing of some positions.
LEMMA PickedListing ==
    ASSUME NEW A, NEW t, Listing(t, A), NEW I \in SUBSET (1..Len(t)), NEW r, Listing(r, I)
    PROVE  /\ Listing([k \in DOMAIN r |-> t[r[k]]], {t[i] : i \in I})
           /\ Len([k \in DOMAIN r |-> t[r[k]]]) = Len(r)
<1> DEFINE n == Len(r)
           u == [k \in DOMAIN r |-> t[r[k]]]
           B == {t[i] : i \in I}
<1>1. n \in Nat /\ r \in [1..n -> I] /\ DOMAIN r = 1..n
  BY ListingIsFinite
<1>2. /\ \A k, l \in 1..n : r[k] = r[l] => k = l
      /\ \A i \in I : \E k \in 1..n : r[k] = i
  BY DEF Listing
<1>3. \A i, j \in I : t[i] = t[j] => i = j
  BY DEF Listing
<1> HIDE DEF n
<1>4. u \in [1..n -> B] /\ \A k \in 1..n : u[k] = t[r[k]]
  BY <1>1
<1>5. ASSUME NEW k \in 1..n, NEW l \in 1..n, u[k] = u[l] PROVE k = l
  <2>1. r[k] \in I /\ r[l] \in I /\ t[r[k]] = t[r[l]]
    BY <1>1, <1>4, <1>5
  <2>2. r[k] = r[l]
    BY <1>3, <2>1
  <2> QED BY <1>2, <2>2
<1>6. ASSUME NEW x \in B PROVE \E k \in 1..n : u[k] = x
  <2>1. PICK i \in I : x = t[i]
    OBVIOUS
  <2>2. PICK k \in 1..n : r[k] = i
    BY <1>2
  <2> QED BY <1>4, <2>1, <2>2
<1> HIDE DEF u, B
<1>7. Listing(u, B) /\ Len(u) = n
  BY <1>1, <1>4, <1>5, <1>6, ListingOf
<1> QED BY <1>7 DEF u, B, n

LEMMA ListsAreListings ==
    ASSUME NEW S, IsFiniteSet(S), NEW f, Lists(f, S)
    PROVE  Listing(f, S) /\ Len(f) = Cardinality(S)
BY FS_CardinalityType, ListingOf DEF Lists

\* Array.filter keeps a listing of what passes.
Picked(seq, I) == [k \in DOMAIN Sorted(I) |-> seq[Sorted(I)[k]]]

LEMMA FilteredListing ==
    ASSUME NEW A, NEW t, Listing(t, A), NEW I \in SUBSET (1..Len(t))
    PROVE  /\ Listing(Picked(t, I), {t[i] : i \in I})
           /\ Listing(Sorted(I), I)
           /\ Len(Picked(t, I)) = Len(Sorted(I))
           /\ \A k \in 1..Len(Sorted(I)) : Picked(t, I)[k] = t[Sorted(I)[k]]
<1>1. IsFiniteSet(I) /\ I \subseteq Nat
  <2>1. Len(t) \in Nat
    BY ListingIsFinite
  <2>2. IsFiniteSet(1..Len(t))
    BY <2>1, FS_Interval
  <2>3. IsFiniteSet(I)
    BY <2>2, FS_Subset
  <2> QED BY <2>1, <2>3
<1>2. Listing(Sorted(I), I)
  BY <1>1, SortedLists, ListsAreListings
<1> DEFINE r == Sorted(I)
<1>3. DOMAIN r = 1..Len(r)
  BY <1>2, ListingIsFinite
<1> HIDE DEF r
<1>4. Listing([k \in DOMAIN r |-> t[r[k]]], {t[i] : i \in I}) /\ Len([k \in DOMAIN r |-> t[r[k]]]) = Len(r)
  BY <1>2, PickedListing DEF r
<1>5. Picked(t, I) = [k \in DOMAIN r |-> t[r[k]]]
  BY DEF Picked, r
<1> QED BY <1>2, <1>3, <1>4, <1>5 DEF r

LEMMA JoinedListings ==
    ASSUME NEW A, NEW t, Listing(t, A), NEW B, NEW u, Listing(u, B), A \cap B = {}
    PROVE  Listing(t \o u, A \cup B) /\ Len(t \o u) = Len(t) + Len(u)
<1>1. /\ t \in Seq(A \cup B) /\ u \in Seq(A \cup B)
      /\ Len(t) \in Nat /\ Len(u) \in Nat
      /\ t \in [1..Len(t) -> A] /\ u \in [1..Len(u) -> B]
  <2>1. /\ Len(t) \in Nat /\ Len(u) \in Nat
        /\ t \in [1..Len(t) -> A] /\ u \in [1..Len(u) -> B]
    BY ListingIsFinite
  <2>2. t \in [1..Len(t) -> A \cup B] /\ u \in [1..Len(u) -> A \cup B]
    BY <2>1
  <2> QED BY <2>1, <2>2, LenOfFunction
<1> DEFINE m == Len(t)
           n == Len(u)
           c == t \o u
<1>2. /\ c \in Seq(A \cup B) /\ Len(c) = m + n
      /\ \A i \in 1..(m + n) : c[i] = IF i <= m THEN t[i] ELSE u[i - m]
  BY <1>1, ConcatProperties
<1>3. /\ \A i, j \in 1..m : t[i] = t[j] => i = j
      /\ \A x \in A : \E i \in 1..m : t[i] = x
      /\ \A i, j \in 1..n : u[i] = u[j] => i = j
      /\ \A x \in B : \E i \in 1..n : u[i] = x
  BY DEF Listing
<1>4. m \in Nat /\ n \in Nat /\ t \in [1..m -> A] /\ u \in [1..n -> B]
  BY <1>1
<1> HIDE DEF c, m, n
<1>5. \A i \in 1..m : i \in 1..(m + n) /\ c[i] = t[i]
  BY <1>2, <1>4
<1>6. \A i \in 1..n : i + m \in 1..(m + n) /\ c[i + m] = u[i]
  <2> SUFFICES ASSUME NEW i \in 1..n PROVE i + m \in 1..(m + n) /\ c[i + m] = u[i]
    OBVIOUS
  <2>1. i + m \in 1..(m + n) /\ ~(i + m <= m) /\ (i + m) - m = i
    BY <1>4
  <2> QED BY <1>2, <2>1
<1>7. \A i \in 1..(m + n) : i \in 1..m \/ (i - m \in 1..n /\ (i - m) + m = i)
  BY <1>4
<1>8. ASSUME NEW i \in 1..(m + n), NEW j \in 1..(m + n), c[i] = c[j] PROVE i = j
  <2>1. CASE i \in 1..m /\ j \in 1..m
    BY <1>3, <1>5, <1>8, <2>1
  <2>2. CASE i - m \in 1..n /\ j - m \in 1..n /\ (i - m) + m = i /\ (j - m) + m = j
    <3>1. u[i - m] = u[j - m]
      BY <1>6, <1>8, <2>2
    <3>2. i - m = j - m
      BY <1>3, <2>2, <3>1
    <3> QED BY <2>2, <3>2
  <2>3. CASE i \in 1..m /\ j - m \in 1..n /\ (j - m) + m = j
    <3>1. c[i] \in A /\ c[j] \in B
      BY <1>4, <1>5, <1>6, <2>3
    <3> QED BY <1>8, <3>1
  <2>4. CASE j \in 1..m /\ i - m \in 1..n /\ (i - m) + m = i
    <3>1. c[j] \in A /\ c[i] \in B
      BY <1>4, <1>5, <1>6, <2>4
    <3> QED BY <1>8, <3>1
  <2> QED BY <1>7, <2>1, <2>2, <2>3, <2>4
<1>9. ASSUME NEW x \in A \cup B PROVE \E i \in 1..(m + n) : c[i] = x
  <2>1. CASE x \in A
    BY <1>3, <1>5, <2>1
  <2>2. CASE x \in B
    <3>1. PICK i \in 1..n : u[i] = x
      BY <1>3, <2>2
    <3> QED BY <1>6, <3>1
  <2> QED BY <2>1, <2>2
<1> QED BY <1>2, <1>8, <1>9 DEF Listing, c, m, n

LEMMA ShortenedListing ==
    ASSUME NEW A, NEW t, Listing(t, A), NEW p \in 1..Len(t)
    PROVE  Listing(Without(t, p), A \ {t[p]}) /\ Len(Without(t, p)) = Len(t) - 1
<1> DEFINE n == Len(t)
           c == Without(t, p)
           r == [k \in 1..(n - 1) |-> IF k < p THEN k ELSE k + 1]
           I == (1..n) \ {p}
<1>1. n \in Nat /\ t \in [1..n -> A] /\ DOMAIN t = 1..n
  BY ListingIsFinite
<1>2. c = [k \in 1..(n - 1) |-> t[IF k < p THEN k ELSE k + 1]]
  <2> DEFINE a == SubSeq(t, 1, p - 1)
             b == SubSeq(t, p + 1, n)
  <2>1. p \in 1..n
    OBVIOUS
  <2> HIDE DEF n
  <2>2. /\ a \in Seq(A) /\ Len(a) = p - 1
        /\ \A i \in 1..(p - 1) : a[i] = t[i]
    <3>1. \A i \in 1..(p - 1) : t[i] \in A
      BY <1>1, <2>1
    <3>2. /\ a \in Seq(A)
          /\ Len(a) = IF 1 <= p - 1 THEN (p - 1) - 1 + 1 ELSE 0
          /\ \A i \in 1..((p - 1) - 1 + 1) : a[i] = t[1 + i - 1]
      BY <1>1, <2>1, <3>1, SubSeqProperties
    <3> QED BY <1>1, <2>1, <3>2
  <2>3. /\ b \in Seq(A) /\ Len(b) = n - p
        /\ \A i \in 1..(n - p) : b[i] = t[p + i]
    <3>1. \A i \in (p + 1)..n : t[i] \in A
      BY <1>1, <2>1
    <3>2. /\ b \in Seq(A)
          /\ Len(b) = IF p + 1 <= n THEN n - (p + 1) + 1 ELSE 0
          /\ \A i \in 1..(n - (p + 1) + 1) : b[i] = t[(p + 1) + i - 1]
      BY <1>1, <2>1, <3>1, SubSeqProperties
    <3> QED BY <1>1, <2>1, <3>2
  <2>4. c = a \o b
    BY DEF Without, n
  <2> HIDE DEF a, b, c
  <2>5. /\ c \in Seq(A) /\ Len(c) = (p - 1) + (n - p)
        /\ \A i \in 1..((p - 1) + (n - p)) :
              c[i] = IF i <= p - 1 THEN a[i] ELSE b[i - (p - 1)]
    BY <2>2, <2>3, <2>4, ConcatProperties
  <2>6. (p - 1) + (n - p) = n - 1
    BY <1>1, <2>1
  <2>7. ASSUME NEW i \in 1..(n - 1) PROVE c[i] = t[IF i < p THEN i ELSE i + 1]
    <3>1. CASE i < p
      <4>1. i <= p - 1 /\ i \in 1..(p - 1)
        BY <1>1, <2>1, <3>1
      <4> QED BY <2>2, <2>5, <2>6, <3>1, <4>1
    <3>2. CASE ~(i < p)
      <4>1. ~(i <= p - 1) /\ i - (p - 1) \in 1..(n - p) /\ p + (i - (p - 1)) = i + 1
        BY <1>1, <2>1, <3>2
      <4> QED BY <2>3, <2>5, <2>6, <3>2, <4>1
    <3> QED BY <3>1, <3>2
  <2>8. Len(c) = n - 1 /\ DOMAIN c = 1..(n - 1) /\ c = [i \in DOMAIN c |-> c[i]]
    BY <2>5, <2>6, LenProperties
  <2> QED BY <2>7, <2>8
<1>3. Listing(r, I) /\ Len(r) = n - 1
  <2>1. p \in 1..n
    OBVIOUS
  <2> HIDE DEF n
  <2>2. r \in [1..(n - 1) -> I] /\ n - 1 \in Nat
    BY <1>1, <2>1
  <2>3. \A i, j \in 1..(n - 1) : r[i] = r[j] => i = j
    BY <1>1, <2>1
  <2>4. ASSUME NEW x \in I PROVE \E i \in 1..(n - 1) : r[i] = x
    <3>1. CASE x < p
      <4>1. x \in 1..(n - 1)
        BY <1>1, <2>1, <3>1
      <4>2. r[x] = x
        BY <3>1, <4>1
      <4> QED BY <4>1, <4>2
    <3>2. CASE x > p
      <4>1. x - 1 \in 1..(n - 1) /\ ~(x - 1 < p) /\ (x - 1) + 1 = x
        BY <1>1, <2>1, <3>2
      <4>2. r[x - 1] = x
        BY <4>1
      <4> QED BY <4>1, <4>2
    <3> QED BY <1>1, <2>1, <3>1, <3>2
  <2> HIDE DEF r, I
  <2> QED BY <2>2, <2>3, <2>4, ListingOf
<1>4. I \in SUBSET (1..Len(t)) /\ DOMAIN r = 1..(n - 1)
  OBVIOUS
<1>5. \A k \in 1..(n - 1) : r[k] = IF k < p THEN k ELSE k + 1
  OBVIOUS
<1>6. {t[i] : i \in I} = A \ {t[p]}
  BY <1>1 DEF Listing
<1>7. Listing([k \in DOMAIN r |-> t[r[k]]], {t[i] : i \in I}) /\ Len([k \in DOMAIN r |-> t[r[k]]]) = Len(r)
  <2> HIDE DEF r, I
  <2> QED BY <1>3, <1>4, PickedListing
<1>8. [k \in DOMAIN r |-> t[r[k]]] = c
  <2> HIDE DEF c, n, r
  <2> QED BY <1>2, <1>4, <1>5
<1> QED BY <1>3, <1>6, <1>7, <1>8


LEMMA PieceOfListing ==
    ASSUME NEW A, NEW t, Listing(t, A), NEW m \in Nat \ {0}, NEW n \in Nat, n <= Len(t)
    PROVE  /\ Listing(SubSeq(t, m, n), {t[i] : i \in m..n})
           /\ Len(SubSeq(t, m, n)) = IF m <= n THEN n - m + 1 ELSE 0
           /\ \A k \in 1..(n - m + 1) : SubSeq(t, m, n)[k] = t[m + k - 1]
<1> DEFINE l == IF m <= n THEN n - m + 1 ELSE 0
           r == [k \in 1..l |-> m + k - 1]
           I == m..n
<1>1. Len(t) \in Nat /\ t \in [1..Len(t) -> A]
  BY ListingIsFinite
<1>2. I \in SUBSET (1..Len(t)) /\ l \in Nat
  BY <1>1
<1>3. Listing(r, I)
  <2>1. r \in [1..l -> I] /\ \A i, j \in 1..l : r[i] = r[j] => i = j
    OBVIOUS
  <2>2. ASSUME NEW x \in I PROVE \E i \in 1..l : r[i] = x
    <3>1. x - m + 1 \in 1..l
      OBVIOUS
    <3>2. r[x - m + 1] = x
      BY <3>1
    <3> QED BY <3>1, <3>2
  <2> HIDE DEF r, l, I
  <2> QED BY <1>2, <2>1, <2>2, ListingOf
<1>4. DOMAIN r = 1..l
  OBVIOUS
<1>5. \A i \in m..n : t[i] \in A
  BY <1>1, <1>2
<1>6. /\ SubSeq(t, m, n) \in Seq(A) /\ Len(SubSeq(t, m, n)) = l
      /\ \A i \in 1..(n - m + 1) : SubSeq(t, m, n)[i] = t[m + i - 1]
  BY <1>5, SubSeqProperties
<1> DEFINE c == SubSeq(t, m, n)
<1>7. \A k \in 1..l : c[k] = t[r[k]]
  BY <1>6
<1>8. DOMAIN c = 1..l /\ c = [k \in DOMAIN c |-> c[k]]
  BY <1>6, LenProperties
<1> HIDE DEF c, r, l
<1>9. [k \in DOMAIN r |-> t[r[k]]] = c
  BY <1>4, <1>7, <1>8
<1>10. Listing([k \in DOMAIN r |-> t[r[k]]], {t[i] : i \in I})
  <2> HIDE DEF I
  <2> QED BY <1>2, <1>3, PickedListing
<1> QED BY <1>6, <1>9, <1>10 DEF c, l

LEMMA RotatedListing ==
    ASSUME NEW A, NEW t, Listing(t, A), NEW i \in 1..Len(t)
    PROVE  Listing(Rotate(t, i), A) /\ Len(Rotate(t, i)) = Len(t)
<1> DEFINE n == Len(t)
           B == {t[k] : k \in i..n}
           C == {t[k] : k \in 1..(i - 1)}
           p == SubSeq(t, i, n)
           q == SubSeq(t, 1, i - 1)
<1>1. n \in Nat /\ t \in [1..n -> A] /\ i \in 1..n
  BY ListingIsFinite
<1>2. Listing(p, B) /\ Len(p) = n - i + 1
  <2>1. i \in Nat \ {0} /\ n <= Len(t)
    BY <1>1
  <2> QED BY <1>1, <2>1, PieceOfListing
<1>3. Listing(q, C) /\ Len(q) = i - 1
  <2>1. i - 1 \in Nat /\ i - 1 <= Len(t) /\ 1 \in Nat \ {0}
    BY <1>1
  <2>2. Listing(SubSeq(t, 1, i - 1), C)
    BY <2>1, PieceOfListing
  <2>3. Len(SubSeq(t, 1, i - 1)) = IF 1 <= i - 1 THEN (i - 1) - 1 + 1 ELSE 0
    BY <2>1, PieceOfListing
  <2> QED BY <1>1, <2>2, <2>3
<1>4. /\ \A k, l \in 1..n : t[k] = t[l] => k = l
      /\ \A x \in A : \E k \in 1..n : t[k] = x
  BY DEF Listing
<1> HIDE DEF n
<1>5. B \cap C = {}
  <2> SUFFICES ASSUME NEW k \in i..n, NEW l \in 1..(i - 1), t[k] = t[l] PROVE FALSE
    OBVIOUS
  <2>1. k \in 1..n /\ l \in 1..n /\ k # l
    BY <1>1
  <2> QED BY <1>4, <2>1
<1>6. B \cup C = A
  <2>1. \A k \in 1..n : k \in i..n \/ k \in 1..(i - 1)
    BY <1>1
  <2>2. \A x \in A : x \in B \cup C
    BY <1>4, <2>1
  <2>3. \A k \in i..n : k \in 1..n
    BY <1>1
  <2>4. \A k \in 1..(i - 1) : k \in 1..n
    BY <1>1
  <2> QED BY <1>1, <2>2, <2>3, <2>4
<1> HIDE DEF B, C
<1>7. Rotate(t, i) = p \o q
  BY DEF Rotate, n
<1> HIDE DEF p, q
<1>8. Listing(p \o q, B \cup C) /\ Len(p \o q) = (n - i + 1) + (i - 1)
  BY <1>2, <1>3, <1>5, JoinedListings
<1>9. (n - i + 1) + (i - 1) = n
  BY <1>1
<1> QED BY <1>6, <1>7, <1>8, <1>9 DEF n

\* What the solver found is an order of what it was given.
LEMMA SolvedListing ==
    ASSUME NEW A, NEW t, Listing(t, A), t # <<>>, SolverInv, pass = "done", Size = Len(t)
    PROVE  Listing(Solved(t), A) /\ Len(Solved(t)) = Len(t)
<1> DEFINE n == Len(t)
<1>1. Tour(order, n, start)
  BY DEF SolverInv
<1>2. n \in Nat /\ t \in [1..n -> A]
  BY ListingIsFinite
<1>3. Listing(order, 1..n) /\ Len(order) = n /\ DOMAIN order = 1..n
  BY <1>1, LenProperties DEF Tour, Path, Listing
<1>4. /\ Listing([p \in DOMAIN order |-> t[order[p]]], {t[i] : i \in 1..n})
      /\ Len([p \in DOMAIN order |-> t[order[p]]]) = n
  <2> DEFINE I == 1..n
  <2>1. I \in SUBSET (1..Len(t)) /\ Listing(order, I) /\ Listing(t, A)
    BY <1>3
  <2> HIDE DEF I, n
  <2>2. /\ Listing([p \in DOMAIN order |-> t[order[p]]], {t[i] : i \in I})
        /\ Len([p \in DOMAIN order |-> t[order[p]]]) = Len(order)
    BY <2>1, PickedListing
  <2> QED BY <1>3, <2>2 DEF I
<1>5. {t[i] : i \in 1..n} = A
  BY <1>2 DEF Listing
<1> QED BY <1>4, <1>5 DEF Solved

\* A finite set that is not empty has a first element in any strict total order.
LEMMA FirstInOrder ==
    ASSUME NEW S, IsFiniteSet(S), S # {}, NEW R, Orders(R, S)
    PROVE  \E x \in S : \A y \in S : y = x \/ <<x, y>> \in R
<1>1. Cardinality(S) \in Nat /\ Cardinality(S) # 0
  BY FS_CardinalityType, FS_EmptySet
<1>2. 1 \in 1..Cardinality(S)
  BY <1>1
<1>3. PICK x \in S : Cardinality(Below(R, S, x)) = 1 - 1
  BY <1>2, RanksFill
<1>4. Below(R, S, x) \subseteq S /\ IsFiniteSet(Below(R, S, x))
  BY FS_Subset DEF Below
<1>5. Below(R, S, x) = {}
  BY <1>3, <1>4, FS_EmptySet
<1> QED BY <1>5 DEF Below, Orders

\* The first of those that are best: what a loop with a strict comparison
\* comes to.
LEMMA FirstOfLeast ==
    ASSUME NEW S, IsFiniteSet(S), S # {}, NEW f \in [S -> Int], NEW g \in [S -> Int],
           \A x, y \in S : g[x] = g[y] => x = y
    PROVE  \E x \in S : \A y \in S : f[x] < f[y] \/ (f[x] = f[y] /\ g[x] <= g[y])
<1> DEFINE R == {p \in S \X S : f[p[1]] < f[p[2]] \/ (f[p[1]] = f[p[2]] /\ g[p[1]] < g[p[2]])}
<1>1. \A x, y \in S : <<x, y>> \in R <=> f[x] < f[y] \/ (f[x] = f[y] /\ g[x] < g[y])
  OBVIOUS
<1>2. \A x \in S : f[x] \in Int /\ g[x] \in Int
  OBVIOUS
<1> HIDE DEF R
<1>3. Orders(R, S)
  BY <1>1, <1>2 DEF Orders
<1>4. PICK x \in S : \A y \in S : y = x \/ <<x, y>> \in R
  BY <1>3, FirstInOrder
<1>5. ASSUME NEW y \in S PROVE f[x] < f[y] \/ (f[x] = f[y] /\ g[x] <= g[y])
  <2>1. CASE y = x
    BY <1>2, <2>1
  <2>2. CASE <<x, y>> \in R
    BY <1>1, <1>2, <2>2
  <2> QED BY <1>4, <2>1, <2>2
<1> QED BY <1>5

----------------------------------------------------------------------------
(***************************************************************************)
(* collapseColocated: the groups part what was kept, and each has one head.*)
(***************************************************************************)

Parted(R, M, S) ==
    /\ Listing(R, ToSet(R)) /\ ToSet(R) \subseteq S /\ DOMAIN M = ToSet(R)
    /\ \A r \in ToSet(R) : /\ Listing(M[r], ToSet(M[r]))
                           /\ ToSet(M[r]) \subseteq S /\ M[r] # <<>>
    /\ \A r, s \in ToSet(R) : ToSet(M[r]) \cap ToSet(M[s]) # {} => r = s
    /\ \A c \in S : \E r \in ToSet(R) : c \in ToSet(M[r])

\* What is within the threshold of a place, from place to place.
Spot(w, S, a) == IF Colocate = 0 THEN {a} ELSE Component(w, Colocate, S, {a})

LEMMA SpotsAreParts ==
    ASSUME NEW S, IsFiniteSet(S), S \subseteq Nat, NEW w, Measures(w, S), NEW a \in S
    PROVE  /\ a \in Spot(w, S, a) /\ Spot(w, S, a) \subseteq S
           /\ IsFiniteSet(Spot(w, S, a))
           /\ Min(Spot(w, S, a)) \in Spot(w, S, a)
<1>1. a \in Spot(w, S, a) /\ Spot(w, S, a) \subseteq S
  <2>1. {a} \in SUBSET S /\ {a} # {}
    OBVIOUS
  <2>2. Component(w, Colocate, S, {a}) \in SUBSET S /\ {a} \subseteq Component(w, Colocate, S, {a})
    BY <2>1, ComponentIsLeastClosed
  <2> QED BY <2>2 DEF Spot
<1>2. IsFiniteSet(Spot(w, S, a))
  BY <1>1, FS_Subset
<1>3. Min(Spot(w, S, a)) \in Spot(w, S, a)
  <2> DEFINE X == Spot(w, S, a)
  <2>1. X \in SUBSET Nat /\ X # {}
    BY <1>1
  <2> HIDE DEF X
  <2>2. Min(X) \in X
    BY <2>1, MinIsLeast
  <2> QED BY <2>2 DEF X
<1> QED BY <1>1, <1>2, <1>3

LEMMA SpotsPart ==
    ASSUME NEW S, IsFiniteSet(S), S \subseteq Nat, NEW w, Measures(w, S),
           NEW a \in S, NEW b \in S, NEW c, c \in Spot(w, S, a), c \in Spot(w, S, b)
    PROVE  Spot(w, S, a) = Spot(w, S, b)
<1>1. Colocate \in Nat
  BY WalkMatrixAssumption
<1>2. CASE Colocate = 0
  BY <1>2 DEF Spot
<1>3. CASE Colocate # 0
  BY <1>1, <1>3, ComponentsPart DEF Spot
<1> QED BY <1>2, <1>3

\* A group is listed, and which it is only depends on the spot.
LEMMA GroupsList ==
    ASSUME NEW S, IsFiniteSet(S), S \subseteq Nat, NEW w, Measures(w, S), NEW stage,
           \A c \in S : stage[c] \in Nat, NEW a \in S
    PROVE  /\ Listing(Group(w, S, stage, a), Spot(w, S, a))
           /\ Group(w, S, stage, a)[1] \in Spot(w, S, a)
           /\ \A b \in S : Spot(w, S, a) = Spot(w, S, b)
                => Group(w, S, stage, a) = Group(w, S, stage, b)
<1> DEFINE T == Spot(w, S, a)
           f == Group(w, S, stage, a)
           n == Cardinality(T)
           R == {p \in T \X T : stage[p[1]] < stage[p[2]] \/ (stage[p[1]] = stage[p[2]] /\ p[1] < p[2])}
<1>1. a \in T /\ T \subseteq S /\ IsFiniteSet(T)
  BY SpotsAreParts
<1>2. f = [i \in 1..n |->
            CHOOSE x \in T : Cardinality({y \in T :
                stage[y] < stage[x] \/ (stage[y] = stage[x] /\ y < x)}) = i - 1]
  BY Zenon DEF Group, Ranked, Spot
<1>3. \A x \in T : stage[x] \in Nat /\ x \in Nat
  BY <1>1
<1>4. n \in Nat /\ n # 0
  BY <1>1, FS_CardinalityType, FS_EmptySet
<1> HIDE DEF T, f, n
<1>5. \A x, y \in T : <<x, y>> \in R <=>
          stage[x] < stage[y] \/ (stage[x] = stage[y] /\ x < y)
  OBVIOUS
<1> HIDE DEF R
<1>6. Orders(R, T)
  BY <1>3, <1>5 DEF Orders
<1>7. \A x \in T : Below(R, T, x) =
          {y \in T : stage[y] < stage[x] \/ (stage[y] = stage[x] /\ y < x)}
  BY <1>5 DEF Below
<1>8. ASSUME NEW i \in 1..n
      PROVE  f[i] \in T /\ Cardinality(Below(R, T, f[i])) = i - 1
  <2> DEFINE least(x) == Cardinality(Below(R, T, x)) = i - 1
  <2>1. f[i] = CHOOSE x \in T : Cardinality({y \in T :
                stage[y] < stage[x] \/ (stage[y] = stage[x] /\ y < x)}) = i - 1
    BY <1>2
  <2>2. f[i] = CHOOSE x \in T : least(x)
    BY <1>7, <2>1
  <2>3. \E x \in T : least(x)
    BY <1>1, <1>6, RanksFill DEF n
  <2> HIDE DEF least
  <2>4. f[i] \in T /\ least(f[i])
    BY <2>2, <2>3
  <2> QED BY <2>4 DEF least
<1>9. f \in [1..n -> T]
  BY <1>2, <1>8
<1>10. Lists(f, T)
  BY <1>1, <1>6, <1>8, <1>9, RankedLists DEF n
<1>11. Listing(f, T)
  BY <1>1, <1>10, ListsAreListings
<1>12. f[1] \in T
  BY <1>4, <1>8
<1>13. ASSUME NEW b \in S, T = Spot(w, S, b) PROVE f = Group(w, S, stage, b)
  <2>1. Group(w, S, stage, b) = [i \in 1..Cardinality(Spot(w, S, b)) |->
            CHOOSE x \in Spot(w, S, b) : Cardinality({y \in Spot(w, S, b) :
                stage[y] < stage[x] \/ (stage[y] = stage[x] /\ y < x)}) = i - 1]
    BY Zenon DEF Group, Ranked, Spot
  <2>2. Group(w, S, stage, b) = [i \in 1..Cardinality(T) |->
            CHOOSE x \in T : Cardinality({y \in T :
                stage[y] < stage[x] \/ (stage[y] = stage[x] /\ y < x)}) = i - 1]
    BY Zenon, <1>13, <2>1
  <2> QED BY Zenon, <1>2, <2>2 DEF n
<1> QED BY <1>11, <1>12, <1>13 DEF T, f

\* Every place on its own.
LEMMA Uncollapsed ==
    ASSUME NEW S, NEW R, Listing(R, S), NEW M, M = [r \in S |-> <<r>>]
    PROVE  Parted(R, M, S)
<1>1. ToSet(R) = S
  BY ListingIsFinite
<1>2. ASSUME NEW r \in S PROVE Listing(M[r], {r}) /\ ToSet(M[r]) = {r} /\ M[r] # <<>>
  <2>1. M[r] = <<r>>
    OBVIOUS
  <2>2. <<r>> \in Seq({r}) /\ Len(<<r>>) = 1 /\ <<r>>[1] = r
    OBVIOUS
  <2>3. Listing(<<r>>, {r})
    BY <2>2 DEF Listing
  <2>4. ToSet(<<r>>) = {r} /\ <<r>> # <<>>
    BY <2>3, ListingIsFinite
  <2> QED BY <2>1, <2>3, <2>4
<1>3. DOMAIN M = S
  OBVIOUS
<1>4. ASSUME NEW r \in S
      PROVE  Listing(M[r], ToSet(M[r])) /\ ToSet(M[r]) \subseteq S /\ M[r] # <<>>
  <2>1. Listing(M[r], {r}) /\ ToSet(M[r]) = {r} /\ M[r] # <<>>
    BY <1>2
  <2> QED BY <2>1
<1>5. \A r, s \in S : ToSet(M[r]) \cap ToSet(M[s]) # {} => r = s
  BY <1>2
<1>6. \A c \in S : \E r \in S : c \in ToSet(M[r])
  BY <1>2
<1>7. Listing(R, ToSet(R)) /\ ToSet(R) \subseteq S
  BY <1>1
<1> QED BY <1>1, <1>3, <1>4, <1>5, <1>6, <1>7 DEF Parted

\* The groups of two or more part what was kept, or every place is on its own.
LEMMA GroupsPart ==
    ASSUME NEW S, IsFiniteSet(S), S \subseteq Nat, NEW w, Measures(w, S), NEW stage,
           \A c \in S : stage[c] \in Nat
    PROVE  /\ Parted(Representatives(w, S, stage), Members(w, S, stage), S)
           /\ Cardinality(S) >= 2 => Len(Representatives(w, S, stage)) >= 2
<1> DEFINE T(a) == Spot(w, S, a)
           G(a) == Group(w, S, stage, a)
           F == {Min(ToSet(G(a))) : a \in S}
           firsts == Sorted(F)
           R == Representatives(w, S, stage)
           M == Members(w, S, stage)
           n == Cardinality(S)
<1> HIDE DEF T, G, F, firsts, R, M, n
<1>1. ASSUME NEW a \in S
      PROVE  /\ a \in T(a) /\ T(a) \subseteq S /\ Min(T(a)) \in T(a)
             /\ \A b \in S : \A c : c \in T(a) /\ c \in T(b) => T(a) = T(b)
  <2>1. /\ a \in Spot(w, S, a) /\ Spot(w, S, a) \subseteq S
        /\ Min(Spot(w, S, a)) \in Spot(w, S, a)
    BY SpotsAreParts
  <2>2. ASSUME NEW b \in S, NEW c, c \in Spot(w, S, a), c \in Spot(w, S, b)
        PROVE  Spot(w, S, a) = Spot(w, S, b)
    BY <2>2, SpotsPart
  <2> QED BY <2>1, <2>2 DEF T
<1>2. ASSUME NEW a \in S
      PROVE  /\ Listing(G(a), T(a)) /\ G(a)[1] \in T(a)
             /\ \A b \in S : T(a) = T(b) => G(a) = G(b)
  BY GroupsList DEF T, G
<1>3. \A a \in S : ToSet(G(a)) = T(a) /\ G(a) # <<>>
  <2> SUFFICES ASSUME NEW a \in S PROVE ToSet(G(a)) = T(a) /\ G(a) # <<>>
    OBVIOUS
  <2>1. Listing(G(a), T(a)) /\ T(a) # {}
    BY <1>1, <1>2
  <2> HIDE DEF G, T
  <2> QED BY <2>1, ListingIsFinite
<1>4. R = IF Len(firsts) >= 2 THEN [i \in DOMAIN firsts |-> G(firsts[i])[1]] ELSE Sorted(S)
  BY Zenon DEF Representatives, R, G, F, firsts
<1>5. M = [r \in ToSet(R) |-> IF Len(R) = n THEN <<r>> ELSE G(r)]
  BY Zenon DEF Members, M, R, G, n
<1>6. F = {Min(T(a)) : a \in S}
  BY <1>3 DEF F
<1>7. F \subseteq S
  BY <1>1, <1>6
<1>8. \A f \in F : f = Min(T(f))
  <2> SUFFICES ASSUME NEW a \in S PROVE Min(T(a)) = Min(T(Min(T(a))))
    BY <1>6
  <2> DEFINE f == Min(T(a))
  <2>1. f \in T(a) /\ f \in S
    BY <1>1
  <2> HIDE DEF f
  <2>2. f \in T(f)
    BY <1>1, <2>1
  <2>3. T(a) = T(f)
    BY <1>1, <2>1, <2>2
  <2> QED BY <2>3 DEF f
<1>9. IsFiniteSet(F) /\ F \subseteq Nat
  <2>1. IsFiniteSet(F)
    BY <1>7, FS_Subset
  <2> QED BY <1>7, <2>1
<1>10. Listing(firsts, F) /\ Len(firsts) \in Nat /\ DOMAIN firsts = 1..Len(firsts)
  <2>1. Listing(firsts, F)
    BY <1>9, SortedLists, ListsAreListings DEF firsts
  <2> QED BY <2>1, ListingIsFinite
<1>11. Listing(Sorted(S), S) /\ Len(Sorted(S)) = n /\ n \in Nat
  BY SortedLists, ListsAreListings, FS_CardinalityType DEF n
<1>12. CASE ~(Len(firsts) >= 2)
  <2>1. R = Sorted(S)
    BY <1>4, <1>12
  <2>2. Listing(R, S) /\ Len(R) = n
    BY <1>11, <2>1
  <2>3. ToSet(R) = S
    BY <2>2, ListingIsFinite
  <2>4. M = [r \in S |-> <<r>>]
    BY <1>5, <2>2, <2>3
  <2>5. Parted(R, M, S)
    BY <2>2, <2>4, Uncollapsed
  <2> QED BY <1>11, <2>2, <2>5 DEF R, M, n
<1>13. CASE Len(firsts) >= 2
  <2> DEFINE k == Len(firsts)
             P == {G(f)[1] : f \in F}
  <2>1. k \in Nat /\ firsts \in [1..k -> F] /\ DOMAIN firsts = 1..k
    BY <1>10, ListingIsFinite
  <2>2. /\ \A i, j \in 1..k : firsts[i] = firsts[j] => i = j
        /\ \A f \in F : \E i \in 1..k : firsts[i] = f
    BY <1>10 DEF Listing
  <2> HIDE DEF k
  <2>3. R = [i \in 1..k |-> G(firsts[i])[1]]
    BY <1>4, <1>13, <2>1
  <2>4. ASSUME NEW f \in F
        PROVE  /\ f \in S /\ G(f)[1] \in T(f) /\ G(f)[1] \in S
               /\ T(G(f)[1]) = T(f) /\ G(G(f)[1]) = G(f)
    <3> DEFINE r == G(f)[1]
    <3>1. f \in S /\ r \in T(f) /\ r \in S
      BY <1>1, <1>2, <1>7
    <3> HIDE DEF r
    <3>2. r \in T(r)
      BY <1>1, <3>1
    <3>3. T(r) = T(f)
      BY <1>1, <3>1, <3>2
    <3>4. G(r) = G(f)
      BY <1>2, <3>1, <3>3
    <3> QED BY <3>1, <3>3, <3>4 DEF r
  <2>5. R \in [1..k -> P]
    BY <2>1, <2>3
  <2>6. ASSUME NEW i \in 1..k, NEW j \in 1..k, R[i] = R[j] PROVE i = j
    <3>1. firsts[i] \in F /\ firsts[j] \in F /\ R[i] = G(firsts[i])[1] /\ R[j] = G(firsts[j])[1]
      BY <2>1, <2>3
    <3>2. T(firsts[i]) = T(firsts[j])
      BY <2>4, <2>6, <3>1
    <3>3. firsts[i] = firsts[j]
      BY <1>8, <3>1, <3>2
    <3> QED BY <2>2, <3>3
  <2>7. ASSUME NEW x \in P PROVE \E i \in 1..k : R[i] = x
    <3>1. PICK f \in F : x = G(f)[1]
      OBVIOUS
    <3>2. PICK i \in 1..k : firsts[i] = f
      BY <2>2
    <3> QED BY <2>3, <3>1, <3>2
  <2>8. P \subseteq S
    BY <2>4
  <2>9. \A r \in P : T(r) \subseteq S /\ G(r)[1] = r /\ Listing(G(r), T(r))
          /\ ToSet(G(r)) = T(r) /\ G(r) # <<>>
    <3> SUFFICES ASSUME NEW f \in F
                 PROVE  LET r == G(f)[1] IN T(r) \subseteq S /\ G(r)[1] = r
                            /\ Listing(G(r), T(r)) /\ ToSet(G(r)) = T(r) /\ G(r) # <<>>
      OBVIOUS
    <3> DEFINE r == G(f)[1]
    <3>1. r \in S /\ G(r) = G(f)
      BY <2>4
    <3>2. G(r)[1] = r
      BY <3>1
    <3> HIDE DEF r
    <3>3. T(r) \subseteq S /\ Listing(G(r), T(r)) /\ ToSet(G(r)) = T(r) /\ G(r) # <<>>
      BY <1>1, <1>2, <1>3, <3>1
    <3> QED BY <3>2, <3>3 DEF r
  <2>10. \A c \in S : \E r \in P : c \in T(r)
    <3> SUFFICES ASSUME NEW c \in S PROVE \E r \in P : c \in T(r)
      OBVIOUS
    <3> DEFINE f == Min(T(c))
    <3>1. f \in F /\ f \in T(c) /\ f \in S
      BY <1>1, <1>6
    <3> HIDE DEF f
    <3>2. f \in T(f)
      BY <1>1, <3>1
    <3>3. T(f) = T(c) /\ c \in T(c)
      BY <1>1, <3>1, <3>2
    <3>4. T(G(f)[1]) = T(f) /\ G(f)[1] \in P
      BY <2>4, <3>1
    <3> QED BY <3>3, <3>4
  <2> HIDE DEF P
  <2>11. Listing(R, P) /\ Len(R) = k
    BY <2>1, <2>5, <2>6, <2>7, ListingOf
  <2>12. ToSet(R) = P /\ Cardinality(P) = k /\ IsFiniteSet(P)
    BY <2>11, ListingIsFinite
  <2>13. CASE Len(R) = n
    <3>1. P = S
      <4>1. Cardinality(P) = Cardinality(S)
        BY <2>11, <2>12, <2>13 DEF n
      <4> QED BY <2>8, <4>1, FS_Subset
    <3>2. M = [r \in S |-> <<r>>]
      BY <1>5, <2>12, <2>13, <3>1
    <3>3. Parted(R, M, S)
      BY <2>11, <3>1, <3>2, Uncollapsed
    <3> QED BY <1>13, <2>11, <3>3 DEF R, M, k, n
  <2>14. CASE Len(R) # n
    <3>1. M = [r \in P |-> G(r)]
      BY <1>5, <2>12, <2>14
    <3>2. \A r \in P : M[r] = G(r)
      BY <3>1
    <3>3. DOMAIN M = P
      BY <3>1
    <3>4. \A r \in P : Listing(M[r], ToSet(M[r])) /\ ToSet(M[r]) \subseteq S /\ M[r] # <<>>
      <4> SUFFICES ASSUME NEW r \in P
                   PROVE Listing(M[r], ToSet(M[r])) /\ ToSet(M[r]) \subseteq S /\ M[r] # <<>>
        OBVIOUS
      <4>1. M[r] = G(r)
        BY <3>2
      <4>2. T(r) \subseteq S /\ Listing(G(r), T(r)) /\ ToSet(G(r)) = T(r) /\ G(r) # <<>>
        BY <2>9
      <4> QED BY <4>1, <4>2
    <3>5. ASSUME NEW r \in P, NEW s \in P, NEW c, c \in ToSet(M[r]), c \in ToSet(M[s])
          PROVE  r = s
      <4>1. c \in T(r) /\ c \in T(s)
        BY <2>9, <3>2, <3>5
      <4>2. T(r) = T(s)
        BY <1>1, <2>8, <4>1
      <4>3. G(r) = G(s)
        BY <1>2, <2>8, <4>2
      <4> QED BY <2>9, <4>3
    <3>6. \A r, s \in P : ToSet(M[r]) \cap ToSet(M[s]) # {} => r = s
      BY <3>5
    <3>7. \A c \in S : \E r \in P : c \in ToSet(M[r])
      BY <2>9, <2>10, <3>2
    <3>8. Parted(R, M, S)
      BY <2>8, <2>11, <2>12, <3>3, <3>4, <3>6, <3>7 DEF Parted
    <3> QED BY <1>13, <2>11, <3>8 DEF R, M, k, n
  <2> QED BY <2>13, <2>14
<1> QED BY <1>12, <1>13

----------------------------------------------------------------------------
(***************************************************************************)
(* A route is expanded group by group.                                     *)
(***************************************************************************)

\* u holds what the first k sequences come to, for every k.
Joins(u, n, seqs, V) ==
    /\ u \in [1..n -> Seq(V)]
    /\ u[1] = seqs[1]
    /\ \A k \in 2..n : u[k] = u[k - 1] \o seqs[k]

LEMMA FlattenUnfolds ==
    ASSUME NEW n \in Nat \ {0}, NEW V, NEW seqs \in [1..n -> Seq(V)]
    PROVE  \E u : Joins(u, n, seqs, V) /\ FlattenSeq(seqs) = u[n]
<1> DEFINE W == Seq(V)
           cat(x, i) == x \o seqs[i]
           P(f) == f = [i \in 1..n |-> IF i = 1 THEN seqs[i] ELSE cat(f[i - 1], i)]
           step == [x \in (1..(n - 1)) \X W |-> cat(x[2], x[1] + 1)]
           base == seqs[1]
<1>1. Len(seqs) = n /\ Len(seqs) # 0
  BY LenOfFunction
<1>2. FlattenSeq(seqs) = (CHOOSE f : P(f))[n]
  <2>1. FlattenSeq(seqs) =
          (CHOOSE f : f = [i \in 1..Len(seqs) |-> IF i = 1 THEN seqs[i] ELSE f[i - 1] \o seqs[i]])[Len(seqs)]
    BY Zenon, <1>1 DEF FlattenSeq
  <2> QED BY Zenon, <1>1, <2>1
<1>3. \A i \in 1..n : seqs[i] \in W
  OBVIOUS
<1>4. \A x \in W, i \in 1..n : cat(x, i) \in W
  <2> SUFFICES ASSUME NEW x \in W, NEW i \in 1..n PROVE x \o seqs[i] \in W
    OBVIOUS
  <2>1. x \in Seq(V) /\ seqs[i] \in Seq(V)
    OBVIOUS
  <2> QED BY <2>1, ConcatProperties
<1> HIDE DEF W, cat
<1>5. step \in [(1..(n - 1)) \X W -> W] /\ base \in W /\ n - 1 \in Nat
  <2>1. \A k \in 1..(n - 1) : k + 1 \in 1..n
    OBVIOUS
  <2> QED BY <1>3, <1>4, <2>1
<1>6. PICK g : Runs(g, n - 1, W, base, step)
  <2> HIDE DEF step, base
  <2> QED BY <1>5, RecursionExists
<1> DEFINE h == [i \in 1..n |-> g[i - 1]]
<1>7. g \in [0..(n - 1) -> W] /\ g[0] = base /\ \A k \in 1..(n - 1) : g[k] = step[<<k, g[k - 1]>>]
  BY <1>6 DEF Runs
<1>8. \A i \in 1..n : h[i] \in W
  BY <1>7
<1>9. h[1] = seqs[1]
  BY <1>7
<1>10. ASSUME NEW i \in 2..n PROVE h[i] = cat(h[i - 1], i)
  <2>1. i - 1 \in 1..(n - 1) /\ (i - 1) - 1 \in 0..(n - 1) /\ i \in 1..n /\ i - 1 \in 1..n
    OBVIOUS
  <2>2. h[i] = g[i - 1] /\ h[i - 1] = g[(i - 1) - 1]
    BY <2>1
  <2>3. g[i - 1] = step[<<i - 1, g[(i - 1) - 1]>>]
    BY <1>7, <2>1
  <2>4. <<i - 1, g[(i - 1) - 1]>> \in (1..(n - 1)) \X W
    BY <1>7, <2>1
  <2>5. step[<<i - 1, g[(i - 1) - 1]>>] = cat(g[(i - 1) - 1], (i - 1) + 1)
    BY <2>4
  <2>6. (i - 1) + 1 = i
    OBVIOUS
  <2> HIDE DEF step, h
  <2> QED BY <2>2, <2>3, <2>5, <2>6
<1>11. DOMAIN h = 1..n
  OBVIOUS
<1> HIDE DEF step, h
<1>12. P(h)
  <2>1. \A i \in 1..n : i # 1 => i \in 2..n
    OBVIOUS
  <2>2. \A i \in 1..n : h[i] = IF i = 1 THEN seqs[i] ELSE cat(h[i - 1], i)
    BY <1>9, <1>10, <2>1
  <2>3. h = [i \in DOMAIN h |-> h[i]]
    BY <1>11 DEF h
  <2> QED BY <1>11, <2>2, <2>3
<1>13. P(CHOOSE f : P(f))
  <2> HIDE DEF P
  <2> QED BY <1>12
<1> DEFINE u == CHOOSE f : P(f)
<1>14. u = [i \in 1..n |-> IF i = 1 THEN seqs[i] ELSE cat(u[i - 1], i)]
  BY <1>13
<1> HIDE DEF u, P
<1>15. u[1] = seqs[1] /\ \A i \in 2..n : u[i] = cat(u[i - 1], i)
  BY <1>14
<1>16. ASSUME NEW i \in 1..n PROVE u[i] \in W
  <2> DEFINE T == {k \in 0..(n - 1) : u[k + 1] \in W}
  <2>1. 0 \in T
    BY <1>3, <1>15
  <2>2. ASSUME NEW k \in 0..((n - 1) - 1), k \in T PROVE k + 1 \in T
    <3>1. (k + 1) + 1 \in 2..n /\ ((k + 1) + 1) - 1 = k + 1 /\ k + 1 \in 0..(n - 1) /\ (k + 1) + 1 \in 1..n
      OBVIOUS
    <3>2. u[(k + 1) + 1] = cat(u[k + 1], (k + 1) + 1)
      BY <1>15, <3>1
    <3>3. u[k + 1] \in W
      BY <2>2
    <3>4. u[(k + 1) + 1] \in W
      BY <1>4, <3>1, <3>2, <3>3
    <3> QED BY <3>1, <3>4
  <2>3. \A k \in 0..(n - 1) : k \in T
    <3>1. n - 1 \in Nat
      OBVIOUS
    <3> HIDE DEF T
    <3> QED BY <2>1, <2>2, <3>1, AllUpTo
  <2>4. i - 1 \in 0..(n - 1) /\ (i - 1) + 1 = i
    OBVIOUS
  <2> QED BY <2>3, <2>4
<1>17. u \in [1..n -> W]
  BY <1>14, <1>16
<1>18. Joins(u, n, seqs, V)
  BY <1>15, <1>17 DEF Joins, W, cat
<1> QED BY <1>2, <1>18 DEF u

\* Going through the sequences one by one.
LEMMA AllJoined ==
    ASSUME NEW n \in Nat \ {0}, NEW T, 1 \in T, \A k \in 2..n : k - 1 \in T => k \in T
    PROVE  n \in T
<1> DEFINE U == {k \in 0..(n - 1) : k + 1 \in T}
<1>1. 0 \in U
  OBVIOUS
<1>2. ASSUME NEW k \in 0..((n - 1) - 1), k \in U PROVE k + 1 \in U
  <2>1. (k + 1) + 1 \in 2..n /\ ((k + 1) + 1) - 1 = k + 1 /\ k + 1 \in 0..(n - 1)
    OBVIOUS
  <2>2. k + 1 \in T
    BY <1>2
  <2>3. (k + 1) + 1 \in T
    BY <2>1, <2>2
  <2> QED BY <2>1, <2>3
<1>3. n - 1 \in U
  <2>1. n - 1 \in Nat /\ n - 1 \in 0..(n - 1)
    OBVIOUS
  <2>2. \A k \in 0..(n - 1) : k \in U
    <3> HIDE DEF U
    <3> QED BY <1>1, <1>2, <2>1, AllUpTo
  <2> QED BY <2>1, <2>2
<1>4. (n - 1) + 1 = n
  OBVIOUS
<1> QED BY <1>3, <1>4

\* The groups of a listing of heads, one after another, list their members.
LEMMA FlattenedListing ==
    ASSUME NEW S, NEW R, NEW M, Parted(R, M, S),
           NEW P \in SUBSET ToSet(R), NEW t, Listing(t, P), t # <<>>
    PROVE  Listing(FlattenSeq([i \in DOMAIN t |-> M[t[i]]]), UNION {ToSet(M[r]) : r \in P})
<1> DEFINE n == Len(t)
           seqs == [i \in DOMAIN t |-> M[t[i]]]
           A(i) == ToSet(M[t[i]])
           B(k) == UNION {A(i) : i \in 1..k}
<1>1. /\ n \in Nat /\ t \in [1..n -> P] /\ DOMAIN t = 1..n /\ P # {}
  BY ListingIsFinite
<1>2. n # 0
  BY <1>1 DEF Listing
<1>3. /\ \A i, j \in 1..n : t[i] = t[j] => i = j
      /\ \A r \in P : \E i \in 1..n : t[i] = r
  BY DEF Listing
<1> HIDE DEF n
<1>4. \A i \in 1..n : t[i] \in P /\ t[i] \in ToSet(R)
  BY <1>1
<1>5. \A i \in 1..n : Listing(M[t[i]], A(i)) /\ A(i) \subseteq S
  BY <1>4 DEF Parted
<1>6. \A i, j \in 1..n : A(i) \cap A(j) # {} => i = j
  <2> SUFFICES ASSUME NEW i \in 1..n, NEW j \in 1..n, A(i) \cap A(j) # {} PROVE i = j
    OBVIOUS
  <2>1. t[i] = t[j]
    BY <1>4 DEF Parted
  <2> QED BY <1>3, <2>1
<1>7. \A i \in 1..n : M[t[i]] \in Seq(S)
  <2> SUFFICES ASSUME NEW i \in 1..n PROVE M[t[i]] \in Seq(S)
    OBVIOUS
  <2> DEFINE s == M[t[i]]
             X == A(i)
  <2>1. Listing(s, X) /\ X \subseteq S
    BY <1>5
  <2> HIDE DEF s, X
  <2>2. Len(s) \in Nat /\ s \in [1..Len(s) -> X]
    BY <2>1, ListingIsFinite
  <2>3. s \in [1..Len(s) -> S]
    BY <2>1, <2>2
  <2>4. s \in Seq(S)
    BY <2>2, <2>3, LenOfFunction
  <2> QED BY <2>4 DEF s
<1>8. seqs \in [1..n -> Seq(S)] /\ \A i \in 1..n : seqs[i] = M[t[i]]
  BY <1>1, <1>7
<1> HIDE DEF seqs, A
<1>9. PICK u : Joins(u, n, seqs, S) /\ FlattenSeq(seqs) = u[n]
  BY <1>1, <1>2, <1>8, FlattenUnfolds
<1> DEFINE T == {k \in 1..n : Listing(u[k], B(k))}
<1>10. 1 \in T
  <2>1. B(1) = A(1) /\ 1 \in 1..n
    BY <1>1, <1>2
  <2>2. u[1] = M[t[1]]
    BY <1>8, <1>9, <2>1 DEF Joins
  <2>3. Listing(M[t[1]], A(1))
    BY <1>5, <2>1
  <2> HIDE DEF B
  <2> QED BY <2>1, <2>2, <2>3
<1>11. ASSUME NEW k \in 2..n, k - 1 \in T PROVE k \in T
  <2>1. k \in 1..n /\ k - 1 \in 1..n /\ k \notin 1..(k - 1)
    BY <1>1
  <2>2. u[k] = u[k - 1] \o M[t[k]]
    BY <1>8, <1>9, <2>1 DEF Joins
  <2>3. Listing(u[k - 1], B(k - 1)) /\ Listing(M[t[k]], A(k))
    BY <1>5, <1>11, <2>1
  <2>4. B(k - 1) \cap A(k) = {}
    <3> SUFFICES ASSUME NEW i \in 1..(k - 1), A(i) \cap A(k) # {} PROVE FALSE
      OBVIOUS
    <3>1. i \in 1..n /\ i # k
      BY <1>1, <2>1
    <3> QED BY <1>6, <2>1, <3>1
  <2>5. B(k - 1) \cup A(k) = B(k)
    <3>1. \A i \in 1..k : i \in 1..(k - 1) \/ i = k
      OBVIOUS
    <3>2. \A i \in 1..(k - 1) : i \in 1..k
      OBVIOUS
    <3>3. k \in 1..k
      BY <2>1
    <3> QED BY <3>1, <3>2, <3>3
  <2> HIDE DEF B
  <2>6. Listing(u[k - 1] \o M[t[k]], B(k - 1) \cup A(k))
    BY <2>3, <2>4, JoinedListings
  <2> QED BY <2>1, <2>2, <2>5, <2>6
<1>12. n \in T
  <2> HIDE DEF T
  <2> QED BY <1>1, <1>2, <1>10, <1>11, AllJoined
<1>13. B(n) = UNION {ToSet(M[r]) : r \in P}
  <2>1. \A r \in P : \E i \in 1..n : A(i) = ToSet(M[r])
    BY <1>3 DEF A
  <2>2. \A i \in 1..n : \E r \in P : A(i) = ToSet(M[r])
    BY <1>4 DEF A
  <2> QED BY <2>1, <2>2
<1>14. Listing(u[n], B(n))
  BY <1>12
<1> HIDE DEF B
<1> QED BY <1>9, <1>13, <1>14 DEF seqs

----------------------------------------------------------------------------
(***************************************************************************)
(* The stops and what was dropped share out the representatives.           *)
(***************************************************************************)

Reasons == {"budget", "outlier", "fringe", "adventure-incomplete", "unreachable"}

\* A listing of stops and one of drops, with nothing in both and nothing lost.
Split(t, ds, R, A, D) ==
    /\ Listing(t, A)
    /\ Listing(ds, D) /\ D \in SUBSET [id : R, reason : Reasons]
    /\ \A d, e \in D : d.id = e.id => d = e
    /\ A \cap Dropped(D) = {}
    /\ A \cup Dropped(D) = R

Shares(t, ds, R) == \E A, D : Split(t, ds, R, A, D)

LEMMA EmptyListing == Listing(<<>>, {})
BY EmptySeq DEF Listing

LEMMA SingleListing ==
    ASSUME NEW x
    PROVE  Listing(<<x>>, {x}) /\ Len(<<x>>) = 1
<1>1. <<x>> \in Seq({x}) /\ Len(<<x>>) = 1 /\ <<x>>[1] = x
  OBVIOUS
<1> QED BY <1>1 DEF Listing

\* At first nothing was dropped.
LEMMA NothingDropped ==
    ASSUME NEW A, NEW t, Listing(t, A)
    PROVE  Shares(t, <<>>, A)
<1>1. Dropped({}) = {}
  BY DEF Dropped
<1>2. Split(t, <<>>, A, A, {})
  BY <1>1, EmptyListing DEF Split
<1> QED BY <1>2 DEF Shares

\* A stop that goes is put down.
LEMMA OneDropped ==
    ASSUME NEW R, NEW t, NEW ds, Shares(t, ds, R), NEW p \in 1..Len(t), NEW reason \in Reasons
    PROVE  /\ Shares(Without(t, p), Append(ds, [id |-> t[p], reason |-> reason]), R)
           /\ Len(Without(t, p)) = Len(t) - 1
<1>1. PICK A, D : Split(t, ds, R, A, D)
  BY DEF Shares
<1> DEFINE d == [id |-> t[p], reason |-> reason]
           u == Without(t, p)
           B == A \ {t[p]}
           E == D \cup {d}
<1>2. Listing(t, A) /\ Listing(ds, D) /\ D \in SUBSET [id : R, reason : Reasons]
      /\ (\A x, y \in D : x.id = y.id => x = y)
      /\ A \cap Dropped(D) = {} /\ A \cup Dropped(D) = R
  BY <1>1 DEF Split
<1>3. t[p] \in A
  BY <1>2, ListingIsFinite
<1>4. Listing(u, B) /\ Len(u) = Len(t) - 1
  BY <1>2, ShortenedListing
<1>5. d \in [id : R, reason : Reasons] /\ d.id = t[p]
  BY <1>2, <1>3
<1>6. d \notin D
  BY <1>2, <1>3, <1>5 DEF Dropped
<1> HIDE DEF d, u
<1>7. Listing(Append(ds, d), E)
  <2>1. Listing(<<d>>, {d})
    BY SingleListing
  <2>2. D \cap {d} = {}
    BY <1>6
  <2>3. Listing(ds \o <<d>>, D \cup {d})
    BY <1>2, <2>1, <2>2, JoinedListings
  <2>4. ds \in Seq(D \cup {d})
    <3>1. Len(ds) \in Nat /\ ds \in [1..Len(ds) -> D]
      BY <1>2, ListingIsFinite
    <3>2. ds \in [1..Len(ds) -> D \cup {d}]
      BY <3>1
    <3> QED BY <3>1, <3>2, LenOfFunction
  <2>5. Append(ds, d) = ds \o <<d>>
    BY <2>4, AppendIsConcat
  <2> QED BY <2>3, <2>5
<1>8. Dropped(E) = Dropped(D) \cup {t[p]}
  BY <1>5 DEF Dropped
<1>9. E \in SUBSET [id : R, reason : Reasons]
  BY <1>2, <1>5
<1>10. ASSUME NEW x \in E, NEW y \in E, x.id = y.id PROVE x = y
  <2>1. \A z \in D : z.id # t[p]
    BY <1>2, <1>3 DEF Dropped
  <2> QED BY <1>2, <1>5, <1>10, <2>1
<1>11. B \cap Dropped(E) = {} /\ B \cup Dropped(E) = R
  BY <1>2, <1>3, <1>8
<1>12. Split(u, Append(ds, d), R, B, E)
  <2> HIDE DEF E, B
  <2> QED BY <1>4, <1>7, <1>9, <1>10, <1>11 DEF Split
<1> QED BY <1>4, <1>12 DEF Shares, d, u

\* The stops may change places.
LEMMA StopsReordered ==
    ASSUME NEW R, NEW t, NEW ds, Shares(t, ds, R), NEW u, \A A : Listing(t, A) => Listing(u, A)
    PROVE  Shares(u, ds, R)
<1>1. PICK A, D : Split(t, ds, R, A, D)
  BY DEF Shares
<1>2. Split(u, ds, R, A, D)
  BY <1>1 DEF Split
<1> QED BY <1>2 DEF Shares

LEMMA SharesAreListed ==
    ASSUME NEW R, NEW t, NEW ds, Shares(t, ds, R)
    PROVE  /\ Listing(t, ToSet(t)) /\ ToSet(t) \subseteq R
           /\ Listing(ds, ToSet(ds)) /\ ToSet(ds) \in SUBSET [id : R, reason : Reasons]
           /\ \A d, e \in ToSet(ds) : d.id = e.id => d = e
           /\ ToSet(t) \cap Dropped(ToSet(ds)) = {} /\ ToSet(t) \cup Dropped(ToSet(ds)) = R
           /\ Split(t, ds, R, ToSet(t), ToSet(ds))
<1>1. PICK A, D : Split(t, ds, R, A, D)
  BY DEF Shares
<1>2. ToSet(t) = A /\ ToSet(ds) = D
  BY <1>1, ListingIsFinite DEF Split
<1> QED BY <1>1, <1>2 DEF Split

----------------------------------------------------------------------------
(***************************************************************************)
(* What the planners choose from has a least, and that is what they take.  *)
(***************************************************************************)

\* Parking is some way from each of S.
Walks(w, S, l) == \A a \in S : w[l][a] \in Nat /\ w[a][l] \in Nat

LEMMA ClosureCells ==
    ASSUME NEW S, IsFiniteSet(S), S \subseteq Nat, NEW w, Measures(w, S),
           NEW a \in S, NEW b \in S, a # b
    PROVE  Closure(w, S)[a][b] \in Nat
<1> DEFINE N == Cardinality(S)
<1>1. PICK d : ClosedBy(d, w, S)
  BY ClosureUnfolds
<1>2. /\ Rounds(d, Sorted(S), N, w, S)
      /\ \A x, y \in S : Closure(w, S)[x][y] =
            IF x # y /\ w[x][y] < Infinity THEN w[x][y] ELSE d[N][x][y]
  BY <1>1 DEF ClosedBy
<1> HIDE DEF N
<1>3. N \in 0..N /\ d \in [0..N -> [S -> [S -> 0..Infinity]]]
  BY <1>2 DEF Rounds
<1>4. d[N][a][b] \in 0..Infinity
  BY <1>3
<1>5. w[a][b] \in Nat
  BY DEF Measures
<1> QED BY <1>2, <1>4, <1>5, InfinityAssumption

LEMMA ClosureMeasures ==
    ASSUME NEW S, IsFiniteSet(S), S \subseteq Nat, NEW w, Measures(w, S)
    PROVE  Measures(Closure(w, S), S)
<1>1. \A a, b \in S : a # b => Closure(w, S)[a][b] \in Nat
  BY ClosureCells
<1> QED BY <1>1 DEF Measures

LEMMA StateIsMeasured ==
    ASSUME NEW r, Begun(r), Ready, phase \notin {"requested", "failed"}
    PROVE  /\ Parted(reps, prep.members, Kept) /\ Len(reps) >= 2 /\ Len(reps) \in Nat
           /\ Listing(reps, ToSet(reps)) /\ ToSet(reps) \subseteq Kept
           /\ Measures(dist, Kept)
           /\ \A l \in ParkingPlaces : Walks(walk, Kept, l)
           /\ prep.unreachable = ToSet(Selected) \ Kept
<1>1. /\ IsFiniteSet(Kept) /\ Kept \subseteq Nat /\ Kept \subseteq Candidates(r)
      /\ Measures(walk, Kept)
  BY KeptAreMeasured
<1>2. prep = Prepared /\ ~CannotLoop
  BY DEF Ready
<1> DEFINE S == Kept
           d == Closure(walk, S)
<1>3. /\ dist = d /\ reps = Representatives(d, S, Stage) /\ prep.members = Members(d, S, Stage)
      /\ prep.unreachable = ToSet(Selected) \ Kept
  BY <1>2 DEF Prepared, dist, reps
<1>4. Measures(d, S)
  <2>1. IsFiniteSet(S) /\ S \subseteq Nat /\ Measures(walk, S)
    BY <1>1
  <2> HIDE DEF S
  <2> QED BY <2>1, ClosureMeasures
<1>5. /\ r \in Requests /\ request.walk = r.walk /\ Candidates(r) \cap ParkingPlaces = {}
      /\ \A c \in Candidates(r) : Stage[c] \in Nat
      /\ \A a, b \in Candidates(r) \cup ParkingPlaces : a # b => r.walk[a][b] \in Nat
  BY RequestsAreMeasured DEF Begun
<1>6. Parted(reps, prep.members, S) /\ Len(reps) >= 2
  <2>1. \A c \in S : Stage[c] \in Nat
    BY <1>1, <1>5
  <2>2. Cardinality(S) >= 2
    BY <1>1, <1>2, FS_CardinalityType DEF CannotLoop
  <2>3. IsFiniteSet(S) /\ S \subseteq Nat
    BY <1>1
  <2> HIDE DEF S, d
  <2> QED BY <1>3, <1>4, <2>1, <2>2, <2>3, GroupsPart
<1>7. Listing(reps, ToSet(reps)) /\ ToSet(reps) \subseteq Kept
  BY <1>6 DEF Parted
<1>8. Len(reps) \in Nat
  BY <1>7, ListingIsFinite
<1>9. ASSUME NEW l \in ParkingPlaces, NEW a \in Kept
      PROVE  walk[l][a] \in Nat /\ walk[a][l] \in Nat
  <2>1. a \in Candidates(r) /\ a # l
    BY <1>1, <1>5
  <2> QED BY <1>5, <2>1 DEF walk
<1> QED BY <1>3, <1>4, <1>6, <1>7, <1>8, <1>9 DEF Walks

\* bestParkingInsertion
LEMMA InsertionIsFound ==
    ASSUME NEW S, NEW d, Measures(d, S), NEW w, NEW l, Walks(w, S, l),
           NEW A \in SUBSET S, NEW t, Listing(t, A), t # <<>>
    PROVE  BestInsertion(d, w, l, t) \in 1..Len(t) /\ BestInsertionCost(d, w, l, t) \in Int
<1> DEFINE n == Len(t)
           f == [i \in 1..n |-> InsertionCost(d, w, l, t, i)]
           g == [i \in 1..n |-> i]
<1>1. n \in Nat /\ n # 0 /\ DOMAIN t = 1..n /\ \A i \in 1..n : t[i] \in S
  BY ListingIsFinite, EmptySeq
<1>2. Infinity \in Nat
  BY InfinityAssumption
<1>3. ASSUME NEW i \in 1..n PROVE InsertionCost(d, w, l, t, i) \in Int
  <2> DEFINE b == Before(t, i)
             c == t[i]
  <2>1. c \in S /\ b \in S
    BY <1>1 DEF Before
  <2>2. w[l][c] \in Nat /\ w[b][l] \in Nat /\ Metres(d, b, c) \in Nat
    BY <2>1 DEF Walks, Measures, Metres
  <2> DEFINE x == w[l][c]
             y == w[b][l]
             m == Metres(d, b, c)
  <2>3. InsertionCost(d, w, l, t, i) =
          IF Plus(x, y) >= Infinity THEN Infinity
          ELSE Plus(x, y) - (IF m < Infinity /\ Len(t) > 1 THEN m ELSE 0)
    BY DEF InsertionCost
  <2> HIDE DEF x, y, m, b, c
  <2>4. x \in Nat /\ y \in Nat /\ m \in Nat
    BY <2>2 DEF x, y, m
  <2> QED BY <1>2, <2>3, <2>4 DEF Plus
<1>4. IsFiniteSet(1..n) /\ 1..n # {}
  <2>1. 1 \in Int /\ n \in Int /\ 1 \in 1..n
    BY <1>1
  <2> HIDE DEF n
  <2> QED BY <2>1, FS_Interval
<1>5. f \in [1..n -> Int] /\ g \in [1..n -> Int] /\ \A x, y \in 1..n : g[x] = g[y] => x = y
  <2> HIDE DEF n
  <2> QED BY <1>3
<1> HIDE DEF n
<1>6. PICK i \in 1..n : \A j \in 1..n : f[i] < f[j] \/ (f[i] = f[j] /\ g[i] <= g[j])
  <2> HIDE DEF f, g
  <2> QED BY <1>4, <1>5, FirstOfLeast
<1>7. \E k \in DOMAIN t : \A j \in DOMAIN t :
         LET ci == InsertionCost(d, w, l, t, k)
             cj == InsertionCost(d, w, l, t, j)
         IN  ci < cj \/ (ci = cj /\ k <= j)
  BY <1>1, <1>6
<1>8. BestInsertion(d, w, l, t) \in 1..n
  BY <1>1, <1>7 DEF BestInsertion
<1> QED BY <1>3, <1>8 DEF BestInsertionCost, n

\* The first of the least of some positions.
LEMMA FirstChoice ==
    ASSUME NEW n \in Nat, NEW I \in SUBSET (1..n), I # {}, NEW f \in [I -> Int]
    PROVE  \E i \in I : \A j \in I : f[i] < f[j] \/ (f[i] = f[j] /\ i <= j)
<1> DEFINE g == [i \in I |-> i]
<1>1. IsFiniteSet(1..n)
  <2>1. 1 \in Int /\ n \in Int
    OBVIOUS
  <2> QED BY <2>1, FS_Interval
<1>2. IsFiniteSet(I)
  BY <1>1, FS_Subset
<1>3. g \in [I -> Int] /\ \A x, y \in I : g[x] = g[y] => x = y
  OBVIOUS
<1>4. PICK i \in I : \A j \in I : f[i] < f[j] \/ (f[i] = f[j] /\ g[i] <= g[j])
  <2> HIDE DEF g
  <2> QED BY <1>2, <1>3, FirstOfLeast
<1> QED BY <1>4

\* pickLoopAwareParking
LEMMA LoopAwareIsOffered ==
    ASSUME NEW S, Measures(dist, S), \A l \in ParkingPlaces : Walks(walk, S, l),
           NEW A \in SUBSET S, Listing(tour, A), tour # <<>>,
           NEW choices \in Seq(ParkingPlaces)
    PROVE  LoopAware(choices) \in ParkingPlaces \cup {None}
<1> DEFINE n == Len(choices)
           cost(i) == BestInsertionCost(dist, walk, choices[i], tour)
           I == {i \in 1..n : MinWalk(choices[i]) <= MaxLink /\ cost(i) < Infinity}
           f == [i \in I |-> cost(i)]
<1>1. n \in Nat /\ DOMAIN choices = 1..n /\ \A i \in 1..n : choices[i] \in ParkingPlaces
  BY LenProperties
<1>2. ASSUME NEW i \in 1..n PROVE cost(i) \in Int
  <2>1. choices[i] \in ParkingPlaces
    BY <1>1
  <2> QED BY <2>1, InsertionIsFound
<1>3. CASE I = {}
  BY <1>1, <1>3 DEF LoopAware
<1>4. CASE I # {}
  <2>1. I \in SUBSET (1..n) /\ f \in [I -> Int]
    <3> HIDE DEF n, cost
    <3> QED BY <1>2
  <2>2. PICK i \in I : \A j \in I : f[i] < f[j] \/ (f[i] = f[j] /\ i <= j)
    <3> HIDE DEF I, f, n
    <3> QED BY <1>1, <1>4, <2>1, FirstChoice
  <2> DEFINE first(k) == \A j \in I : cost(k) < cost(j) \/ (cost(k) = cost(j) /\ k <= j)
  <2>3. i \in I /\ first(i)
    <3> HIDE DEF cost, I
    <3> QED BY <2>2
  <2>4. (CHOOSE k \in I : first(k)) \in I
    <3> HIDE DEF I, first
    <3> QED BY <2>3
  <2>5. LoopAware(choices) = choices[CHOOSE k \in I : first(k)]
    BY <1>1, <1>4 DEF LoopAware
  <2> HIDE DEF first
  <2> QED BY <1>1, <2>4, <2>5
<1> QED BY <1>3, <1>4

\* selectParking
LEMMA ParkingIsSelected ==
    ASSUME NEW r, Begun(r), NEW S, Measures(dist, S), \A l \in ParkingPlaces : Walks(walk, S, l),
           NEW A \in SUBSET S, Listing(tour, A), tour # <<>>, SelectParking
    PROVE  lot' \in ParkingPlaces
<1> DEFINE kinds == {"pq", "osm", "road"}
<1>1. request.preference \in {"auto", "osm-parking", "osrm-nearest-road",
                              "parking-waypoint", "user-supplied-point"}
  BY RequestsAreMeasured DEF Begun
<1>2. DOMAIN Sources \subseteq Nat /\ \A i \in DOMAIN Sources : Sources[i] \in kinds
  BY <1>1 DEF Sources
<1>3. Fallback \subseteq ParkingPlaces
  BY <1>1 DEF Fallback, ParkingPlaces
<1>4. PICK offers \in Offers :
        LET found == [i \in DOMAIN Sources |-> LoopAware(offers[Sources[i]])]
        IN  IF \E i \in DOMAIN Sources : found[i] # None
            THEN lot' = found[Min({i \in DOMAIN Sources : found[i] # None})]
            ELSE lot' \in Fallback
  BY Zenon DEF SelectParking
<1>5. ASSUME NEW k \in kinds PROVE offers[k] \in Seq(ParkingPlaces)
  <2>1. <<>> \in Seq(ParkingPlaces)
    BY EmptySeq
  <2>2. Offering \in [kinds -> Seq(ParkingPlaces)]
    BY PlannerAssumption
  <2> QED BY <2>1, <2>2 DEF Offers
<1> DEFINE found == [i \in DOMAIN Sources |-> LoopAware(offers[Sources[i]])]
           I == {i \in DOMAIN Sources : found[i] # None}
<1>6. ASSUME NEW i \in DOMAIN Sources PROVE found[i] \in ParkingPlaces \cup {None}
  <2>1. offers[Sources[i]] \in Seq(ParkingPlaces)
    BY <1>2, <1>5
  <2> QED BY <2>1, LoopAwareIsOffered
<1>7. IF I # {} THEN lot' = found[Min(I)] ELSE lot' \in Fallback
  BY <1>4
<1>8. CASE I # {}
  <2>1. Min(I) \in I
    <3>1. I \in SUBSET Nat
      BY <1>2
    <3> HIDE DEF I
    <3> QED BY <1>8, <3>1, MinIsLeast
  <2>2. Min(I) \in DOMAIN Sources /\ found[Min(I)] # None
    <3> HIDE DEF found
    <3> QED BY <2>1
  <2> HIDE DEF I, found
  <2> QED BY <1>6, <1>7, <1>8, <2>2
<1>9. CASE I = {}
  <2> HIDE DEF I, found
  <2> QED BY <1>3, <1>7, <1>9
<1> QED BY <1>8, <1>9

\* pickParking, for each cache a place may look nearest to
LEMMA ShortestWalkIsOffered ==
    ASSUME NEW S, \A l \in ParkingPlaces : Walks(walk, S, l), Kept = S,
           NEW places \in Seq(ParkingPlaces), NEW cap \in Nat,
           NEW x \in ShortestWalk(places, cap)
    PROVE  x \in ParkingPlaces \cup {None}
<1> DEFINE n == Len(places)
<1>1. n \in Nat /\ DOMAIN places = 1..n /\ \A i \in 1..n : places[i] \in ParkingPlaces
  BY LenProperties
<1>2. PICK near \in [DOMAIN places -> Kept] :
        x = LET walks(i) == walk[places[i]][near[i]]
                within == {i \in DOMAIN places : walks(i) < Infinity /\ walks(i) <= cap}
            IN  IF within = {} THEN None
                ELSE places[CHOOSE i \in within : \A j \in within :
                               walks(i) < walks(j) \/ (walks(i) = walks(j) /\ i <= j)]
  BY Zenon DEF ShortestWalk
<1> DEFINE walks(i) == walk[places[i]][near[i]]
           I == {i \in 1..n : walks(i) < Infinity /\ walks(i) <= cap}
           f == [i \in I |-> walks(i)]
           first(k) == \A j \in I : walks(k) < walks(j) \/ (walks(k) = walks(j) /\ k <= j)
<1>3. x = IF I = {} THEN None ELSE places[CHOOSE k \in I : first(k)]
  BY <1>1, <1>2
<1>4. ASSUME NEW i \in 1..n PROVE walks(i) \in Nat
  BY <1>1 DEF Walks
<1>5. CASE I # {}
  <2>1. I \in SUBSET (1..n) /\ f \in [I -> Int]
    <3> HIDE DEF n, walks
    <3> QED BY <1>4
  <2>2. PICK i \in I : \A j \in I : f[i] < f[j] \/ (f[i] = f[j] /\ i <= j)
    <3> HIDE DEF I, f, n
    <3> QED BY <1>1, <1>5, <2>1, FirstChoice
  <2>3. i \in I /\ first(i)
    <3> HIDE DEF walks, I
    <3> QED BY <2>2
  <2>4. (CHOOSE k \in I : first(k)) \in I
    <3> HIDE DEF I, first
    <3> QED BY <2>3
  <2>5. (CHOOSE k \in I : first(k)) \in 1..n
    <3>1. I \in SUBSET (1..n)
      OBVIOUS
    <3> HIDE DEF first, I, n
    <3> QED BY <2>4, <3>1
  <2> HIDE DEF first, I, n
  <2> QED BY <1>1, <1>3, <1>5, <2>5
<1>6. CASE I = {}
  <2> HIDE DEF I, first
  <2> QED BY <1>3, <1>6
<1> QED BY <1>5, <1>6

LEMMA StartsAreOffered ==
    ASSUME NEW r, Begun(r), \A l \in ParkingPlaces : Walks(walk, Kept, l)
    PROVE  Starts \subseteq ParkingPlaces
<1>1. request.preference \in {"auto", "osm-parking", "osrm-nearest-road",
                              "parking-waypoint", "user-supplied-point"}
  BY RequestsAreMeasured DEF Begun
<1>2. Infinity \in Nat /\ MaxLink \in Nat
  BY InfinityAssumption, WalkMatrixAssumption
<1>3. Offering.pq \in Seq(ParkingPlaces) /\ Offering.osm \in Seq(ParkingPlaces)
  BY PlannerAssumption
<1>4. Pq \subseteq ParkingPlaces \cup {None} /\ Osm \subseteq ParkingPlaces \cup {None}
  BY <1>2, <1>3, ShortestWalkIsOffered DEF Pq, Osm
<1>5. {User, Snap, Centroid} \subseteq ParkingPlaces
  BY DEF ParkingPlaces
<1> QED BY <1>1, <1>4, <1>5 DEF Starts, Or

\* trimMarginalCaches: the worst of the stops that may go is one of them.
LEMMA WorstIsStop ==
    ASSUME NEW S, Measures(dist, S), NEW w, Walks(w, S, lot),
           NEW A \in SUBSET S, Listing(tour, A), ShouldDrop(w)
    PROVE  Worst(w) \in 1..Len(tour)
<1> DEFINE n == Len(tour)
           I == Droppable(w)
           f == [p \in I |-> -Marginal(w, p)]
           g == [p \in I |-> Rank(p)]
<1>1. n \in Nat /\ n > 2 /\ DOMAIN tour = 1..n /\ \A p \in 1..n : tour[p] \in S
  BY ListingIsFinite DEF ShouldDrop
<1>2. Infinity \in Nat
  BY InfinityAssumption
<1>3. ASSUME NEW p \in 1..n, NEW q \in 1..n PROVE Direct(tour[p], tour[q]) \in Nat
  BY <1>1 DEF Direct, Metres, Measures
<1>4. ASSUME NEW p \in 1..n PROVE w[lot][tour[p]] \in Nat /\ w[tour[p]][lot] \in Nat
  BY <1>1 DEF Walks
<1>5. ASSUME NEW p \in I PROVE Marginal(w, p) \in Int
  <2>1. p \in 1..n /\ Marginal(w, p) # None
    BY <1>1 DEF Droppable
  <2> DEFINE in == IF p = 1 THEN w[lot][tour[1]] ELSE Direct(tour[p - 1], tour[p])
             out == IF p = n THEN w[tour[n]][lot] ELSE Direct(tour[p], tour[p + 1])
             skip == CASE p = 1 -> w[lot][tour[2]]
                       [] p = n -> w[tour[n - 1]][lot]
                       [] OTHER -> Direct(tour[p - 1], tour[p + 1])
  <2>2. in \in Nat
    <3>1. CASE p = 1
      BY <1>1, <1>4, <3>1
    <3>2. CASE p # 1
      <4>1. p - 1 \in 1..n
        BY <1>1, <2>1, <3>2
      <4> QED BY <1>3, <2>1, <3>2, <4>1
    <3> QED BY <3>1, <3>2
  <2>3. out \in Nat
    <3>1. CASE p = n
      BY <1>1, <1>4, <2>1, <3>1
    <3>2. CASE p # n
      <4>1. p + 1 \in 1..n
        <5> HIDE DEF n
        <5> QED BY <1>1, <2>1, <3>2
      <4> QED BY <1>3, <2>1, <3>2, <4>1
    <3> QED BY <3>1, <3>2
  <2>4. skip \in Nat
    <3>1. CASE p = 1
      <4>1. 2 \in 1..n
        BY <1>1
      <4> QED BY <1>4, <3>1, <4>1
    <3>2. CASE p = n
      <4>1. n - 1 \in 1..n /\ n # 1
        BY <1>1
      <4> QED BY <1>4, <3>2, <4>1
    <3>3. CASE p # 1 /\ p # n
      <4>1. p - 1 \in 1..n /\ p + 1 \in 1..n
        <5> HIDE DEF n
        <5> QED BY <1>1, <2>1, <3>3
      <4> QED BY <1>3, <3>3, <4>1
    <3> QED BY <3>1, <3>2, <3>3
  <2>5. Marginal(w, p) =
          IF skip >= Infinity \/ (p \in {1, n} /\ Plus(in, out) >= Infinity) THEN None
          ELSE IF Plus(in, out) >= Infinity THEN Infinity ELSE in + out - skip
    BY DEF Marginal
  <2> HIDE DEF in, out, skip
  <2> QED BY <1>2, <2>1, <2>2, <2>3, <2>4, <2>5
<1>6. I \in SUBSET (1..n) /\ I # {}
  BY <1>1 DEF Droppable, ShouldDrop
<1>7. IsFiniteSet(I)
  <2>1. 1 \in Int /\ n \in Int
    BY <1>1
  <2> HIDE DEF n, I
  <2> QED BY <1>6, <2>1, FS_Interval, FS_Subset
<1>8. \A p \in 1..n : Rank(p) = IF p = 1 THEN 1 ELSE IF p = n THEN 2 ELSE p + 1
  BY <1>1 DEF Rank
<1>9. g \in [I -> Int] /\ \A x, y \in I : g[x] = g[y] => x = y
  <2> HIDE DEF I, n
  <2> QED BY <1>1, <1>6, <1>8
<1>10. f \in [I -> Int]
  <2> HIDE DEF I
  <2> QED BY <1>5
<1>11. PICK p \in I : \A q \in I : f[p] < f[q] \/ (f[p] = f[q] /\ g[p] <= g[q])
  <2>1. IsFiniteSet(I) /\ I # {} /\ f \in [I -> Int] /\ g \in [I -> Int]
        /\ \A x, y \in I : g[x] = g[y] => x = y
    <3> HIDE DEF I, f, g
    <3> QED BY <1>6, <1>7, <1>9, <1>10
  <2> HIDE DEF f, g, I, n
  <2> QED BY <2>1, FirstOfLeast
<1> DEFINE worst(k) == \A q \in I :
                \/ Marginal(w, q) < Marginal(w, k)
                \/ Marginal(w, q) = Marginal(w, k) /\ Rank(k) <= Rank(q)
<1>12. p \in I /\ worst(p)
  <2>1. ASSUME NEW q \in I
        PROVE  \/ Marginal(w, q) < Marginal(w, p)
               \/ Marginal(w, q) = Marginal(w, p) /\ Rank(p) <= Rank(q)
    <3>1. Marginal(w, q) \in Int /\ Marginal(w, p) \in Int
      BY <1>5
    <3>2. \/ -Marginal(w, p) < -Marginal(w, q)
          \/ -Marginal(w, p) = -Marginal(w, q) /\ Rank(p) <= Rank(q)
      <4> HIDE DEF I
      <4> QED BY <1>11
    <3> HIDE DEF I
    <3> QED BY <3>1, <3>2
  <2> QED BY <2>1
<1>13. Worst(w) = CHOOSE k \in I : worst(k)
  BY DEF Worst
<1>14. Worst(w) \in I
  <2> HIDE DEF I, worst
  <2> QED BY <1>12, <1>13
<1> QED BY <1>6, <1>14

----------------------------------------------------------------------------
(***************************************************************************)
(* The legs: a route is picked from what is offered, and offered with it.  *)
(***************************************************************************)

IsRoute(x) == x.metres \in Nat /\ x.spots \in Seq(ToSet(x.spots)) /\ Len(x.spots) >= 2

LEMMA RoutesAreRoutes ==
    ASSUME NEW routes, AreRoutes(routes)
    PROVE  /\ Len(routes) \in Nat /\ DOMAIN routes = 1..Len(routes)
           /\ \A i \in 1..Len(routes) : IsRoute(routes[i])
           /\ routes # <<>> => 1 \in 1..Len(routes)
<1>1. routes \in Seq(ToSet(routes))
  BY DEF AreRoutes
<1>2. /\ Len(routes) \in Nat /\ DOMAIN routes = 1..Len(routes)
  BY <1>1, LenProperties
<1>3. \A i \in 1..Len(routes) : routes[i] \in ToSet(routes)
  BY <1>2 DEF ToSet
<1>4. \A i \in 1..Len(routes) : IsRoute(routes[i])
  BY <1>3 DEF AreRoutes, IsRoute
<1>5. routes # <<>> => 1 \in 1..Len(routes)
  BY <1>1, <1>2, EmptySeq
<1> QED BY <1>2, <1>4, <1>5

LEMMA ScoresAreTyped ==
    ASSUME NEW grid, NEW x, IsRoute(x)
    PROVE  Retraced(grid, x) \in Int /\ LegScore(grid, x) \in Int
<1> DEFINE n == Len(x.spots)
           I == {i \in 1..n : x.spots[i] \in grid}
<1>1. n \in Nat /\ DOMAIN x.spots = 1..n /\ n >= 2 /\ x.metres \in Nat /\ Alpha \in Nat
  BY LenProperties, LoopLegsAssumption DEF IsRoute
<1>2. Hits(grid, x) = Cardinality(I)
  BY <1>1 DEF Hits
<1>3. Cardinality(I) \in Nat
  <2>1. 1 \in Int /\ n \in Int /\ I \in SUBSET (1..n)
    BY <1>1
  <2> HIDE DEF n, I
  <2> QED BY <2>1, FS_Interval, FS_Subset, FS_CardinalityType
<1> DEFINE h == Hits(grid, x)
           q == x.metres \div (n - 1)
<1>4. h \in Int /\ q \in Int
  <2>1. n - 1 \in Nat /\ n - 1 > 0
    BY <1>1
  <2> HIDE DEF n, I
  <2> QED BY <1>1, <1>2, <1>3, <2>1
<1>5. Retraced(grid, x) = h * q
  BY DEF Retraced
<1> HIDE DEF h, q
<1>6. Retraced(grid, x) \in Int
  BY <1>4, <1>5
<1>7. LegScore(grid, x) = x.metres + Alpha * Retraced(grid, x)
  BY DEF LegScore
<1> DEFINE t == Retraced(grid, x)
<1> HIDE DEF t
<1>8. t \in Int /\ LegScore(grid, x) = x.metres + Alpha * t
  BY <1>6, <1>7 DEF t
<1>9. LegScore(grid, x) \in Int
  BY <1>1, <1>8
<1> QED BY <1>6, <1>9

LEMMA BestIsEligible ==
    ASSUME NEW grid, NEW routes, AreRoutes(routes),
           NEW I \in SUBSET (1..Len(routes)), I # {}
    PROVE  BestOf(grid, routes, I) \in I
<1> DEFINE n == Len(routes)
           score(i) == LegScore(grid, routes[i])
           f == [i \in I |-> score(i)]
           first(k) == \A j \in I : score(k) < score(j) \/ (score(k) = score(j) /\ k <= j)
<1>1. n \in Nat /\ \A i \in 1..n : IsRoute(routes[i])
  BY RoutesAreRoutes
<1>2. f \in [I -> Int]
  <2>1. \A i \in I : score(i) \in Int
    BY <1>1, ScoresAreTyped
  <2> HIDE DEF score
  <2> QED BY <2>1
<1>3. PICK i \in I : \A j \in I : f[i] < f[j] \/ (f[i] = f[j] /\ i <= j)
  <2> HIDE DEF f, n
  <2> QED BY <1>1, <1>2, FirstChoice DEF n
<1>4. i \in I /\ first(i)
  <2> HIDE DEF score
  <2> QED BY <1>3
<1>5. BestOf(grid, routes, I) = CHOOSE k \in I : first(k)
  BY DEF BestOf
<1> HIDE DEF first
<1> QED BY <1>4, <1>5

\* A wider cap lets more through.
LEMMA DetourWidens ==
    ASSUME NEW x, NEW p, p.metres \in Nat, x.metres \in Nat, NEW s \in Nat, NEW t \in Nat, s <= t
    PROVE  /\ WithinDetour(x, p, s) => WithinDetour(x, p, t)
           /\ WithinDetour(p, p, t)
<1> DEFINE m == p.metres
           k == x.metres
<1>1. m \in Nat /\ k \in Nat
  OBVIOUS
<1>2. /\ WithinDetour(x, p, s) <=> 10 * k <= (10 + s) * m
      /\ WithinDetour(x, p, t) <=> 10 * k <= (10 + t) * m
      /\ WithinDetour(p, p, t) <=> 10 * m <= (10 + t) * m
  BY DEF WithinDetour
<1> HIDE DEF m, k
<1>3. (10 + s) * m <= (10 + t) * m
  BY <1>1
<1>4. 10 * m <= (10 + t) * m
  BY <1>1
<1>5. 10 * k \in Int /\ (10 + s) * m \in Int /\ (10 + t) * m \in Int
  BY <1>1
<1> QED BY <1>2, <1>3, <1>4, <1>5

\* What is offered beside the chosen route.
Kept1(routes, best) ==
    {i \in 1..Len(routes) : i \in {1, best} \/ WithinDetour(routes[i], routes[1], MaxDetour)}

IsLeg(leg, along) == leg.along = along /\ IsRoute(leg.route) /\ IsOffered(leg)

\* pickAndAccumulate, with what its parts come to.
PickOf(along, routes, nudges, best, better, nudged) ==
    LET kept == Sorted(Kept1(routes, best))
        accepted == [k \in DOMAIN kept |-> routes[kept[k]]]
    IN  IF better = {}
        THEN [along |-> along, route |-> routes[best], offered |-> accepted,
              selected |-> CHOOSE k \in DOMAIN kept : kept[k] = best]
        ELSE [along |-> along, route |-> nudges[nudged], offered |-> Append(accepted, nudges[nudged]),
              selected |-> Len(accepted) + 1]

LEMMA PickUnfolds ==
    ASSUME NEW grid, NEW along, NEW routes, NEW nudges, DOMAIN routes = 1..Len(routes)
    PROVE  LET best == PickLoopAware(grid, routes)
               better == BetterNudges(grid, routes[1], routes[best], nudges)
           IN  PickedLeg(grid, along, routes, nudges)
                 = PickOf(along, routes, nudges, best, better, BestOf(grid, nudges, better))
<1> DEFINE best == PickLoopAware(grid, routes)
           better == BetterNudges(grid, routes[1], routes[best], nudges)
<1> HIDE DEF best, better
<1>1. PickedLeg(grid, along, routes, nudges)
        = PickOf(along, routes, nudges, best, better, BestOf(grid, nudges, better))
  BY DEF PickedLeg, PickOf, Kept1, best, better
<1> QED BY <1>1 DEF best, better

\* The list that is offered: the first route, the chosen one and those within
\* the cap, in their order.
LEMMA AcceptedRoutes ==
    ASSUME NEW routes, AreRoutes(routes), routes # <<>>, NEW best \in 1..Len(routes)
    PROVE  LET kept == Sorted(Kept1(routes, best))
               m == Len(kept)
           IN  /\ m \in Nat /\ DOMAIN kept = 1..m /\ 1 \in 1..m
               /\ kept[1] = 1
               /\ \A k \in 1..m : kept[k] \in Kept1(routes, best)
               /\ \A k, l \in 1..m : kept[k] = kept[l] => k = l
               /\ \E k \in 1..m : kept[k] = best
<1> DEFINE I == Kept1(routes, best)
           n == Len(routes)
           kept == Sorted(I)
           m == Len(kept)
           c == Cardinality(I)
<1>1. n \in Nat /\ 1 \in 1..n
  BY RoutesAreRoutes
<1>2. I \in SUBSET (1..n) /\ 1 \in I /\ best \in I
  BY <1>1 DEF Kept1
<1>3. IsFiniteSet(I) /\ I \subseteq Nat
  <2>1. 1 \in Int /\ n \in Int
    BY <1>1
  <2>2. IsFiniteSet(1..n)
    <3> HIDE DEF n
    <3> QED BY <2>1, FS_Interval
  <2>3. IsFiniteSet(I)
    <3> HIDE DEF I, n
    <3> QED BY <1>2, <2>2, FS_Subset
  <2>4. 1..n \subseteq Nat
    OBVIOUS
  <2> HIDE DEF I, n
  <2> QED BY <1>2, <2>3, <2>4
<1>4. /\ m = c /\ c \in Nat /\ Lists(kept, I)
      /\ \A i, j \in 1..c : i < j => kept[i] < kept[j]
  <2> HIDE DEF I
  <2> QED BY <1>3, SortedIsSequence, SortedLists
<1>5. kept \in [1..m -> I] /\ DOMAIN kept = 1..m
  BY <1>4 DEF Lists
<1>6. \A k, l \in 1..m : kept[k] = kept[l] => k = l
  BY <1>4 DEF Lists
<1>7. PICK k \in 1..m : kept[k] = best
  BY <1>2, <1>4 DEF Lists
<1>8. PICK l \in 1..m : kept[l] = 1
  BY <1>2, <1>4 DEF Lists
<1> HIDE DEF I, n, kept, m, c
<1>9. 1 \in 1..m
  BY <1>4, <1>8
<1>10. kept[1] = 1
  <2>1. CASE l = 1
    BY <1>8, <2>1
  <2>2. CASE l # 1
    <3>1. 1 < l
      BY <1>4, <1>8, <2>2
    <3>2. kept[1] < kept[l]
      BY <1>4, <1>8, <1>9, <3>1
    <3>3. kept[1] \in I
      BY <1>5, <1>9
    <3>4. kept[1] \in 1..n
      BY <1>2, <3>3
    <3> QED BY <1>1, <1>8, <3>2, <3>4
  <2> QED BY <2>1, <2>2
<1>11. \A x \in 1..m : kept[x] \in I
  BY <1>5
<1>12. \E x \in 1..m : kept[x] = best
  BY <1>7
<1>13. m \in Nat
  BY <1>4
<1> QED BY <1>5, <1>6, <1>9, <1>10, <1>11, <1>12, <1>13 DEF I, kept, m

\* The chosen route without a nudge.
LEMMA PickIsOffered ==
    ASSUME NEW along, NEW routes, AreRoutes(routes), routes # <<>>, NEW best \in 1..Len(routes),
           best = 1 \/ WithinDetour(routes[best], routes[1], MaxDetour),
           NEW nudges, NEW nudged
    PROVE  IsLeg(PickOf(along, routes, nudges, best, {}, nudged), along)
<1> DEFINE kept == Sorted(Kept1(routes, best))
           m == Len(kept)
           accepted == [k \in 1..m |-> routes[kept[k]]]
           chosen == CHOOSE k \in 1..m : kept[k] = best
           leg == PickOf(along, routes, nudges, best, {}, nudged)
           cap == IF MaxDetour < SevereDetour THEN SevereDetour ELSE MaxDetour
<1>1. /\ m \in Nat /\ DOMAIN kept = 1..m /\ 1 \in 1..m
      /\ kept[1] = 1
      /\ \A k \in 1..m : kept[k] \in Kept1(routes, best)
      /\ \A k, l \in 1..m : kept[k] = kept[l] => k = l
      /\ \E k \in 1..m : kept[k] = best
  BY AcceptedRoutes
<1>2. Len(routes) \in Nat /\ 1 \in 1..Len(routes) /\ \A i \in 1..Len(routes) : IsRoute(routes[i])
  BY RoutesAreRoutes
<1>3. leg = [along |-> along, route |-> routes[best], offered |-> accepted, selected |-> chosen]
  BY <1>1 DEF PickOf
<1> HIDE DEF kept, m
<1>4. chosen \in 1..m /\ kept[chosen] = best
  BY <1>1
<1> HIDE DEF chosen, leg
<1>5. DOMAIN accepted = 1..m /\ accepted[1] = routes[1] /\ accepted[chosen] = routes[best]
  BY <1>1, <1>4
<1>6. MaxDetour \in Nat /\ cap \in Nat /\ MaxDetour <= cap
  BY LoopLegsAssumption
<1>7. ASSUME NEW i \in (1..m) \ {chosen}
      PROVE  WithinDetour(accepted[i], routes[1], MaxDetour)
  <2>1. kept[i] \in 1..Len(routes)
        /\ (kept[i] = 1 \/ kept[i] = best \/ WithinDetour(routes[kept[i]], routes[1], MaxDetour))
    BY <1>1 DEF Kept1
  <2>2. kept[i] # best
    BY <1>1, <1>4
  <2>3. WithinDetour(routes[1], routes[1], MaxDetour)
    BY <1>2, <1>6, DetourWidens DEF IsRoute
  <2> QED BY <2>1, <2>2, <2>3
<1>8. WithinDetour(routes[best], routes[1], cap)
  <2>1. routes[best].metres \in Nat /\ routes[1].metres \in Nat
    BY <1>2 DEF IsRoute
  <2> HIDE DEF cap
  <2> QED BY <1>6, <2>1, DetourWidens
<1>9. /\ leg.along = along /\ leg.route = routes[best] /\ leg.offered = accepted
      /\ leg.selected = chosen
  BY <1>3
<1> HIDE DEF accepted
<1>10. IsOffered(leg)
  BY <1>4, <1>5, <1>7, <1>8, <1>9 DEF IsOffered
<1>11. IsRoute(leg.route)
  BY <1>2, <1>9
<1> QED BY <1>9, <1>10, <1>11 DEF IsLeg, leg

\* The chosen route is a nudge.
LEMMA NudgeIsOffered ==
    ASSUME NEW along, NEW routes, AreRoutes(routes), routes # <<>>, NEW best \in 1..Len(routes),
           best = 1 \/ WithinDetour(routes[best], routes[1], MaxDetour),
           NEW nudges, NEW nudged, IsRoute(nudges[nudged]),
           WithinDetour(nudges[nudged], routes[1],
                        IF MaxDetour < SevereDetour THEN SevereDetour ELSE MaxDetour),
           NEW better, better # {}
    PROVE  IsLeg(PickOf(along, routes, nudges, best, better, nudged), along)
<1> DEFINE kept == Sorted(Kept1(routes, best))
           m == Len(kept)
           accepted == [k \in 1..m |-> routes[kept[k]]]
           nudge == nudges[nudged]
           offered == Append(accepted, nudge)
           leg == PickOf(along, routes, nudges, best, better, nudged)
           cap == IF MaxDetour < SevereDetour THEN SevereDetour ELSE MaxDetour
<1>1. /\ m \in Nat /\ DOMAIN kept = 1..m /\ 1 \in 1..m
      /\ kept[1] = 1
      /\ \A k \in 1..m : kept[k] \in Kept1(routes, best)
  BY AcceptedRoutes
<1>2. Len(routes) \in Nat /\ 1 \in 1..Len(routes) /\ \A i \in 1..Len(routes) : IsRoute(routes[i])
  BY RoutesAreRoutes
<1>3. leg = [along |-> along, route |-> nudge, offered |-> offered, selected |-> Len(accepted) + 1]
  BY <1>1 DEF PickOf
<1> HIDE DEF kept, m, nudge
<1>4. accepted \in Seq({routes[i] : i \in 1..Len(routes)}) /\ Len(accepted) = m
  <2> DEFINE V == {routes[i] : i \in 1..Len(routes)}
  <2>1. \A k \in 1..m : kept[k] \in 1..Len(routes)
    BY <1>1 DEF Kept1
  <2>2. accepted \in [1..m -> V]
    BY <2>1
  <2> HIDE DEF V, accepted
  <2>3. accepted \in Seq(V) /\ Len(accepted) = m
    BY <1>1, <2>2, LenOfFunction
  <2> QED BY <2>3 DEF V
<1>5. /\ DOMAIN offered = 1..(m + 1) /\ offered[m + 1] = nudge
      /\ \A k \in 1..m : offered[k] = routes[kept[k]]
  <2> DEFINE V == {routes[i] : i \in 1..Len(routes)}
  <2>1. \A k \in 1..m : accepted[k] = routes[kept[k]]
    OBVIOUS
  <2> HIDE DEF accepted
  <2>2. accepted \in Seq(V \cup {nudge}) /\ Len(accepted) = m
    <3>1. accepted \in Seq(V)
      BY <1>4
    <3>2. V \subseteq V \cup {nudge}
      OBVIOUS
    <3> HIDE DEF V
    <3> QED BY <1>4, <3>1, <3>2
  <2> HIDE DEF V
  <2>3. /\ Append(accepted, nudge) \in Seq(V \cup {nudge})
        /\ Len(Append(accepted, nudge)) = m + 1
        /\ \A k \in 1..m : Append(accepted, nudge)[k] = accepted[k]
        /\ Append(accepted, nudge)[m + 1] = nudge
    BY <1>1, <2>2, AppendProperties
  <2> QED BY <2>1, <2>3, LenProperties
<1>6. MaxDetour \in Nat
  BY LoopLegsAssumption
<1>7. ASSUME NEW i \in 1..m PROVE WithinDetour(offered[i], routes[1], MaxDetour)
  <2>1. kept[i] \in 1..Len(routes)
        /\ (kept[i] = 1 \/ kept[i] = best \/ WithinDetour(routes[kept[i]], routes[1], MaxDetour))
    BY <1>1 DEF Kept1
  <2>2. WithinDetour(routes[1], routes[1], MaxDetour)
    BY <1>2, <1>6, DetourWidens DEF IsRoute
  <2>3. offered[i] = routes[kept[i]]
    BY <1>5
  <2> HIDE DEF offered
  <2> QED BY <2>1, <2>2, <2>3
<1>8. offered[1] = routes[1]
  BY <1>1, <1>5
<1>9. /\ leg.along = along /\ leg.route = nudge /\ leg.offered = offered
      /\ leg.selected = m + 1
  <2> HIDE DEF leg, offered, accepted
  <2> QED BY <1>3, <1>4
<1> HIDE DEF offered, accepted, leg
<1>10. DOMAIN offered \ {m + 1} = 1..m /\ m + 1 \in DOMAIN offered
  BY <1>1, <1>5
<1>11. WithinDetour(nudge, routes[1], cap)
  BY DEF nudge
<1>12. IsOffered(leg)
  BY <1>5, <1>7, <1>8, <1>9, <1>10, <1>11 DEF IsOffered
<1>13. IsRoute(leg.route)
  BY <1>9 DEF nudge
<1> QED BY <1>9, <1>12, <1>13 DEF IsLeg, leg

\* What is picked for a leg is offered, whatever was walked before.
LEMMA PickedLegIsTrue ==
    ASSUME NEW grid, NEW along, NEW routes, AreRoutes(routes), routes # <<>>,
           NEW nudges, AreRoutes(nudges)
    PROVE  IsLeg(PickedLeg(grid, along, routes, nudges), along)
<1> DEFINE n == Len(routes)
           best == PickLoopAware(grid, routes)
           better == BetterNudges(grid, routes[1], routes[best], nudges)
           nudged == BestOf(grid, nudges, better)
           cap == IF MaxDetour < SevereDetour THEN SevereDetour ELSE MaxDetour
           I == {i \in 1..n : i = 1 \/ WithinDetour(routes[i], routes[1], MaxDetour)}
<1>1. n \in Nat /\ DOMAIN routes = 1..n /\ 1 \in 1..n /\ \A i \in 1..n : IsRoute(routes[i])
  BY RoutesAreRoutes
<1>2. Len(nudges) \in Nat /\ DOMAIN nudges = 1..Len(nudges)
      /\ \A i \in 1..Len(nudges) : IsRoute(nudges[i])
  BY RoutesAreRoutes
<1>3. best \in I
  <2>1. I \in SUBSET (1..n) /\ I # {}
    BY <1>1
  <2>2. best = BestOf(grid, routes, I)
    BY <1>1 DEF PickLoopAware
  <2> HIDE DEF I, best
  <2>3. BestOf(grid, routes, I) \in I
    BY <2>1, BestIsEligible
  <2> QED BY <2>2, <2>3
<1>4. best \in 1..Len(routes) /\ (best = 1 \/ WithinDetour(routes[best], routes[1], MaxDetour))
  BY <1>3
<1> HIDE DEF best
<1>5. PickedLeg(grid, along, routes, nudges)
        = PickOf(along, routes, nudges, best, better, nudged)
  BY <1>1, PickUnfolds DEF best
<1>6. CASE better = {}
  <2> HIDE DEF better, nudged
  <2>1. IsLeg(PickOf(along, routes, nudges, best, {}, nudged), along)
    BY <1>4, PickIsOffered
  <2> QED BY <1>5, <1>6, <2>1
<1>7. CASE better # {}
  <2>1. better \in SUBSET (1..Len(nudges))
        /\ \A i \in better : WithinDetour(nudges[i], routes[1], NudgeDetour(grid, routes[best]))
    BY <1>2 DEF BetterNudges
  <2> HIDE DEF better
  <2>2. BestOf(grid, nudges, better) \in better
    BY <1>7, <2>1, BestIsEligible
  <2>3. nudged \in better /\ IsRoute(nudges[nudged])
        /\ WithinDetour(nudges[nudged], routes[1], NudgeDetour(grid, routes[best]))
    BY <1>2, <2>1, <2>2
  <2> HIDE DEF nudged
  <2>4. MaxDetour \in Nat /\ SevereDetour \in Nat
    BY LoopLegsAssumption
  <2>5. Max({MaxDetour, SevereDetour}) = cap
    <3>1. cap \in {MaxDetour, SevereDetour} /\ \A y \in {MaxDetour, SevereDetour} : cap >= y
      BY <2>4
    <3>2. \A x \in {MaxDetour, SevereDetour} :
            (\A y \in {MaxDetour, SevereDetour} : x >= y) => x = cap
      BY <2>4
    <3> QED BY <3>1, <3>2 DEF Max
  <2>6. NudgeDetour(grid, routes[best]) \in Nat /\ NudgeDetour(grid, routes[best]) <= cap /\ cap \in Nat
    BY <2>4, <2>5 DEF NudgeDetour
  <2> HIDE DEF cap
  <2>7. WithinDetour(nudges[nudged], routes[1], cap)
    <3>1. routes[1].metres \in Nat /\ nudges[nudged].metres \in Nat
      BY <1>1, <2>3 DEF IsRoute
    <3> QED BY <2>3, <2>6, <3>1, DetourWidens
  <2>8. IsLeg(PickOf(along, routes, nudges, best, better, nudged), along)
    BY <1>4, <1>7, <2>3, <2>7, NudgeIsOffered DEF cap
  <2> QED BY <1>5, <2>8
<1> QED BY <1>6, <1>7

\* One leg after another over the grid of those before.
NextLegs(w, places, nudging, so, i) ==
    LET a == places[i]
        b == places[i + 1]
        nudges == IF nudging /\ i \in 2..(Len(places) - 2) THEN Via(w, a, b) ELSE <<>>
    IN  IF Alternatives(w, a, b) = <<>> THEN so
        ELSE Append(so, PickedLeg(Walked(so), <<a, b>>, Alternatives(w, a, b), nudges))

Unrolled(f, w, places, nudging, m) ==
    f = [i \in 0..m |-> IF i = 0 THEN <<>> ELSE NextLegs(w, places, nudging, f[i - 1], i)]

LEMMA LegsUnroll ==
    ASSUME NEW w, NEW places, NEW last \in Nat, Len(places) = last + 1, NEW nudging
    PROVE  \E f : Unrolled(f, w, places, nudging, last) /\ LegsPast(w, places, nudging) = f[last]
<1> DEFINE next(so, i) == NextLegs(w, places, nudging, so, i)
           P(f, m) == f = [i \in 0..m |-> IF i = 0 THEN <<>> ELSE next(f[i - 1], i)]
           T == {m \in Nat : \E f : P(f, m)}
<1>1. 0 \in T
  <2> DEFINE f == [i \in 0..0 |-> <<>>]
  <2>1. 0..0 = {0}
    OBVIOUS
  <2>2. f = [i \in 0..0 |-> IF i = 0 THEN <<>> ELSE next(f[i - 1], i)]
    BY <2>1
  <2> QED BY <2>2
<1>2. ASSUME NEW m \in Nat, m \in T PROVE m + 1 \in T
  <2>1. PICK f : P(f, m)
    BY <1>2
  <2> HIDE DEF next
  <2>2. f = [i \in 0..m |-> IF i = 0 THEN <<>> ELSE next(f[i - 1], i)]
    BY <2>1
  <2> DEFINE g == [i \in 0..(m + 1) |-> IF i = m + 1 THEN next(f[m], m + 1) ELSE f[i]]
  <2>3. ASSUME NEW i \in 0..(m + 1)
        PROVE  g[i] = IF i = 0 THEN <<>> ELSE next(g[i - 1], i)
    <3>1. CASE i = m + 1
      <4>1. i # 0 /\ i - 1 = m /\ m \in 0..(m + 1) /\ m # m + 1
        BY <3>1
      <4>2. g[m] = f[m]
        BY <4>1
      <4> QED BY <3>1, <4>1, <4>2
    <3>2. CASE i # m + 1
      <4>1. i \in 0..m
        BY <3>2
      <4>2. g[i] = f[i] /\ f[i] = IF i = 0 THEN <<>> ELSE next(f[i - 1], i)
        BY <2>2, <3>2, <4>1
      <4>3. i # 0 => i - 1 \in 0..(m + 1) /\ i - 1 # m + 1
        BY <4>1
      <4>4. i # 0 => g[i - 1] = f[i - 1]
        BY <4>3
      <4> HIDE DEF g
      <4> QED BY <4>2, <4>4
    <3> QED BY <3>1, <3>2
  <2>4. DOMAIN g = 0..(m + 1) /\ g = [i \in DOMAIN g |-> g[i]]
    OBVIOUS
  <2>5. P(g, m + 1)
    <3> HIDE DEF g
    <3> QED BY <2>3, <2>4
  <2> HIDE DEF P
  <2> QED BY <2>5
<1>3. last \in T
  <2> HIDE DEF T
  <2> QED BY <1>1, <1>2, AllNaturals
<1>4. PICK f : P(f, last)
  BY <1>3
<1> DEFINE Q(h) == P(h, last)
<1>5. Q(CHOOSE h : Q(h))
  <2>1. Q(f)
    BY <1>4
  <2> HIDE DEF Q
  <2> QED BY <2>1
<1>6. Len(places) - 1 = last /\ Len(places) - 2 = last - 1
  OBVIOUS
<1>7. LegsPast(w, places, nudging) = (CHOOSE h : Q(h))[last]
  BY <1>6 DEF LegsPast, NextLegs
<1> DEFINE h == CHOOSE h : Q(h)
<1>8. Unrolled(h, w, places, nudging, last)
  <2>1. Q(h)
    BY <1>5
  <2> HIDE DEF h
  <2> QED BY <2>1 DEF Unrolled
<1> HIDE DEF h, Q
<1> QED BY <1>7, <1>8 DEF h

\* The legs of the first k stretches of a walk: one of each that has a route.
LegsTo(so, k, w, places) ==
    /\ so \in Seq(ToSet(so)) /\ Len(so) \in Nat /\ Len(so) <= k
    /\ \A i \in 1..Len(so) : IsRoute(so[i].route) /\ IsOffered(so[i])
    /\ Len(so) = k => \A i \in 1..k : so[i].along = <<places[i], places[i + 1]>>
    /\ (\A i \in 1..k : Alternatives(w, places[i], places[i + 1]) # <<>>) => Len(so) = k

LEMMA AppendLeg ==
    ASSUME NEW so, NEW k \in Nat, NEW w, NEW places, LegsTo(so, k, w, places),
           NEW leg, IsLeg(leg, <<places[k + 1], places[k + 2]>>)
    PROVE  LegsTo(Append(so, leg), k + 1, w, places)
<1> DEFINE n == Len(so)
           V == ToSet(so) \cup {leg}
           u == Append(so, leg)
<1>1. so \in Seq(ToSet(so)) /\ n \in Nat /\ n <= k
  BY DEF LegsTo
<1>2. so \in Seq(V)
  <2>1. ToSet(so) \subseteq V
    OBVIOUS
  <2> HIDE DEF V
  <2> QED BY <1>1, <2>1
<1>3. /\ u \in Seq(V) /\ Len(u) = n + 1
      /\ \A i \in 1..n : u[i] = so[i]
      /\ u[n + 1] = leg
  <2> HIDE DEF V
  <2>1. leg \in V
    BY DEF V
  <2> QED BY <1>2, <2>1, AppendProperties
<1> HIDE DEF u, V
<1>4. u \in Seq(ToSet(u))
  <2>1. DOMAIN u = 1..Len(u) /\ Len(u) \in Nat /\ u = [i \in 1..Len(u) |-> u[i]]
    BY <1>3, LenProperties
  <2>2. \A i \in 1..Len(u) : u[i] \in ToSet(u)
    BY <2>1 DEF ToSet
  <2>3. u \in [1..Len(u) -> ToSet(u)]
    BY <2>1, <2>2
  <2> QED BY <2>1, <2>3, LenOfFunction
<1>5. /\ \A i \in 1..n : IsRoute(so[i].route) /\ IsOffered(so[i])
      /\ n = k => \A i \in 1..k : so[i].along = <<places[i], places[i + 1]>>
      /\ (\A i \in 1..k : Alternatives(w, places[i], places[i + 1]) # <<>>) => n = k
  BY DEF LegsTo
<1>6. IsRoute(leg.route) /\ IsOffered(leg) /\ leg.along = <<places[k + 1], places[k + 2]>>
  BY DEF IsLeg
<1> HIDE DEF n
<1>7. ASSUME NEW i \in 1..(n + 1) PROVE IsRoute(u[i].route) /\ IsOffered(u[i])
  <2>1. i \in 1..n \/ i = n + 1
    BY <1>1
  <2> QED BY <1>3, <1>5, <1>6, <2>1
<1>8. ASSUME n + 1 = k + 1, NEW i \in 1..(k + 1)
      PROVE  u[i].along = <<places[i], places[i + 1]>>
  <2>1. n = k /\ (i \in 1..n \/ i = n + 1)
    BY <1>1, <1>8
  <2>2. (k + 1) + 1 = k + 2
    OBVIOUS
  <2>3. CASE i \in 1..n
    BY <1>3, <1>5, <2>1, <2>3
  <2>4. CASE i = n + 1
    BY <1>3, <1>6, <2>1, <2>2, <2>4
  <2> QED BY <2>1, <2>3, <2>4
<1>9. (\A i \in 1..(k + 1) : Alternatives(w, places[i], places[i + 1]) # <<>>) => n + 1 = k + 1
  <2>1. \A i \in 1..k : i \in 1..(k + 1)
    OBVIOUS
  <2> QED BY <1>5, <2>1
<1>10. n + 1 \in Nat /\ n + 1 <= k + 1
  BY <1>1
<1> QED BY <1>3, <1>4, <1>7, <1>8, <1>9, <1>10 DEF LegsTo, u

\* The legs of a walk: each is offered as it is picked, and if every stretch
\* has a route, there is one of each.
LEMMA LegsAlong ==
    ASSUME NEW w, NEW places, NEW last \in Nat, Len(places) = last + 1, NEW nudging,
           \A i \in 1..last : AreRoutes(Alternatives(w, places[i], places[i + 1]))
                              /\ AreRoutes(Via(w, places[i], places[i + 1]))
    PROVE  LegsTo(LegsPast(w, places, nudging), last, w, places)
<1>1. PICK f : Unrolled(f, w, places, nudging, last) /\ LegsPast(w, places, nudging) = f[last]
  BY LegsUnroll
<1> DEFINE T == {k \in 0..last : LegsTo(f[k], k, w, places)}
<1>2. /\ f[0] = <<>>
      /\ \A k \in 0..(last - 1) : f[k + 1] = NextLegs(w, places, nudging, f[k], k + 1)
  <2>1. f = [i \in 0..last |-> IF i = 0 THEN <<>> ELSE NextLegs(w, places, nudging, f[i - 1], i)]
    BY <1>1 DEF Unrolled
  <2>2. 0 \in 0..last
    OBVIOUS
  <2>3. \A k \in 0..(last - 1) : k + 1 \in 0..last /\ k + 1 # 0 /\ (k + 1) - 1 = k
    OBVIOUS
  <2> QED BY <2>1, <2>2, <2>3
<1>3. 0 \in T
  <2>1. <<>> \in Seq(ToSet(<<>>)) /\ Len(<<>>) = 0
    OBVIOUS
  <2>2. LegsTo(<<>>, 0, w, places)
    BY <2>1 DEF LegsTo
  <2>3. 0 \in 0..last
    OBVIOUS
  <2> QED BY <1>2, <2>2, <2>3
<1>4. AreRoutes(<<>>)
  <2>1. <<>> \in Seq(ToSet(<<>>)) /\ ToSet(<<>>) = {}
    BY DEF ToSet
  <2> QED BY <2>1 DEF AreRoutes
<1>5. ASSUME NEW k \in 0..(last - 1), k \in T PROVE k + 1 \in T
  <2>1. k \in Nat /\ k + 1 \in 0..last /\ k + 1 \in 1..last /\ (k + 1) + 1 = k + 2
    OBVIOUS
  <2> DEFINE so == f[k]
             a == places[k + 1]
             b == places[k + 2]
             nudges == IF nudging /\ k + 1 \in 2..(Len(places) - 2) THEN Via(w, a, b) ELSE <<>>
             leg == PickedLeg(Walked(so), <<a, b>>, Alternatives(w, a, b), nudges)
  <2>2. LegsTo(so, k, w, places)
    BY <1>5
  <2>3. f[k + 1] = IF Alternatives(w, a, b) = <<>> THEN so ELSE Append(so, leg)
    BY <1>2, <2>1 DEF NextLegs
  <2>4. AreRoutes(Alternatives(w, a, b)) /\ AreRoutes(nudges)
    BY <1>4, <2>1
  <2> HIDE DEF nudges
  <2>5. CASE Alternatives(w, a, b) = <<>>
    <3>1. LegsTo(so, k + 1, w, places)
      <4> HIDE DEF so
      <4>1. Len(so) \in Nat /\ Len(so) <= k
        BY <2>2 DEF LegsTo
      <4>2. Len(so) <= k + 1 /\ Len(so) # k + 1
        BY <2>1, <4>1
      <4>3. ~(\A i \in 1..(k + 1) : Alternatives(w, places[i], places[i + 1]) # <<>>)
        <5>1. k + 1 \in 1..(k + 1)
          BY <2>1
        <5>2. Alternatives(w, places[k + 1], places[(k + 1) + 1]) = <<>>
          BY <2>1, <2>5
        <5> QED BY <5>1, <5>2
      <4> QED BY <2>2, <4>1, <4>2, <4>3 DEF LegsTo
    <3> QED BY <2>1, <2>3, <2>5, <3>1
  <2>6. CASE Alternatives(w, a, b) # <<>>
    <3>1. IsLeg(leg, <<a, b>>)
      BY <2>4, <2>6, PickedLegIsTrue
    <3> HIDE DEF leg, so
    <3>2. LegsTo(Append(so, leg), k + 1, w, places)
      BY <2>1, <2>2, <3>1, AppendLeg
    <3> QED BY <2>1, <2>3, <2>6, <3>2
  <2> QED BY <2>5, <2>6
<1>6. last \in T
  <2> HIDE DEF T
  <2>1. last \in 0..last
    OBVIOUS
  <2> QED BY <1>3, <1>5, <2>1, AllUpTo
<1> QED BY <1>1, <1>6

----------------------------------------------------------------------------
(***************************************************************************)
(* Between two steps of the planners.                                      *)
(***************************************************************************)

\* The places a loop goes past.
Stations == <<lot>> \o tour \o <<lot>>

LEMMA EndsAround ==
    ASSUME NEW A, NEW t \in Seq(A), NEW z
    PROVE  LET s == <<z>> \o t \o <<z>>
           IN  /\ Len(s) = Len(t) + 2 /\ s[1] = z /\ s[Len(t) + 2] = z
               /\ \A p \in 1..Len(t) : s[p + 1] = t[p]
               /\ \A p \in 1..(Len(t) + 2) : s[p] \in A \cup {z}
<1> DEFINE n == Len(t)
           V == A \cup {z}
           e == <<z>>
           a == e \o t
           s == a \o e
<1>1. n \in Nat /\ t \in Seq(V)
  <2>1. n \in Nat /\ t \in [1..n -> A]
    BY LenProperties
  <2>2. t \in [1..n -> V]
    BY <2>1
  <2> HIDE DEF n, V
  <2> QED BY <2>1, <2>2, LenOfFunction
<1>2. e \in Seq(V) /\ Len(e) = 1 /\ e[1] = z
  OBVIOUS
<1> HIDE DEF V, e
<1>3. /\ a \in Seq(V) /\ Len(a) = 1 + n
      /\ \A i \in 1..(1 + n) : a[i] = IF i <= 1 THEN e[i] ELSE t[i - 1]
  <2> HIDE DEF n
  <2>1. /\ e \o t \in Seq(V) /\ Len(e \o t) = Len(e) + Len(t)
        /\ \A i \in 1..(Len(e) + Len(t)) :
              (e \o t)[i] = IF i <= Len(e) THEN e[i] ELSE t[i - Len(e)]
    <3> HIDE DEF a
    <3> QED BY <1>1, <1>2, ConcatProperties
  <2>2. n = Len(t)
    BY DEF n
  <2> QED BY <1>2, <2>1, <2>2
<1> HIDE DEF a, n
<1>4. /\ s \in Seq(V) /\ Len(s) = (1 + n) + 1
      /\ \A i \in 1..((1 + n) + 1) : s[i] = IF i <= 1 + n THEN a[i] ELSE e[i - (1 + n)]
  <2>1. /\ a \o e \in Seq(V) /\ Len(a \o e) = Len(a) + Len(e)
        /\ \A i \in 1..(Len(a) + Len(e)) :
              (a \o e)[i] = IF i <= Len(a) THEN a[i] ELSE e[i - Len(a)]
    BY <1>2, <1>3, ConcatProperties
  <2> QED BY <1>2, <1>3, <2>1
<1> HIDE DEF s
<1>5. s[1] = z
  BY <1>1, <1>2, <1>3, <1>4
<1>6. s[n + 2] = z /\ Len(s) = n + 2
  <2>1. n + 2 \in 1..((1 + n) + 1) /\ ~(n + 2 <= 1 + n) /\ (n + 2) - (1 + n) = 1
        /\ (1 + n) + 1 = n + 2
    BY <1>1
  <2> QED BY <1>2, <1>4, <2>1
<1>7. ASSUME NEW p \in 1..n PROVE s[p + 1] = t[p]
  <2>1. p + 1 \in 1..((1 + n) + 1) /\ p + 1 \in 1..(1 + n) /\ p + 1 <= 1 + n /\ ~(p + 1 <= 1)
        /\ (p + 1) - 1 = p
    BY <1>1
  <2> QED BY <1>3, <1>4, <2>1
<1>8. ASSUME NEW p \in 1..(n + 2) PROVE s[p] \in V
  BY <1>4, <1>6, ElementOfSeq
<1> QED BY <1>5, <1>6, <1>7, <1>8 DEF s, a, e, n, V

LEMMA StationsAreStops ==
    ASSUME NEW A, Listing(tour, A)
    PROVE  /\ Len(Stations) = (Len(tour) + 1) + 1
           /\ Stations[1] = lot /\ Stations[Len(tour) + 2] = lot
           /\ \A p \in 1..Len(tour) : Stations[p + 1] = tour[p]
           /\ \A p \in 1..(Len(tour) + 2) : Stations[p] \in A \cup {lot}
<1>1. Len(tour) \in Nat /\ tour \in Seq(A)
  BY ListingIsFinite DEF Listing
<1>2. Len(Stations) = Len(tour) + 2
  BY <1>1, EndsAround DEF Stations
<1>3. Len(tour) + 2 = (Len(tour) + 1) + 1
  BY <1>1
<1> QED BY <1>1, <1>2, <1>3, EndsAround DEF Stations

\* The legs a planner routes.
LEMMA RouteLeads ==
    ASSUME NEW r, Begun(r), NEW A, A \subseteq Candidates(r), Listing(tour, A), tour # <<>>,
           lot \in ParkingPlaces, NEW next, Route(next)
    PROVE  \/ phase' = "failed" /\ error' # "503"
           \/ /\ phase' = next /\ error' = error /\ LegsTo(routed', Len(tour) + 1, walk, Stations)
              /\ Len(tour) = 1 => Len(routed') = 2
<1>1. \/ Fails("404")
      \/ /\ <<>> \notin {Alternatives(walk, lot, tour[1]), Alternatives(walk, Last(tour), lot)}
         /\ \E nudging \in {TRUE, "osrm" \notin Faults} : routed' = LegsPast(walk, Stations, nudging)
         /\ phase' = next /\ error' = error
  BY Zenon DEF Route, Stations
<1>2. CASE Fails("404")
  BY <1>2 DEF Fails
<1>3. ASSUME NEW nudging, routed' = LegsPast(walk, Stations, nudging)
      PROVE  LegsTo(routed', Len(tour) + 1, walk, Stations)
  <2> DEFINE n == Len(tour)
  <2>1. n \in Nat /\ n = Len(tour)
    BY ListingIsFinite
  <2>2. /\ Len(Stations) = (n + 1) + 1
        /\ \A p \in 1..(n + 2) : Stations[p] \in A \cup {lot}
    BY StationsAreStops
  <2> HIDE DEF n
  <2>3. ASSUME NEW i \in 1..(n + 1)
        PROVE  /\ AreRoutes(Alternatives(walk, Stations[i], Stations[i + 1]))
               /\ AreRoutes(Via(walk, Stations[i], Stations[i + 1]))
    <3>1. i \in 1..(n + 2) /\ i + 1 \in 1..(n + 2)
      BY <2>1
    <3>2. /\ Stations[i] \in Candidates(r) \cup ParkingPlaces
          /\ Stations[i + 1] \in Candidates(r) \cup ParkingPlaces
      BY <2>2, <3>1
    <3>3. r \in Requests /\ walk = r.walk
      BY DEF Begun, walk
    <3> QED BY <3>2, <3>3, ToursServiceAssumption
  <2>4. n + 1 \in Nat
    BY <2>1
  <2> QED BY <1>3, <2>1, <2>2, <2>3, <2>4, LegsAlong
<1>4. ASSUME Alternatives(walk, lot, tour[1]) # <<>>, Alternatives(walk, Last(tour), lot) # <<>>,
             Len(tour) = 1, LegsTo(routed', Len(tour) + 1, walk, Stations)
      PROVE  Len(routed') = 2
  <2>1. Stations[1] = lot /\ Stations[3] = lot /\ Stations[2] = tour[1] /\ Last(tour) = tour[1]
    <3>1. /\ Stations[1] = lot /\ Stations[Len(tour) + 2] = lot
          /\ \A p \in 1..Len(tour) : Stations[p + 1] = tour[p]
      BY StationsAreStops
    <3> QED BY <1>4, <3>1 DEF Last
  <2>2. \A i \in 1..2 : Alternatives(walk, Stations[i], Stations[i + 1]) # <<>>
    BY <1>4, <2>1
  <2>3. Len(tour) + 1 = 2
    BY <1>4
  <2> QED BY <1>4, <2>2, <2>3 DEF LegsTo
<1> QED BY <1>1, <1>2, <1>3, <1>4

\* The stop that retraces most is one of the tour.
LEMMA WorstFringeIsStop ==
    ASSUME NEW A, Listing(tour, A), NEW w, NEW places, LegsTo(routed, Len(tour) + 1, w, places),
           LooksForFringe, AllRouted, Fringes # {}
    PROVE  WorstFringe \in 1..Len(tour)
<1> DEFINE n == Len(tour)
           I == Fringes
           f == [p \in I |-> -Redundant(p)]
<1>1. n \in Nat /\ n > 2 /\ DOMAIN tour = 1..n
  BY ListingIsFinite DEF LooksForFringe
<1>2. Len(routed) = n + 1 /\ routed \in Seq(ToSet(routed))
      /\ \A i \in 1..(n + 1) : IsRoute(routed[i].route)
  BY DEF AllRouted, LegsTo
<1>3. I \in SUBSET (1..n) /\ I # {}
  BY <1>1 DEF Fringes
<1>4. ASSUME NEW p \in 1..n PROVE Redundant(p) \in Int
  <2>1. LegOut(p) = routed[p + 1]
    <3>1. CASE p = n
      <4>1. LegOut(p) = Last(routed)
        BY <3>1 DEF LegOut
      <4>2. Last(routed) = routed[Len(routed)]
        BY DEF Last
      <4> QED BY <1>2, <3>1, <4>1, <4>2
    <3>2. CASE p # n
      <4>1. p + 1 \in 2..(Len(routed) - 1)
        <5> HIDE DEF n
        <5> QED BY <1>1, <1>2, <3>2
      <4>2. LegOut(p) = InterLeg(p)
        BY <3>2 DEF LegOut
      <4> QED BY <4>1, <4>2 DEF InterLeg
    <3> QED BY <3>1, <3>2
  <2>2. p + 1 \in 1..(n + 1)
    BY <1>1
  <2>3. IsRoute(LegOut(p).route)
    BY <1>2, <2>1, <2>2
  <2> QED BY <2>3, ScoresAreTyped DEF Redundant, RedundantMetres
<1>5. f \in [I -> Int]
  <2> HIDE DEF I
  <2> QED BY <1>3, <1>4
<1>6. PICK p \in I : \A q \in I : f[p] < f[q] \/ (f[p] = f[q] /\ p <= q)
  <2> HIDE DEF I, f, n
  <2> QED BY <1>1, <1>3, <1>5, FirstChoice
<1> DEFINE worst(k) == \A q \in I :
                Redundant(q) < Redundant(k) \/ (Redundant(q) = Redundant(k) /\ k <= q)
<1>7. p \in I /\ worst(p)
  <2>1. ASSUME NEW q \in I
        PROVE  Redundant(q) < Redundant(p) \/ (Redundant(q) = Redundant(p) /\ p <= q)
    <3> HIDE DEF I
    <3>1. Redundant(q) \in Int /\ Redundant(p) \in Int
      BY <1>3, <1>4
    <3>2. -Redundant(p) < -Redundant(q) \/ (-Redundant(p) = -Redundant(q) /\ p <= q)
      BY <1>6
    <3> QED BY <3>1, <3>2
  <2> QED BY <2>1
<1>8. WorstFringe = CHOOSE k \in I : worst(k)
  BY DEF WorstFringe
<1>9. WorstFringe \in I
  <2> HIDE DEF I, worst
  <2> QED BY <1>7, <1>8
<1> QED BY <1>3, <1>9

\* A call of the solver, whatever the matrix is made of.
LEMMA CallStarts ==
    ASSUME NEW m, NEW s, Len(m) \in Nat \ {0}, s \in 1..Len(m), Call(m, s)
    PROVE  SolverInv' /\ pass = "idle" /\ pass' = "seed" /\ Size' = Len(m)
<1>1. Size' = Len(m) /\ start' = s /\ pass' = "seed" /\ order' = <<s>> /\ pass = "idle"
  BY DEF Call, Size
<1>2. Path(<<s>>, Len(m), s)
  <2>1. <<s>> \in Seq(1..Len(m)) /\ Len(<<s>>) = 1 /\ <<s>>[1] = s
    OBVIOUS
  <2> DEFINE n == Len(m)
  <2> HIDE DEF n
  <2>2. 1 \in 1..n
    BY DEF n
  <2> QED BY <2>1, <2>2 DEF Path, n
<1> QED BY <1>1, <1>2 DEF SolverInv, Running

\* A matrix has as many rows as its list is long.
LEMMA MatrixRows ==
    ASSUME NEW A, NEW ids, Listing(ids, A), NEW m, m = [i \in DOMAIN ids |-> m[i]]
    PROVE  Len(m) = Len(ids)
<1> DEFINE n == Len(ids)
<1>1. n \in Nat /\ DOMAIN ids = 1..n
  BY ListingIsFinite
<1> HIDE DEF n
<1>2. m \in [1..n -> {m[i] : i \in 1..n}]
  BY <1>1
<1>3. Len(m) = n
  BY <1>1, <1>2, LenOfFunction
<1> QED BY <1>3 DEF n

----------------------------------------------------------------------------
(***************************************************************************)
(* Mending an answer: orphans, omissions, and units that may come back.    *)
(***************************************************************************)

\* A list of ids with a reason each.
LEMMA TaggedListing ==
    ASSUME NEW A, NEW t, Listing(t, A), NEW u, u = [i \in DOMAIN t |-> u[i]],
           \A i \in DOMAIN t : u[i] = [id |-> t[i], reason |-> u[i].reason] /\ u[i].reason \in Reasons
    PROVE  /\ Listing(u, ToSet(u)) /\ ToSet(u) \in SUBSET [id : A, reason : Reasons]
           /\ \A d, e \in ToSet(u) : d.id = e.id => d = e
           /\ Dropped(ToSet(u)) = A
<1> DEFINE n == Len(t)
           D == ToSet(u)
<1>1. n \in Nat /\ t \in [1..n -> A] /\ DOMAIN t = 1..n
  BY ListingIsFinite
<1>2. /\ \A i, j \in 1..n : t[i] = t[j] => i = j
      /\ \A x \in A : \E i \in 1..n : t[i] = x
  BY DEF Listing
<1> HIDE DEF n
<1>3. DOMAIN u = 1..n /\ D = {u[i] : i \in 1..n} /\ \A i \in 1..n : u[i] \in D
  BY <1>1 DEF ToSet
<1>4. \A i \in 1..n : u[i].id = t[i] /\ u[i] \in [id : A, reason : Reasons]
  <2> SUFFICES ASSUME NEW i \in 1..n PROVE u[i].id = t[i] /\ u[i] \in [id : A, reason : Reasons]
    OBVIOUS
  <2>1. u[i] = [id |-> t[i], reason |-> u[i].reason] /\ u[i].reason \in Reasons /\ t[i] \in A
    BY <1>1
  <2> DEFINE x == u[i].reason
  <2>2. u[i] = [id |-> t[i], reason |-> x] /\ x \in Reasons
    BY <2>1
  <2> HIDE DEF x
  <2> QED BY <2>1, <2>2
<1> HIDE DEF D
<1>5. u \in [1..n -> D]
  <2>1. u = [i \in 1..n |-> u[i]]
    BY <1>1
  <2> QED BY <1>3, <2>1
<1>6. \A i, j \in 1..n : u[i] = u[j] => i = j
  BY <1>2, <1>4
<1>7. \A d \in D : \E i \in 1..n : u[i] = d
  BY <1>3
<1>8. Listing(u, D)
  BY <1>1, <1>5, <1>6, <1>7, ListingOf
<1>9. D \in SUBSET [id : A, reason : Reasons]
  BY <1>4, <1>7
<1>10. \A d, e \in D : d.id = e.id => d = e
  BY <1>2, <1>4, <1>7
<1>11. Dropped(D) = A
  <2>1. \A d \in D : d.id \in A
    BY <1>1, <1>4, <1>7
  <2>2. \A x \in A : \E d \in D : d.id = x
    BY <1>2, <1>3, <1>4
  <2> QED BY <2>1, <2>2 DEF Dropped
<1> QED BY <1>8, <1>9, <1>10, <1>11 DEF D

\* More goes, of the stops or of what never was one.
LEMMA MoreDropped ==
    ASSUME NEW R, NEW t, NEW ds, NEW A, NEW D, Split(t, ds, R, A, D),
           NEW S, R \subseteq S, NEW B, NEW u, Listing(u, B),
           NEW e, NEW E, Listing(e, E), E \in SUBSET [id : S, reason : Reasons],
           \A x, y \in E : x.id = y.id => x = y,
           Dropped(E) \cap Dropped(D) = {}, B \cap (Dropped(D) \cup Dropped(E)) = {},
           B \cup Dropped(D) \cup Dropped(E) = S
    PROVE  Split(u, ds \o e, S, B, D \cup E)
<1>1. Listing(ds, D) /\ D \in SUBSET [id : R, reason : Reasons]
      /\ \A x, y \in D : x.id = y.id => x = y
  BY DEF Split
<1>2. D \cap E = {}
  BY DEF Dropped
<1>3. Listing(ds \o e, D \cup E)
  BY <1>1, <1>2, JoinedListings
<1>4. D \cup E \in SUBSET [id : S, reason : Reasons]
  BY <1>1
<1>5. Dropped(D \cup E) = Dropped(D) \cup Dropped(E)
  BY DEF Dropped
<1>6. ASSUME NEW x \in D \cup E, NEW y \in D \cup E, x.id = y.id PROVE x = y
  <2>1. x \in D /\ y \in D => x = y
    BY <1>1, <1>6
  <2>2. x \in E /\ y \in E => x = y
    BY <1>6
  <2>3. ~(x \in D /\ y \in E) /\ ~(x \in E /\ y \in D)
    BY <1>6 DEF Dropped
  <2> QED BY <2>1, <2>2, <2>3
<1>7. B \cap Dropped(D \cup E) = {} /\ B \cup Dropped(D \cup E) = S
  BY <1>5
<1> QED BY <1>3, <1>4, <1>6, <1>7 DEF Split

\* The stops of an adventure, and what is left when some go.
LEMMA StopsOfListing ==
    ASSUME NEW A, NEW t, Listing(t, A), NEW adventure
    PROVE  LET B == {c \in A : Adventure[c] = adventure}
           IN  /\ Listing(StopsOf(t, adventure), B)
               /\ B # {} => 1 \in DOMAIN StopsOf(t, adventure) /\ StopsOf(t, adventure)[1] \in B
<1> DEFINE I == {i \in DOMAIN t : Adventure[t[i]] = adventure}
           B == {c \in A : Adventure[c] = adventure}
           s == StopsOf(t, adventure)
<1>1. s = Picked(t, I)
  BY Zenon DEF StopsOf, Where, Picked
<1>2. DOMAIN t = 1..Len(t) /\ t \in [1..Len(t) -> A]
  BY ListingIsFinite
<1>3. {t[i] : i \in I} = B
  BY <1>2 DEF Listing
<1>4. I \in SUBSET (1..Len(t))
  BY <1>2
<1> HIDE DEF I, B, s
<1>5. Listing(s, B)
  BY <1>1, <1>3, <1>4, FilteredListing
<1>6. ASSUME B # {} PROVE 1 \in DOMAIN s /\ s[1] \in B
  <2>1. s # <<>> /\ Len(s) \in Nat /\ DOMAIN s = 1..Len(s) /\ s \in [1..Len(s) -> B]
    BY <1>5, <1>6, ListingIsFinite
  <2>2. Len(s) # 0
    BY <1>5, <2>1, EmptySeq DEF Listing
  <2>3. 1 \in 1..Len(s)
    BY <2>1, <2>2
  <2> QED BY <2>1, <2>3
<1> QED BY <1>5, <1>6 DEF B, s

LEMMA PositionIsFound ==
    ASSUME NEW A, NEW t, Listing(t, A), NEW c \in A
    PROVE  PositionIn(t, c) \in 1..Len(t) /\ t[PositionIn(t, c)] = c
<1>1. DOMAIN t = 1..Len(t) /\ \E i \in 1..Len(t) : t[i] = c
  BY ListingIsFinite DEF Listing
<1> QED BY <1>1 DEF PositionIn

\* The stops that go with their adventure are listed once each.
LEMMA OrphansListed ==
    ASSUME NEW A, Listing(tour, A)
    PROVE  /\ Orphans \subseteq A
           /\ Listing(AfterOrphans, A \ Orphans)
           /\ Listing(OrphanDrops, ToSet(OrphanDrops))
           /\ ToSet(OrphanDrops) \in SUBSET [id : Orphans, reason : Reasons]
           /\ \A d, e \in ToSet(OrphanDrops) : d.id = e.id => d = e
           /\ Dropped(ToSet(OrphanDrops)) = Orphans
<1> DEFINE O == Orphans
           n == Len(tour)
<1>1. ToSet(tour) = A /\ IsFiniteSet(A) /\ n \in Nat /\ DOMAIN tour = 1..n /\ tour \in [1..n -> A]
  BY ListingIsFinite
<1>2. O \in SUBSET A
  BY <1>1 DEF Orphans
<1>3. IsFiniteSet(O)
  BY <1>1, <1>2, FS_Subset
<1>4. Listing(AfterOrphans, A \ O)
  <2> DEFINE I == {i \in DOMAIN tour : tour[i] \notin Orphans}
  <2>1. AfterOrphans = Picked(tour, I)
    BY Zenon DEF AfterOrphans, Where, Picked
  <2>2. {tour[i] : i \in I} = A \ O
    <3> HIDE DEF O
    <3> QED BY <1>1 DEF Listing, O
  <2>3. I \in SUBSET (1..Len(tour))
    BY <1>1
  <2> HIDE DEF I, O
  <2> QED BY <2>1, <2>2, <2>3, FilteredListing
<1> DEFINE f == [x \in O |-> FirstOf(Adventure[x])]
           g == [x \in O |-> PositionIn(tour, x)]
           R == {p \in O \X O : f[p[1]] < f[p[2]]
                               \/ (Adventure[p[1]] = Adventure[p[2]] /\ g[p[1]] < g[p[2]])}
<1>5. ASSUME NEW x \in O
      PROVE  /\ g[x] \in Nat /\ tour[g[x]] = x
             /\ f[x] \in Nat /\ Adventure[tour[f[x]]] = Adventure[x]
  <2>1. x \in A
    BY <1>2
  <2>2. PositionIn(tour, x) \in 1..n /\ tour[PositionIn(tour, x)] = x
    BY <2>1, PositionIsFound
  <2> DEFINE y == StopsOf(tour, Adventure[x])[1]
  <2>3. y \in A /\ Adventure[y] = Adventure[x]
    <3> DEFINE B == {c \in A : Adventure[c] = Adventure[x]}
    <3>1. B # {}
      BY <2>1
    <3>2. y \in B
      BY <3>1, StopsOfListing
    <3> QED BY <3>2
  <2> HIDE DEF y
  <2>4. PositionIn(tour, y) \in 1..n /\ tour[PositionIn(tour, y)] = y
    BY <2>3, PositionIsFound
  <2>5. FirstOf(Adventure[x]) = PositionIn(tour, y)
    BY DEF FirstOf, y
  <2>6. g[x] = PositionIn(tour, x) /\ f[x] = PositionIn(tour, y)
    <3> HIDE DEF O
    <3> QED BY <2>5
  <2> HIDE DEF f, g
  <2> QED BY <1>1, <2>2, <2>3, <2>4, <2>6
<1>6. \A x, y \in O : <<x, y>> \in R <=>
         f[x] < f[y] \/ (Adventure[x] = Adventure[y] /\ g[x] < g[y])
  <2> HIDE DEF O, f, g
  <2> QED OBVIOUS
<1>7. \A x, y \in O : /\ g[x] = g[y] => x = y
                      /\ f[x] = f[y] <=> Adventure[x] = Adventure[y]
  <2>1. \A x \in O : tour[g[x]] = x /\ Adventure[tour[f[x]]] = Adventure[x]
    BY <1>5
  <2>2. \A x, y \in O : Adventure[x] = Adventure[y] => f[x] = f[y]
    <3> HIDE DEF O
    <3> QED OBVIOUS
  <2> HIDE DEF O, f, g
  <2>3. ASSUME NEW x \in O, NEW y \in O, g[x] = g[y] PROVE x = y
    BY <2>1, <2>3
  <2>4. ASSUME NEW x \in O, NEW y \in O, f[x] = f[y] PROVE Adventure[x] = Adventure[y]
    <3>1. Adventure[tour[f[x]]] = Adventure[x] /\ Adventure[tour[f[y]]] = Adventure[y]
      BY <2>1
    <3> QED BY <2>4, <3>1
  <2> QED BY <2>2, <2>3, <2>4
<1>8. Orders(R, O)
  <2>0. \A x \in O : f[x] \in Nat /\ g[x] \in Nat
    BY <1>5
  <2> HIDE DEF R, O, f, g
  <2>1. \A x \in O : <<x, x>> \notin R
    BY <1>6, <2>0
  <2>2. ASSUME NEW x \in O, NEW y \in O, x # y PROVE <<x, y>> \in R \/ <<y, x>> \in R
    <3>1. g[x] # g[y] /\ g[x] \in Nat /\ g[y] \in Nat /\ f[x] \in Nat /\ f[y] \in Nat
          /\ (f[x] = f[y] <=> Adventure[x] = Adventure[y])
      BY <1>7, <2>0, <2>2
    <3> QED BY <1>6, <3>1
  <2>3. ASSUME NEW x \in O, NEW y \in O, NEW z \in O, <<x, y>> \in R, <<y, z>> \in R
        PROVE  <<x, z>> \in R
    <3>1. /\ g[x] \in Nat /\ g[y] \in Nat /\ g[z] \in Nat
          /\ f[x] \in Nat /\ f[y] \in Nat /\ f[z] \in Nat
          /\ (f[x] = f[y] <=> Adventure[x] = Adventure[y])
          /\ (f[y] = f[z] <=> Adventure[y] = Adventure[z])
      BY <1>7, <2>0
    <3>2. /\ f[x] < f[y] \/ (Adventure[x] = Adventure[y] /\ g[x] < g[y])
          /\ f[y] < f[z] \/ (Adventure[y] = Adventure[z] /\ g[y] < g[z])
      BY <1>6, <2>3
    <3>3. f[x] < f[z] \/ (Adventure[x] = Adventure[z] /\ g[x] < g[z])
      BY <3>1, <3>2
    <3> QED BY <1>6, <3>3
  <2> QED BY <2>1, <2>2, <2>3 DEF Orders
<1> DEFINE Prec(x, y) == \/ FirstOf(Adventure[x]) < FirstOf(Adventure[y])
                         \/ Adventure[x] = Adventure[y] /\ PositionIn(tour, x) < PositionIn(tour, y)
           l == [i \in 1..Cardinality(O) |->
                   CHOOSE x \in O : Cardinality({y \in O : Prec(y, x)}) = i - 1]
<1>9. Listing(l, O)
  <2>1. \A x \in O : Below(R, O, x) = {y \in O : Prec(y, x)}
    <3> TAKE x \in O
    <3>1. \A y \in O : <<y, x>> \in R <=> Prec(y, x)
      <4>1. \A y \in O : f[y] = FirstOf(Adventure[y]) /\ g[y] = PositionIn(tour, y)
        <5> HIDE DEF O
        <5> QED OBVIOUS
      <4> HIDE DEF O, R, f, g
      <4> QED BY <1>6, <4>1
    <3> HIDE DEF R, O, Prec
    <3> QED BY <3>1 DEF Below
  <2> HIDE DEF R, O, Prec
  <2>2. ASSUME NEW i \in 1..Cardinality(O)
        PROVE  l[i] \in O /\ Cardinality(Below(R, O, l[i])) = i - 1
    <3>1. PICK x \in O : Cardinality(Below(R, O, x)) = i - 1
      BY <1>3, <1>8, RanksFill
    <3>2. Cardinality({y \in O : Prec(y, x)}) = i - 1
      BY <2>1, <3>1
    <3>3. l[i] \in O /\ Cardinality({y \in O : Prec(y, l[i])}) = i - 1
      BY <3>2
    <3> HIDE DEF l
    <3> QED BY <2>1, <3>3
  <2>3. l \in [1..Cardinality(O) -> O]
    BY <2>2
  <2> HIDE DEF l
  <2>4. Lists(l, O)
    BY <1>3, <1>8, <2>2, <2>3, RankedLists
  <2> QED BY <1>3, <2>4, ListsAreListings
<1>10. OrphanDrops = [i \in DOMAIN l |-> [id |-> l[i], reason |-> "adventure-incomplete"]]
  BY DEF OrphanDrops, Ranked
<1> HIDE DEF l, O
<1> DEFINE u == OrphanDrops
<1>11. u = [i \in DOMAIN l |-> u[i]]
       /\ \A i \in DOMAIN l : u[i] = [id |-> l[i], reason |-> u[i].reason] /\ u[i].reason \in Reasons
  BY <1>10 DEF Reasons
<1> HIDE DEF u
<1>12. /\ Listing(u, ToSet(u)) /\ ToSet(u) \in SUBSET [id : O, reason : Reasons]
       /\ \A d, e \in ToSet(u) : d.id = e.id => d = e
       /\ Dropped(ToSet(u)) = O
  BY <1>9, <1>11, TaggedListing
<1> QED BY <1>2, <1>4, <1>12 DEF O, u

\* So is what the service left out.
LEMMA OmittedListed ==
    ASSUME NEW R, Listing(reps, R)
    PROVE  /\ Listing(Omitted, ToSet(Omitted))
           /\ ToSet(Omitted) \in SUBSET [id : R \ ToSet(answer), reason : Reasons]
           /\ \A d, e \in ToSet(Omitted) : d.id = e.id => d = e
           /\ Dropped(ToSet(Omitted)) = R \ ToSet(answer)
<1> DEFINE I == {i \in DOMAIN reps : reps[i] \notin ToSet(answer)}
           l == Picked(reps, I)
           u == Omitted
           B == R \ ToSet(answer)
<1>1. DOMAIN reps = 1..Len(reps) /\ reps \in [1..Len(reps) -> R]
  BY ListingIsFinite
<1>2. {reps[i] : i \in I} = B
  BY <1>1 DEF Listing
<1>3. I \in SUBSET (1..Len(reps))
  BY <1>1
<1>4. l = Where(reps, LAMBDA c : c \notin ToSet(answer))
  BY Zenon DEF Where, Picked
<1> HIDE DEF I, B
<1>5. Listing(l, B)
  BY <1>2, <1>3, FilteredListing
<1> HIDE DEF l
<1>6. u = [i \in DOMAIN l |-> u[i]]
      /\ \A i \in DOMAIN l : u[i] = [id |-> l[i], reason |-> u[i].reason] /\ u[i].reason \in Reasons
  BY <1>4 DEF Omitted, Reasons
<1> HIDE DEF u
<1>7. /\ Listing(u, ToSet(u)) /\ ToSet(u) \in SUBSET [id : B, reason : Reasons]
      /\ \A d, e \in ToSet(u) : d.id = e.id => d = e
      /\ Dropped(ToSet(u)) = B
  BY <1>5, <1>6, TaggedListing
<1> QED BY <1>7 DEF u, B

----------------------------------------------------------------------------
(***************************************************************************)
(* The units that may come back share no stop.                             *)
(***************************************************************************)
Apart(us, V) ==
    /\ us \in Seq(ToSet(us))
    /\ \A i \in 1..Len(us) : Listing(us[i], ToSet(us[i])) /\ ToSet(us[i]) \subseteq V
    /\ \A i, j \in 1..Len(us) : i # j => ToSet(us[i]) \cap ToSet(us[j]) = {}

StagesIn(ds, a) == Picked(ds, {i \in DOMAIN ds : Adventure[ds[i].id] = a})

UnitOf(ds, d) == IF Adventure[d.id] = None THEN <<d>> ELSE StagesIn(ds, Adventure[d.id])

HeadsOf(ds) == Picked(ds, {i \in DOMAIN ds : UnitOf(ds, ds[i])[1] = ds[i]})

\* What is dropped with d.
MatesOf(D, d) ==
    IF Adventure[d.id] = None THEN {d} ELSE {e \in D : Adventure[e.id] = Adventure[d.id]}

LEMMA UnitsUnfold ==
    ASSUME NEW ds
    PROVE  UnitsOf(ds) =
              [i \in DOMAIN HeadsOf(ds) |->
                  [k \in DOMAIN UnitOf(ds, HeadsOf(ds)[i]) |-> UnitOf(ds, HeadsOf(ds)[i])[k].id]]
BY Zenon DEF UnitsOf, Where, Picked, StagesIn, UnitOf, HeadsOf

LEMMA IdsListing ==
    ASSUME NEW M, NEW u, Listing(u, M), \A d, e \in M : d.id = e.id => d = e,
           NEW l, l = [k \in DOMAIN u |-> u[k].id]
    PROVE  Listing(l, {e.id : e \in M}) /\ Len(l) = Len(u)
<1> DEFINE n == Len(u)
           B == {e.id : e \in M}
<1>1. n \in Nat /\ u \in [1..n -> M] /\ DOMAIN u = 1..n
  BY ListingIsFinite
<1>2. /\ \A i, j \in 1..n : u[i] = u[j] => i = j
      /\ \A x \in M : \E i \in 1..n : u[i] = x
  BY DEF Listing
<1> HIDE DEF n
<1>3. l \in [1..n -> B] /\ \A k \in 1..n : l[k] = u[k].id
  BY <1>1
<1>4. ASSUME NEW i \in 1..n, NEW j \in 1..n, l[i] = l[j] PROVE i = j
  <2>1. u[i] \in M /\ u[j] \in M /\ u[i].id = u[j].id
    BY <1>1, <1>3, <1>4
  <2>2. u[i] = u[j]
    BY <2>1
  <2> QED BY <1>2, <2>2
<1>5. ASSUME NEW c \in B PROVE \E i \in 1..n : l[i] = c
  <2>1. PICK e \in M : c = e.id
    OBVIOUS
  <2>2. PICK i \in 1..n : u[i] = e
    BY <1>2
  <2> QED BY <1>3, <2>1, <2>2
<1> HIDE DEF B
<1>6. Listing(l, B) /\ Len(l) = n
  BY <1>1, <1>3, <1>4, <1>5, ListingOf
<1> QED BY <1>6 DEF n, B

LEMMA UnitsListMates ==
    ASSUME NEW ds, NEW D, Listing(ds, D), NEW d \in D
    PROVE  /\ Listing(UnitOf(ds, d), MatesOf(D, d))
           /\ d \in MatesOf(D, d) /\ MatesOf(D, d) \subseteq D
<1>1. d \in MatesOf(D, d) /\ MatesOf(D, d) \subseteq D
  BY DEF MatesOf
<1>2. CASE Adventure[d.id] = None
  <2>1. UnitOf(ds, d) = <<d>> /\ MatesOf(D, d) = {d}
    BY <1>2 DEF UnitOf, MatesOf
  <2> QED BY <1>1, <2>1, SingleListing
<1>3. CASE Adventure[d.id] # None
  <2> DEFINE a == Adventure[d.id]
             I == {i \in DOMAIN ds : Adventure[ds[i].id] = a}
  <2>1. UnitOf(ds, d) = Picked(ds, I)
    BY <1>3 DEF UnitOf, StagesIn
  <2>2. DOMAIN ds = 1..Len(ds) /\ ds \in [1..Len(ds) -> D]
    BY ListingIsFinite
  <2>3. {ds[i] : i \in I} = {e \in D : Adventure[e.id] = a}
    <3> HIDE DEF a
    <3> QED BY <2>2 DEF Listing
  <2>4. MatesOf(D, d) = {e \in D : Adventure[e.id] = a}
    BY <1>3 DEF MatesOf
  <2>5. I \in SUBSET (1..Len(ds))
    BY <2>2
  <2> HIDE DEF I, a
  <2>6. Listing(Picked(ds, I), {ds[i] : i \in I})
    BY <2>5, FilteredListing
  <2> QED BY <1>1, <2>1, <2>3, <2>4, <2>6
<1> QED BY <1>2, <1>3

\* Two that have a mate in common and lead their units are the same.
LEMMA HeadsDiffer ==
    ASSUME NEW ds, NEW D, Listing(ds, D), NEW d \in D, NEW e \in D,
           UnitOf(ds, d)[1] = d, UnitOf(ds, e)[1] = e,
           NEW x, x \in MatesOf(D, d), x \in MatesOf(D, e)
    PROVE  d = e
<1>1. CASE Adventure[d.id] = None
  <2>1. x = d
    BY <1>1 DEF MatesOf
  <2>2. Adventure[e.id] = None => x = e
    BY DEF MatesOf
  <2>3. Adventure[e.id] # None => Adventure[x.id] = Adventure[e.id]
    BY DEF MatesOf
  <2> QED BY <1>1, <2>1, <2>2, <2>3
<1>2. CASE Adventure[d.id] # None
  <2>1. Adventure[x.id] = Adventure[d.id]
    BY <1>2 DEF MatesOf
  <2>2. Adventure[e.id] = Adventure[d.id]
    BY <1>2, <2>1 DEF MatesOf
  <2>3. UnitOf(ds, e) = UnitOf(ds, d)
    BY <1>2, <2>2 DEF UnitOf
  <2> QED BY <2>3
<1> QED BY <1>1, <1>2

LEMMA UnitsAreApart ==
    ASSUME NEW ds, NEW D, Listing(ds, D), \A d, e \in D : d.id = e.id => d = e
    PROVE  Apart(UnitsOf(ds), Dropped(D)) /\ \A i \in 1..Len(UnitsOf(ds)) : ToSet(UnitsOf(ds)[i]) # {}
<1> DEFINE h == HeadsOf(ds)
           H == {d \in D : UnitOf(ds, d)[1] = d}
           us == UnitsOf(ds)
           n == Len(h)
<1>1. Listing(h, H)
  <2> DEFINE I == {i \in DOMAIN ds : UnitOf(ds, ds[i])[1] = ds[i]}
  <2>1. h = Picked(ds, I)
    BY DEF HeadsOf
  <2>2. DOMAIN ds = 1..Len(ds) /\ ds \in [1..Len(ds) -> D]
    BY ListingIsFinite
  <2>3. {ds[i] : i \in I} = H
    BY <2>2 DEF Listing
  <2>4. I \in SUBSET (1..Len(ds))
    BY <2>2
  <2> HIDE DEF I, H
  <2> QED BY <2>1, <2>3, <2>4, FilteredListing
<1>2. n \in Nat /\ h \in [1..n -> H] /\ DOMAIN h = 1..n /\ \A i, j \in 1..n : h[i] = h[j] => i = j
  <2> HIDE DEF h, H
  <2> QED BY <1>1, ListingIsFinite DEF Listing
<1>3. DOMAIN us = 1..n /\ us = [i \in 1..n |-> us[i]]
      /\ \A i \in 1..n : us[i] = [k \in DOMAIN UnitOf(ds, h[i]) |-> UnitOf(ds, h[i])[k].id]
  <2> HIDE DEF h
  <2>1. us = [i \in 1..n |-> [k \in DOMAIN UnitOf(ds, h[i]) |-> UnitOf(ds, h[i])[k].id]]
    BY <1>2, UnitsUnfold DEF h
  <2> HIDE DEF us
  <2> QED BY <2>1
<1> HIDE DEF h, us, n
<1>4. ASSUME NEW i \in 1..n
      PROVE  /\ h[i] \in D /\ UnitOf(ds, h[i])[1] = h[i]
             /\ Listing(us[i], ToSet(us[i])) /\ ToSet(us[i]) = {e.id : e \in MatesOf(D, h[i])}
             /\ MatesOf(D, h[i]) \subseteq D /\ h[i] \in MatesOf(D, h[i])
  <2>1. h[i] \in D /\ UnitOf(ds, h[i])[1] = h[i]
    BY <1>2
  <2> DEFINE d == h[i]
             u == UnitOf(ds, d)
             M == MatesOf(D, d)
             l == us[i]
  <2>2. Listing(u, M) /\ d \in M /\ M \subseteq D
    BY <2>1, UnitsListMates
  <2>3. l = [k \in DOMAIN u |-> u[k].id]
    BY <1>3
  <2>4. \A x, y \in M : x.id = y.id => x = y
    BY <2>2
  <2> HIDE DEF u, M, l
  <2>5. Listing(l, {e.id : e \in M})
    BY <2>2, <2>3, <2>4, IdsListing
  <2>6. ToSet(l) = {e.id : e \in M}
    BY <2>5, ListingIsFinite
  <2> QED BY <2>1, <2>2, <2>5, <2>6 DEF u, M, l
<1>5. us \in Seq(ToSet(us)) /\ Len(us) = n
  <2>1. \A i \in 1..n : us[i] \in ToSet(us)
    BY <1>3 DEF ToSet
  <2>2. us \in [1..n -> ToSet(us)]
    BY <1>3, <2>1
  <2> QED BY <1>2, <2>2, LenOfFunction
<1>6. ASSUME NEW i \in 1..n PROVE ToSet(us[i]) \subseteq Dropped(D) /\ ToSet(us[i]) # {}
  BY <1>4 DEF Dropped
<1>7. ASSUME NEW i \in 1..n, NEW j \in 1..n, i # j PROVE ToSet(us[i]) \cap ToSet(us[j]) = {}
  <2> SUFFICES ASSUME NEW c, c \in ToSet(us[i]), c \in ToSet(us[j]) PROVE FALSE
    OBVIOUS
  <2>1. PICK x \in MatesOf(D, h[i]) : c = x.id
    BY <1>4
  <2>2. PICK y \in MatesOf(D, h[j]) : c = y.id
    BY <1>4
  <2>3. x \in D /\ y \in D
    BY <1>4
  <2>4. x = y
    BY <2>1, <2>2, <2>3
  <2>5. h[i] = h[j]
    BY <1>4, <2>4, HeadsDiffer
  <2> QED BY <1>2, <1>7, <2>5
<1>8. Apart(us, Dropped(D))
  BY <1>4, <1>5, <1>6, <1>7 DEF Apart
<1> QED BY <1>5, <1>6, <1>8 DEF us

\* Some of the units, in any order.
PickOfApart(us, V, I, r, l) ==
    /\ Apart(l, V) /\ Len(l) = Len(r) /\ DOMAIN l = 1..Len(l) /\ Len(l) \in Nat
    /\ \A k \in 1..Len(l) : r[k] \in I /\ l[k] = us[r[k]]

LEMMA PickedAreApart ==
    ASSUME NEW us, NEW V, Apart(us, V), NEW I \in SUBSET (1..Len(us)), NEW r, Listing(r, I),
           NEW l, l = [k \in DOMAIN r |-> us[r[k]]]
    PROVE  PickOfApart(us, V, I, r, l)
<1> DEFINE n == Len(r)
<1>1. n \in Nat /\ r \in [1..n -> I] /\ DOMAIN r = 1..n
  BY ListingIsFinite
<1>2. \A i, j \in 1..n : r[i] = r[j] => i = j
  BY DEF Listing
<1> HIDE DEF n
<1>3. DOMAIN l = 1..n /\ l = [k \in 1..n |-> l[k]] /\ \A k \in 1..n : l[k] = us[r[k]]
  BY <1>1
<1>4. l \in Seq(ToSet(l)) /\ Len(l) = n
  <2>1. \A i \in 1..n : l[i] \in ToSet(l)
    BY <1>3 DEF ToSet
  <2>2. l \in [1..n -> ToSet(l)]
    BY <1>3, <2>1
  <2> QED BY <1>1, <2>2, LenOfFunction
<1>5. /\ \A i \in 1..Len(us) : Listing(us[i], ToSet(us[i])) /\ ToSet(us[i]) \subseteq V
      /\ \A i, j \in 1..Len(us) : i # j => ToSet(us[i]) \cap ToSet(us[j]) = {}
  BY DEF Apart
<1>6. \A k \in 1..n : r[k] \in 1..Len(us) /\ r[k] \in I
  BY <1>1
<1>7. \A k \in 1..n : Listing(l[k], ToSet(l[k])) /\ ToSet(l[k]) \subseteq V
  BY <1>3, <1>5, <1>6
<1>8. ASSUME NEW i \in 1..n, NEW j \in 1..n, i # j PROVE ToSet(l[i]) \cap ToSet(l[j]) = {}
  <2>1. r[i] # r[j]
    BY <1>2, <1>8
  <2> QED BY <1>3, <1>5, <1>6, <2>1
<1>9. Apart(l, V)
  BY <1>4, <1>7, <1>8 DEF Apart
<1> QED BY <1>1, <1>3, <1>4, <1>6, <1>9 DEF n, PickOfApart

\* By one number and then by another.
Ranking(l, S, f, g) ==
    /\ l = [i \in 1..Cardinality(S) |-> l[i]]
    /\ \A i \in 1..Cardinality(S), x \in S :
          Cardinality({y \in S : f[y] < f[x] \/ (f[y] = f[x] /\ g[y] < g[x])}) = i - 1
            => /\ l[i] \in S
               /\ Cardinality({y \in S : f[y] < f[l[i]] \/ (f[y] = f[l[i]] /\ g[y] < g[l[i]])}) = i - 1

LEMMA RankedByTwo ==
    ASSUME NEW S, IsFiniteSet(S), NEW f \in [S -> Int], NEW g \in [S -> Int],
           \A x, y \in S : g[x] = g[y] => x = y, NEW l, Ranking(l, S, f, g)
    PROVE  Listing(l, S) /\ Len(l) = Cardinality(S)
<1> DEFINE R == {p \in S \X S : f[p[1]] < f[p[2]] \/ (f[p[1]] = f[p[2]] /\ g[p[1]] < g[p[2]])}
           B(x) == {y \in S : f[y] < f[x] \/ (f[y] = f[x] /\ g[y] < g[x])}
<1>1. \A x, y \in S : <<x, y>> \in R <=> f[x] < f[y] \/ (f[x] = f[y] /\ g[x] < g[y])
  OBVIOUS
<1>2. \A x \in S : f[x] \in Int /\ g[x] \in Int
  OBVIOUS
<1> HIDE DEF R
<1>3. Orders(R, S)
  BY <1>1, <1>2 DEF Orders
<1>4. \A x \in S : Below(R, S, x) = B(x)
  BY <1>1 DEF Below
<1>5. ASSUME NEW i \in 1..Cardinality(S)
      PROVE  l[i] \in S /\ Cardinality(Below(R, S, l[i])) = i - 1
  <2>1. PICK x \in S : Cardinality(Below(R, S, x)) = i - 1
    BY <1>3, RanksFill
  <2>2. Cardinality(B(x)) = i - 1
    BY <1>4, <2>1
  <2>3. l[i] \in S /\ Cardinality(B(l[i])) = i - 1
    BY Zenon, <2>2 DEF Ranking
  <2> HIDE DEF B
  <2> QED BY <1>4, <2>3
<1>6. l \in [1..Cardinality(S) -> S]
  <2>1. l = [i \in 1..Cardinality(S) |-> l[i]]
    BY Zenon DEF Ranking
  <2> QED BY <1>5, <2>1
<1>7. Lists(l, S)
  BY <1>3, <1>5, <1>6, RankedLists
<1> QED BY <1>7, ListsAreListings

\* The units come nearest first.
Allowed(ds) ==
    LET us == UnitsOf(ds)
        at == Sorted({i \in DOMAIN us : \A c \in ToSet(us[i]) : Reclaimable(ReasonIn(ds, c))})
    IN  [k \in DOMAIN at |-> us[at[k]]]

NearTo(all, loop, i) == Min({Direct(m, c) : m \in ToSet(all[i]), c \in ToSet(loop)})

NearestFirst(all, loop) ==
    [i \in 1..Cardinality(DOMAIN all) |->
        CHOOSE x \in DOMAIN all : Cardinality({y \in DOMAIN all :
            \/ NearTo(all, loop, y) < NearTo(all, loop, x)
            \/ NearTo(all, loop, y) = NearTo(all, loop, x) /\ y < x}) = i - 1]

LEMMA EligibleUnfolds ==
    ASSUME NEW ds, NEW loop
    PROVE  Eligible(ds, loop) =
              [i \in DOMAIN Allowed(ds) |-> Allowed(ds)[NearestFirst(Allowed(ds), loop)[i]]]
BY DEF Eligible, Where, Ranked, Allowed, NearTo, NearestFirst

LEMMA NearestFirstListing ==
    ASSUME NEW n \in Nat, NEW all, DOMAIN all = 1..n, NEW loop,
           \A i \in 1..n : NearTo(all, loop, i) \in Int
    PROVE  Listing(NearestFirst(all, loop), 1..n) /\ Len(NearestFirst(all, loop)) = n
<1> DEFINE S == DOMAIN all
           l == NearestFirst(all, loop)
           f == [i \in S |-> NearTo(all, loop, i)]
           g == [i \in S |-> i]
           B(x) == {y \in S : \/ NearTo(all, loop, y) < NearTo(all, loop, x)
                              \/ NearTo(all, loop, y) = NearTo(all, loop, x) /\ y < x}
<1>1. IsFiniteSet(S) /\ Cardinality(S) = n
  <2>1. 1 \in Int /\ n \in Int
    OBVIOUS
  <2> QED BY FS_Interval
<1>2. f \in [S -> Int] /\ g \in [S -> Int] /\ \A x, y \in S : g[x] = g[y] => x = y
  OBVIOUS
<1>3. l = [i \in 1..Cardinality(S) |-> CHOOSE x \in S : Cardinality(B(x)) = i - 1]
  BY Zenon DEF NearestFirst
<1>4. \A x \in S : {y \in S : f[y] < f[x] \/ (f[y] = f[x] /\ g[y] < g[x])} = B(x)
  OBVIOUS
<1> DEFINE C(x) == {y \in S : f[y] < f[x] \/ (f[y] = f[x] /\ g[y] < g[x])}
<1>5. \A x \in S : C(x) = B(x)
  BY <1>4
<1>6. l = [i \in 1..Cardinality(S) |-> l[i]]
      /\ \A i \in 1..Cardinality(S) : l[i] = CHOOSE x \in S : Cardinality(B(x)) = i - 1
  <2> HIDE DEF S, B
  <2> QED BY <1>3
<1>7. ASSUME NEW i \in 1..Cardinality(S), NEW x \in S, Cardinality(C(x)) = i - 1
      PROVE  l[i] \in S /\ Cardinality(C(l[i])) = i - 1
  <2>1. Cardinality(B(x)) = i - 1
    BY <1>5, <1>7
  <2>2. l[i] \in S /\ Cardinality(B(l[i])) = i - 1
    <3> HIDE DEF B, S, l
    <3> QED BY <1>6, <2>1
  <2> HIDE DEF B, C, l
  <2> QED BY <1>5, <2>2
<1> HIDE DEF l, f, g
<1>8. Listing(l, S) /\ Len(l) = Cardinality(S)
  <2>0. Cardinality(S) = n
    BY <1>1
  <2>1. \A i \in 1..Cardinality(S), x \in S :
          Cardinality({y \in S : f[y] < f[x] \/ (f[y] = f[x] /\ g[y] < g[x])}) = i - 1
            => /\ l[i] \in S
               /\ Cardinality({y \in S : f[y] < f[l[i]] \/ (f[y] = f[l[i]] /\ g[y] < g[l[i]])}) = i - 1
    <3> HIDE DEF S
    <3> QED BY <1>7
  <2>2. l = [i \in 1..Cardinality(S) |-> l[i]] /\ IsFiniteSet(S)
    BY <1>1, <1>6
  <2> HIDE DEF S, B, C
  <2>3. Ranking(l, S, f, g)
    BY Zenon, <2>1, <2>2 DEF Ranking
  <2> QED BY <1>2, <2>2, <2>3, RankedByTwo
<1> QED BY <1>1, <1>8 DEF l

LEMMA EligibleIsApart ==
    ASSUME NEW S, Measures(dist, S), NEW ds, NEW D, Listing(ds, D),
           \A d, e \in D : d.id = e.id => d = e, Dropped(D) \subseteq S,
           NEW loop, ToSet(loop) \subseteq S, ToSet(loop) # {}
    PROVE  Apart(Eligible(ds, loop), Dropped(D))
<1> DEFINE us == UnitsOf(ds)
           I == {i \in DOMAIN us : \A c \in ToSet(us[i]) : Reclaimable(ReasonIn(ds, c))}
           at == Sorted(I)
           all == Allowed(ds)
           V == Dropped(D)
           n == Len(all)
<1>1. Apart(us, V) /\ \A i \in 1..Len(us) : ToSet(us[i]) # {}
  BY UnitsAreApart
<1>2. DOMAIN us = 1..Len(us) /\ Len(us) \in Nat
  BY <1>1, LenProperties DEF Apart
<1>3. I \in SUBSET (1..Len(us)) /\ Listing(at, I)
  <2>1. I \in SUBSET (1..Len(us))
    BY <1>2
  <2>2. IsFiniteSet(1..Len(us))
    <3>1. 1 \in Int /\ Len(us) \in Int
      BY <1>2
    <3> HIDE DEF us
    <3> QED BY <3>1, FS_Interval
  <2>3. I \subseteq Nat
    BY <2>1
  <2> HIDE DEF I
  <2>4. IsFiniteSet(I)
    BY <2>1, <2>2, FS_Subset
  <2> QED BY <2>1, <2>3, <2>4, SortedLists, ListsAreListings
<1>4. all = [k \in DOMAIN at |-> us[at[k]]]
  BY Zenon DEF Allowed
<1> HIDE DEF us, I, at, all, V
<1>5. /\ Apart(all, V) /\ DOMAIN all = 1..n /\ n \in Nat
      /\ \A k \in 1..n : at[k] \in I /\ all[k] = us[at[k]]
  <2>1. /\ Apart(all, V) /\ Len(all) = Len(at) /\ DOMAIN all = 1..Len(all) /\ Len(all) \in Nat
        /\ \A k \in 1..Len(all) : at[k] \in I /\ all[k] = us[at[k]]
    <3> HIDE DEF n
    <3>1. Apart(us, V) /\ I \in SUBSET (1..Len(us)) /\ Listing(at, I)
      BY <1>1, <1>3
    <3>2. PickOfApart(us, V, I, at, all)
      BY <1>4, <3>1, PickedAreApart
    <3> QED BY <3>2 DEF PickOfApart
  <2> QED BY <2>1
<1>6. ASSUME NEW i \in 1..n PROVE NearTo(all, loop, i) \in Int
  <2> DEFINE X == {Direct(m, c) : m \in ToSet(all[i]), c \in ToSet(loop)}
  <2>1. ToSet(all[i]) \subseteq S /\ ToSet(all[i]) # {}
    <3>1. at[i] \in 1..Len(us)
      BY <1>3, <1>5
    <3>2. ToSet(all[i]) \subseteq V /\ ToSet(all[i]) # {}
      BY <1>1, <1>5, <3>1 DEF Apart
    <3> QED BY <3>2 DEF V
  <2>2. \A m, c \in S : Direct(m, c) \in Nat
    BY DEF Direct, Metres, Measures
  <2>3. X \in SUBSET Nat /\ X # {}
    <3>1. ASSUME NEW x \in X PROVE x \in Nat
      <4>1. PICK a \in ToSet(all[i]), b \in ToSet(loop) : x = Direct(a, b)
        BY SMT
      <4> QED BY <2>1, <2>2, <4>1
    <3>2. PICK m \in ToSet(all[i]), c \in ToSet(loop) : TRUE
      BY <2>1
    <3>3. Direct(m, c) \in X
      BY SMT
    <3> HIDE DEF X
    <3> QED BY <3>1, <3>3
  <2> HIDE DEF X
  <2>4. Min(X) \in Nat
    BY <2>3, MinIsLeast
  <2>5. Min(X) \in Int
    BY <2>4
  <2> QED BY <2>5 DEF NearTo, X
<1> HIDE DEF n
<1> DEFINE r == NearestFirst(all, loop)
           u == Eligible(ds, loop)
<1>7. Listing(r, 1..n) /\ Len(r) = n
  BY <1>5, <1>6, NearestFirstListing
<1>8. DOMAIN r = DOMAIN all
  <2> HIDE DEF r
  <2> QED BY <1>5, <1>7, ListingIsFinite
<1>9. u = [i \in DOMAIN r |-> all[r[i]]]
  BY <1>8, EligibleUnfolds DEF all
<1>10. 1..n \in SUBSET (1..Len(all))
  BY DEF n
<1> HIDE DEF u, r
<1>11. Apart(u, V)
  <2> DEFINE J == 1..n
  <2>1. J \in SUBSET (1..Len(all)) /\ Listing(r, J)
    BY <1>7, <1>10
  <2> HIDE DEF J
  <2>2. PickOfApart(all, V, J, r, u)
    BY <1>5, <1>9, <2>1, PickedAreApart
  <2> QED BY <2>2 DEF PickOfApart
<1> QED BY <1>11 DEF u, V

\* The units but the first, and what they may come back from.
LEMMA RestIsApart ==
    ASSUME NEW us, NEW V, Apart(us, V), us # <<>>
    PROVE  /\ Listing(Head(us), ToSet(Head(us))) /\ ToSet(Head(us)) \subseteq V
           /\ Apart(Tail(us), V \ ToSet(Head(us))) /\ Apart(Tail(us), V)
<1> DEFINE n == Len(us)
           V1 == V \ ToSet(Head(us))
           t == Tail(us)
<1>1. /\ us \in Seq(ToSet(us)) /\ n \in Nat /\ DOMAIN us = 1..n
      /\ \A i \in 1..n : Listing(us[i], ToSet(us[i])) /\ ToSet(us[i]) \subseteq V
      /\ \A i, j \in 1..n : i # j => ToSet(us[i]) \cap ToSet(us[j]) = {}
  BY LenProperties DEF Apart
<1>2. n # 0 /\ 1 \in 1..n
  BY <1>1, EmptySeq
<1>3. Head(us) = us[1]
  BY <1>1, <1>2
<1>4. /\ Len(t) = n - 1 /\ t \in Seq(ToSet(us))
      /\ \A i \in 1..(n - 1) : t[i] = us[i + 1]
  BY <1>1, <1>2, HeadTailProperties
<1>5. t \in Seq(ToSet(t))
  <2> HIDE DEF t
  <2>1. Len(t) \in Nat /\ DOMAIN t = 1..Len(t) /\ t = [i \in 1..Len(t) |-> t[i]]
    BY <1>4, LenProperties
  <2>2. \A i \in 1..Len(t) : t[i] \in ToSet(t)
    BY <2>1 DEF ToSet
  <2>3. t \in [1..Len(t) -> ToSet(t)]
    BY <2>1, <2>2
  <2> QED BY <2>1, <2>3, LenOfFunction
<1> HIDE DEF t, n
<1>6. ASSUME NEW i \in 1..(n - 1)
      PROVE  /\ Listing(t[i], ToSet(t[i])) /\ ToSet(t[i]) \subseteq V
             /\ ToSet(t[i]) \subseteq V1
  <2>1. i + 1 \in 1..n /\ i + 1 # 1
    BY <1>1
  <2>2. ToSet(us[i + 1]) \cap ToSet(us[1]) = {}
    BY <1>1, <1>2, <2>1
  <2> QED BY <1>1, <1>3, <1>4, <2>1, <2>2
<1>7. ASSUME NEW i \in 1..(n - 1), NEW j \in 1..(n - 1), i # j
      PROVE  ToSet(t[i]) \cap ToSet(t[j]) = {}
  <2>1. i + 1 \in 1..n /\ j + 1 \in 1..n /\ i + 1 # j + 1
    BY <1>1, <1>7
  <2> QED BY <1>1, <1>4, <2>1
<1> HIDE DEF V1
<1>8. Apart(t, V) /\ Apart(t, V1)
  BY <1>4, <1>5, <1>6, <1>7 DEF Apart
<1>9. Listing(Head(us), ToSet(Head(us))) /\ ToSet(Head(us)) \subseteq V
  BY <1>1, <1>2, <1>3
<1> QED BY <1>8, <1>9 DEF t, V1

----------------------------------------------------------------------------
(***************************************************************************)
(* What the planners rely on between two steps.                            *)
(***************************************************************************)

\* The phases in which parking is chosen, and those in which stops and drops
\* share out what was prepared.
Placed == {"posed", "mending", "mend_solving", "reclaiming", "reclaim_solving", "expanding",
           "trimming", "trim_solving", "routing", "fringe", "fringe_solving", "assembling", "done"}
Sharing == {"parking", "trimming", "trim_solving", "routing", "fringe", "fringe_solving",
            "reclaiming", "reclaim_solving", "expanding", "assembling", "done"}

Expanded == FlattenSeq([i \in DOMAIN tour |-> MembersOf(tour[i])])

\* The legs lead from place to place; one stop alone is reached both ways.
Led == LegsTo(routed, Len(tour) + 1, walk, Stations) /\ (Len(tour) = 1 => Len(routed) = 2)

LegsExpanded ==
    Append(FlattenSeq([i \in DOMAIN tour |-> GroupLegs(i)]),
           [from |-> Last(MembersOf(Last(tour))), to |-> lot, way |-> Last(routed)])

PlannerInv ==
    /\ error = "503" => phase = "failed" /\ drops = <<>>
    /\ phase \in {"requested", "choosing", "posed", "solving"} => drops = <<>>
    /\ phase = "solving" => Size = Len(reps)
    /\ phase \in Placed => lot \in ParkingPlaces
    /\ phase \in Sharing => tour # <<>> /\ Shares(tour, drops, ToSet(reps))
    /\ phase \in {"mending", "mend_solving"} =>
            /\ tour # <<>> /\ Shares(tour, drops, ToSet(answer))
            /\ Listing(answer, ToSet(answer)) /\ ToSet(answer) \subseteq ToSet(reps)
    /\ phase \in {"trim_solving", "fringe_solving", "mend_solving"} => Size = Len(tour)
    /\ phase \in {"reclaiming", "reclaim_solving"} => Apart(units, Dropped(ToSet(drops)))
    /\ phase = "reclaim_solving" => units # <<>> /\ Size = Len(tour \o Head(units))
    /\ phase \in {"fringe", "expanding", "assembling", "done"} => Led
    /\ phase \in {"assembling", "done"} => ordered = Expanded /\ legs = LegsExpanded
    /\ phase = "done" => \A i \in DOMAIN legs : legs[i].way # None

Known(r) == Begun(r) /\ Ready /\ SolverInv /\ PlannerInv

LEMMA PreparedIsListed ==
    ASSUME NEW r, Begun(r), ~CannotLoop
    PROVE  Listing(Prepared.reps, ToSet(Prepared.reps)) /\ Len(Prepared.reps) >= 2
           /\ Len(Prepared.reps) \in Nat
<1> DEFINE S == Kept
           d == Closure(walk, S)
           R == Representatives(d, S, Stage)
<1>1. IsFiniteSet(S) /\ S \subseteq Nat /\ S \subseteq Candidates(r) /\ Measures(walk, S)
  BY KeptAreMeasured
<1>2. Measures(d, S)
  <2> HIDE DEF S
  <2> QED BY <1>1, ClosureMeasures
<1>3. \A c \in S : Stage[c] \in Nat
  <2>1. r \in Requests /\ \A c \in Candidates(r) : Stage[c] \in Nat
    BY RequestsAreMeasured DEF Begun
  <2> QED BY <1>1, <2>1
<1>4. Cardinality(S) >= 2
  BY <1>1, FS_CardinalityType DEF CannotLoop
<1>5. Prepared.reps = R
  BY DEF Prepared
<1> HIDE DEF S, d
<1>6. Parted(R, Members(d, S, Stage), S) /\ Len(R) >= 2
  BY <1>1, <1>2, <1>3, <1>4, GroupsPart
<1> HIDE DEF R
<1>7. Listing(R, ToSet(R))
  BY <1>6 DEF Parted
<1> QED BY <1>5, <1>6, <1>7, ListingIsFinite

LEMMA MatrixIsSquare ==
    ASSUME NEW A, NEW ids, Listing(ids, A), ids # <<>>
    PROVE  /\ Len(ids) \in Nat \ {0} /\ 1 \in 1..Len(ids) /\ DOMAIN ids = 1..Len(ids)
           /\ Len(MatrixOf(ids, Finite)) = Len(ids)
           /\ Len(MatrixOf(ids, Direct)) = Len(ids)
<1>1. Len(ids) \in Nat /\ DOMAIN ids = 1..Len(ids) /\ Len(ids) # 0
  BY ListingIsFinite, EmptySeq DEF Listing
<1>2. Len(MatrixOf(ids, Finite)) = Len(ids)
  <2> DEFINE m == MatrixOf(ids, Finite)
  <2>1. m = [i \in DOMAIN ids |-> m[i]]
    BY DEF MatrixOf
  <2> HIDE DEF m
  <2> QED BY <2>1, MatrixRows DEF m
<1>3. Len(MatrixOf(ids, Direct)) = Len(ids)
  <2> DEFINE m == MatrixOf(ids, Direct)
  <2>1. m = [i \in DOMAIN ids |-> m[i]]
    BY DEF MatrixOf
  <2> HIDE DEF m
  <2> QED BY <2>1, MatrixRows DEF m
<1> QED BY <1>1, <1>2, <1>3

LEMMA SolvedShares ==
    ASSUME SolverInv, pass = "done", Size = Len(tour), tour # <<>>, NEW R, Shares(tour, drops, R)
    PROVE  Shares(Solved(tour), drops, R) /\ Solved(tour) # <<>>
<1> DEFINE A == ToSet(tour)
<1>1. Listing(tour, A)
  BY SharesAreListed
<1> HIDE DEF A
<1>2. Listing(Solved(tour), A)
  BY <1>1, SolvedListing
<1>3. A # {}
  BY <1>1, ListingIsFinite
<1>4. Solved(tour) # <<>>
  BY <1>2, <1>3, ListingIsFinite
<1>5. ASSUME NEW B, Listing(tour, B) PROVE Listing(Solved(tour), B)
  BY <1>5, SolvedListing
<1> QED BY <1>4, <1>5, StopsReordered

LEMMA RotatedShares ==
    ASSUME NEW S, Measures(dist, S), Walks(walk, S, lot), NEW R \in SUBSET S,
           NEW t, Shares(t, drops, R), t # <<>>
    PROVE  LET u == RotateForParking(dist, walk, lot, t)
           IN  Shares(u, drops, R) /\ u # <<>>
<1> DEFINE A == ToSet(t)
           i == BestInsertion(dist, walk, lot, t)
           u == Rotate(t, i)
<1>1. Listing(t, A) /\ A \in SUBSET S
  BY SharesAreListed
<1> HIDE DEF A
<1>2. i \in 1..Len(t)
  BY <1>1, InsertionIsFound
<1> HIDE DEF i
<1>3. Listing(u, A) /\ A # {}
  BY <1>1, <1>2, RotatedListing, ListingIsFinite
<1>4. u # <<>>
  <2> HIDE DEF u
  <2> QED BY <1>3, ListingIsFinite
<1>5. ASSUME NEW B, Listing(t, B) PROVE Listing(u, B)
  BY <1>2, <1>5, RotatedListing
<1>6. RotateForParking(dist, walk, lot, t) = u
  BY DEF RotateForParking, i
<1> HIDE DEF u
<1> QED BY <1>4, <1>5, <1>6, StopsReordered

LEMMA WorstIsDropped ==
    ASSUME NEW S, Measures(dist, S), NEW w, Walks(w, S, lot), NEW R \in SUBSET S,
           Shares(tour, drops, R), DropWorst(w)
    PROVE  /\ Shares(tour', drops', R) /\ tour' # <<>>
           /\ SolverInv' /\ Size' = Len(tour')
<1> DEFINE A == ToSet(tour)
           p == Worst(w)
           reason == IF OverBudget(w) THEN "budget" ELSE "outlier"
           t == Without(tour, p)
           ds == Append(drops, [id |-> tour[p], reason |-> reason])
<1>1. Listing(tour, A) /\ A \in SUBSET S
  BY SharesAreListed
<1>2. /\ ShouldDrop(w) /\ drops' = ds /\ tour' = t
      /\ Call(MatrixOf(tour', Finite), 1)
  BY Zenon DEF DropWorst
<1> HIDE DEF A
<1>3. p \in 1..Len(tour)
  BY <1>1, <1>2, WorstIsStop
<1>4. Len(tour) > 2 /\ Len(tour) \in Nat
  BY <1>1, <1>2, ListingIsFinite DEF ShouldDrop
<1>5. reason \in Reasons
  BY DEF Reasons
<1> HIDE DEF p, reason
<1>6. Shares(t, ds, R) /\ Len(t) = Len(tour) - 1
  BY <1>3, <1>5, OneDropped
<1> HIDE DEF t, ds
<1>7. t # <<>>
  <2>1. Len(t) # 0
    BY <1>4, <1>6
  <2> QED BY <2>1
<1>8. Listing(t, ToSet(t))
  BY <1>6, SharesAreListed
<1> DEFINE m == MatrixOf(t, Finite)
<1>9. Len(m) = Len(t) /\ Len(m) \in Nat \ {0} /\ 1 \in 1..Len(m)
  <2>1. Len(t) \in Nat \ {0} /\ 1 \in 1..Len(t) /\ Len(MatrixOf(t, Finite)) = Len(t)
    BY <1>7, <1>8, MatrixIsSquare
  <2> QED BY <2>1
<1>10. Call(m, 1)
  BY <1>2
<1> HIDE DEF m
<1>11. SolverInv' /\ Size' = Len(m)
  BY <1>9, <1>10, CallStarts
<1> QED BY <1>2, <1>6, <1>7, <1>9, <1>11

----------------------------------------------------------------------------
(* The greedy planner, step by step. *)

LEMMA SolverKept ==
    ASSUME SolverInv, UNCHANGED solverVars \/ Collect \/ Abort \/ SolverStep
    PROVE  SolverInv'
BY Induction DEF SolverNext

LEMMA FailureKeeps ==
    ASSUME phase' = "failed", error' # "503"
    PROVE  PlannerInv'
BY DEF PlannerInv, Placed, Sharing

LEMMA PrepareKeeps ==
    ASSUME NEW r, Known(r), Prepare
    PROVE  PlannerInv' /\ SolverInv'
<1>1. Begun(r) /\ SolverInv /\ phase = "requested" /\ drops = <<>> /\ error # "503"
  <2>1. phase = "requested"
    BY Zenon DEF Prepare
  <2> QED BY <2>1 DEF Known, PlannerInv
<1>2. CASE CannotLoop
  <2>1. phase' = "failed" /\ error' = "404" /\ UNCHANGED solverVars
    BY Zenon, <1>2 DEF Prepare, Fails
  <2> QED BY <1>1, <2>1, FailureKeeps, SolverKept
<1>3. CASE ~CannotLoop
  <2> DEFINE m == [i \in DOMAIN prep'.reps |-> [j \in DOMAIN prep'.reps |->
                      Metres(prep'.dist, prep'.reps[i], prep'.reps[j])]]
             ids == Prepared.reps
  <2>1. /\ prep' = Prepared /\ phase' = "solving" /\ error' = error /\ drops' = drops
        /\ \E s \in DOMAIN prep'.reps : Call(m, s)
    BY Zenon, <1>3 DEF Prepare, MatrixOf, NearestIndexes
  <2>2. Listing(ids, ToSet(ids)) /\ Len(ids) >= 2 /\ Len(ids) \in Nat
    BY <1>1, <1>3, PreparedIsListed
  <2>3. prep'.reps = ids /\ reps' = ids
    <3> HIDE DEF m
    <3> QED BY <2>1 DEF reps
  <2>4. m = [i \in DOMAIN ids |-> m[i]]
    <3> HIDE DEF ids
    <3> QED BY <2>3
  <2> HIDE DEF m, ids
  <2>5. Len(m) = Len(ids) /\ DOMAIN ids = 1..Len(ids)
    BY <2>2, <2>4, MatrixRows, ListingIsFinite
  <2>6. PICK s \in 1..Len(m) : Call(m, s)
    BY <2>1, <2>3, <2>5
  <2>7. SolverInv' /\ Size' = Len(m)
    BY <2>2, <2>5, <2>6, CallStarts
  <2>8. phase' = "solving" /\ error' # "503" /\ drops' = <<>> /\ Size' = Len(reps')
    BY <1>1, <2>1, <2>3, <2>5, <2>7
  <2> QED BY <2>7, <2>8 DEF PlannerInv, Placed, Sharing
<1> QED BY <1>2, <1>3

LEMMA CycleSolvedKeeps ==
    ASSUME NEW r, Known(r), CycleSolved
    PROVE  PlannerInv' /\ SolverInv'
<1>1. /\ Begun(r) /\ Ready /\ SolverInv /\ phase = "solving" /\ drops = <<>> /\ error # "503"
      /\ Size = Len(reps)
  BY DEF Known, PlannerInv, CycleSolved
<1>2. /\ tour' = Solved(reps) /\ Collect /\ phase' = "parking"
      /\ UNCHANGED <<prep, drops, error>>
  BY DEF CycleSolved
<1>3. pass = "done"
  BY <1>2 DEF Collect
<1> DEFINE R == ToSet(reps)
<1>4. Listing(reps, R) /\ Len(reps) >= 2 /\ Len(reps) \in Nat
  BY <1>1, StateIsMeasured
<1>5. reps # <<>>
  BY <1>4
<1> HIDE DEF R
<1>6. Listing(Solved(reps), R)
  BY <1>1, <1>3, <1>4, <1>5, SolvedListing
<1>7. Solved(reps) # <<>> /\ Shares(Solved(reps), <<>>, R)
  BY <1>4, <1>5, <1>6, NothingDropped, ListingIsFinite
<1>8. SolverInv'
  BY <1>1, <1>2, SolverKept
<1>9. reps' = reps
  BY <1>2 DEF reps
<1>10. /\ phase' = "parking" /\ error' # "503" /\ tour' # <<>>
       /\ Shares(tour', drops', ToSet(reps'))
  BY <1>1, <1>2, <1>7, <1>9 DEF R
<1> QED BY <1>8, <1>10 DEF PlannerInv, Placed, Sharing

\* What is known of the stops in most phases.
LEMMA SharedStops ==
    ASSUME NEW r, Known(r), phase \in Sharing
    PROVE  /\ Begun(r) /\ Ready /\ SolverInv /\ error # "503"
           /\ tour # <<>> /\ Shares(tour, drops, ToSet(reps))
           /\ Listing(tour, ToSet(tour)) /\ ToSet(tour) \in SUBSET Kept
           /\ ToSet(reps) \in SUBSET Kept /\ Measures(dist, Kept)
           /\ \A l \in ParkingPlaces : Walks(walk, Kept, l)
           /\ Kept \subseteq Candidates(r)
<1>1. /\ Begun(r) /\ Ready /\ SolverInv /\ error # "503"
      /\ tour # <<>> /\ Shares(tour, drops, ToSet(reps))
      /\ phase \notin {"requested", "failed"}
  BY DEF Known, PlannerInv, Sharing
<1>2. /\ ToSet(reps) \subseteq Kept /\ Measures(dist, Kept)
      /\ \A l \in ParkingPlaces : Walks(walk, Kept, l)
  BY <1>1, StateIsMeasured
<1>3. Listing(tour, ToSet(tour)) /\ ToSet(tour) \subseteq ToSet(reps)
  BY <1>1, SharesAreListed
<1>4. Kept \subseteq Candidates(r)
  BY <1>1, KeptAreMeasured
<1> QED BY <1>1, <1>2, <1>3, <1>4

LEMMA SelectParkingKeeps ==
    ASSUME NEW r, Known(r), SelectParking
    PROVE  PlannerInv' /\ SolverInv'
<1>1. /\ phase = "parking" /\ phase' = "trimming"
      /\ UNCHANGED <<prep, tour, drops, error, solverVars>>
  BY DEF SelectParking
<1> DEFINE S == Kept
           A == ToSet(tour)
<1>2. /\ Begun(r) /\ SolverInv /\ error # "503" /\ tour # <<>> /\ Shares(tour, drops, ToSet(reps))
      /\ Listing(tour, A) /\ A \in SUBSET S /\ Measures(dist, S)
      /\ \A l \in ParkingPlaces : Walks(walk, S, l)
  BY <1>1, SharedStops DEF Sharing
<1> HIDE DEF S, A
<1>3. lot' \in ParkingPlaces
  BY <1>2, ParkingIsSelected
<1>4. SolverInv'
  BY <1>1, <1>2, SolverKept
<1>5. reps' = reps
  BY <1>1 DEF reps
<1>6. tour' # <<>> /\ Shares(tour', drops', ToSet(reps')) /\ error' # "503"
  BY <1>1, <1>2, <1>5
<1> QED BY <1>1, <1>3, <1>4, <1>6 DEF PlannerInv, Placed, Sharing

LEMMA TrimDropKeeps ==
    ASSUME NEW r, Known(r), TrimDrop
    PROVE  PlannerInv' /\ SolverInv'
<1>1. /\ phase = "trimming" /\ phase' = "trim_solving" /\ DropWorst(walk)
      /\ UNCHANGED <<prep, lot, error>>
  BY Zenon DEF TrimDrop
<1> DEFINE S == Kept
           R == ToSet(reps)
<1>2. /\ error # "503" /\ Shares(tour, drops, R)
      /\ R \in SUBSET S /\ Measures(dist, S)
      /\ \A l \in ParkingPlaces : Walks(walk, S, l)
  BY <1>1, SharedStops DEF Sharing
<1>3. lot \in ParkingPlaces
  BY <1>1 DEF Known, PlannerInv, Placed
<1> HIDE DEF S, R
<1>4. /\ Shares(tour', drops', R) /\ tour' # <<>>
      /\ SolverInv' /\ Size' = Len(tour')
  BY <1>1, <1>2, <1>3, WorstIsDropped
<1>5. ToSet(reps') = R
  BY <1>1 DEF reps, R
<1>6. /\ Shares(tour', drops', ToSet(reps')) /\ error' # "503" /\ lot' \in ParkingPlaces
      /\ phase' = "trim_solving"
  <2> HIDE DEF PlannerInv
  <2> QED BY <1>1, <1>2, <1>3, <1>4, <1>5 DEF ParkingPlaces
<1> QED BY <1>4, <1>6 DEF PlannerInv, Placed, Sharing

LEMMA TrimSolvedKeeps ==
    ASSUME NEW r, Known(r), TrimSolved
    PROVE  PlannerInv' /\ SolverInv'
<1>1. /\ phase = "trim_solving" /\ phase' = "trimming" /\ tour' = Solved(tour) /\ Collect
      /\ UNCHANGED <<prep, lot, drops, error>>
  BY DEF TrimSolved
<1>2. /\ SolverInv /\ error # "503" /\ tour # <<>> /\ Shares(tour, drops, ToSet(reps))
  BY <1>1, SharedStops DEF Sharing
<1>3. lot \in ParkingPlaces /\ Size = Len(tour) /\ pass = "done"
  BY <1>1 DEF Known, PlannerInv, Placed, Collect
<1>4. Shares(Solved(tour), drops, ToSet(reps)) /\ Solved(tour) # <<>>
  BY <1>2, <1>3, SolvedShares
<1>5. SolverInv'
  BY <1>1, <1>2, SolverKept
<1>6. reps' = reps
  BY <1>1 DEF reps
<1>7. /\ Shares(tour', drops', ToSet(reps')) /\ tour' # <<>> /\ error' # "503"
      /\ lot' \in ParkingPlaces /\ phase' = "trimming"
  BY <1>1, <1>2, <1>3, <1>4, <1>6
<1> QED BY <1>5, <1>7 DEF PlannerInv, Placed, Sharing

LEMMA TrimDoneKeeps ==
    ASSUME NEW r, Known(r), TrimDone
    PROVE  PlannerInv' /\ SolverInv'
<1>1. /\ phase = "trimming" /\ phase' = "routing"
      /\ tour' = RotateForParking(dist, walk, lot, tour)
      /\ UNCHANGED <<prep, lot, drops, error, solverVars>>
  BY DEF TrimDone
<1> DEFINE S == Kept
           R == ToSet(reps)
<1>2. /\ SolverInv /\ error # "503" /\ tour # <<>> /\ Shares(tour, drops, R)
      /\ R \in SUBSET S /\ Measures(dist, S)
      /\ \A l \in ParkingPlaces : Walks(walk, S, l)
  BY <1>1, SharedStops DEF Sharing
<1>3. lot \in ParkingPlaces
  BY <1>1 DEF Known, PlannerInv, Placed
<1> HIDE DEF S, R
<1>4. Shares(tour', drops, R) /\ tour' # <<>>
  BY <1>1, <1>2, <1>3, RotatedShares
<1>5. SolverInv'
  BY <1>1, <1>2, SolverKept
<1>6. ToSet(reps') = R
  BY <1>1 DEF reps, R
<1>7. /\ Shares(tour', drops', ToSet(reps')) /\ tour' # <<>> /\ error' # "503"
      /\ lot' \in ParkingPlaces /\ phase' = "routing"
  BY <1>1, <1>2, <1>3, <1>4, <1>6
<1> QED BY <1>5, <1>7 DEF PlannerInv, Placed, Sharing

LEMMA BuildLegsKeeps ==
    ASSUME NEW r, Known(r), BuildLegs
    PROVE  PlannerInv' /\ SolverInv'
<1>1. /\ phase = "routing" /\ Route("fringe")
      /\ UNCHANGED <<request, prep, tour, lot, drops, solverVars>>
  BY DEF BuildLegs, Route
<1> DEFINE A == ToSet(tour)
           R == ToSet(reps)
<1>2. /\ Begun(r) /\ SolverInv /\ error # "503" /\ tour # <<>> /\ Shares(tour, drops, R)
      /\ Listing(tour, A) /\ A \subseteq Candidates(r)
  BY <1>1, SharedStops DEF Sharing
<1>3. lot \in ParkingPlaces
  BY <1>1 DEF Known, PlannerInv, Placed
<1> HIDE DEF A, R
<1>4. \/ phase' = "failed" /\ error' # "503"
      \/ /\ phase' = "fringe" /\ error' = error /\ LegsTo(routed', Len(tour) + 1, walk, Stations)
         /\ Len(tour) = 1 => Len(routed') = 2
  BY <1>1, <1>2, <1>3, RouteLeads
<1>5. SolverInv'
  BY <1>1, <1>2, SolverKept
<1>6. CASE phase' = "failed" /\ error' # "503"
  BY <1>5, <1>6, FailureKeeps
<1>7. CASE /\ phase' = "fringe" /\ error' = error /\ LegsTo(routed', Len(tour) + 1, walk, Stations)
           /\ Len(tour) = 1 => Len(routed') = 2
  <2>1. Stations' = Stations /\ walk' = walk
    BY <1>1 DEF Stations, walk
  <2>2. ToSet(reps') = R
    BY <1>1 DEF reps, R
  <2>3. /\ Shares(tour', drops', ToSet(reps')) /\ tour' # <<>> /\ error' # "503"
        /\ lot' \in ParkingPlaces /\ phase' = "fringe"
        /\ Led'
    BY <1>1, <1>2, <1>3, <1>7, <2>1, <2>2 DEF Led
  <2> QED BY <1>5, <2>3 DEF PlannerInv, Placed, Sharing
<1> QED BY <1>4, <1>6, <1>7

LEMMA FringeDropKeeps ==
    ASSUME NEW r, Known(r), FringeDrop
    PROVE  PlannerInv' /\ SolverInv'
<1> DEFINE p == WorstFringe
           t == Without(tour, p)
           ds == Append(drops, [id |-> tour[p], reason |-> "fringe"])
           R == ToSet(reps)
           A == ToSet(tour)
<1>1. /\ phase = "fringe" /\ phase' = "fringe_solving" /\ LooksForFringe /\ AllRouted
      /\ Fringes # {} /\ drops' = ds /\ tour' = t
      /\ UNCHANGED <<prep, lot, error>>
  BY Zenon DEF FringeDrop
<1>2. \E s \in DOMAIN t : Call(MatrixOf(t, Direct), s)
  <2>1. \E s \in NearestIndexes(tour') : Call(MatrixOf(tour', Direct), s)
    BY Zenon DEF FringeDrop
  <2>2. tour' = t
    BY <1>1
  <2> HIDE DEF t
  <2>3. PICK s \in NearestIndexes(tour') : Call(MatrixOf(tour', Direct), s)
    BY <2>1
  <2>4. s \in DOMAIN t
    BY <2>2, <2>3 DEF NearestIndexes
  <2>5. MatrixOf(tour', Direct) = MatrixOf(t, Direct)
    BY <2>2
  <2>6. Call(MatrixOf(t, Direct), s)
    BY <2>3, <2>5
  <2> QED BY <2>4, <2>6
<1>3. /\ SolverInv /\ error # "503" /\ Shares(tour, drops, R) /\ Listing(tour, A)
  BY <1>1, SharedStops DEF Sharing
<1>4. lot \in ParkingPlaces /\ LegsTo(routed, Len(tour) + 1, walk, Stations)
  BY <1>1 DEF Known, PlannerInv, Placed, Led
<1> HIDE DEF A, R
<1>5. p \in 1..Len(tour)
  BY <1>1, <1>3, <1>4, WorstFringeIsStop
<1>6. Len(tour) > 2 /\ Len(tour) \in Nat
  BY <1>1, <1>3, ListingIsFinite DEF LooksForFringe
<1>7. "fringe" \in Reasons
  BY DEF Reasons
<1> HIDE DEF p
<1>8. Shares(t, ds, R) /\ Len(t) = Len(tour) - 1
  BY <1>3, <1>5, <1>7, OneDropped
<1> HIDE DEF t, ds
<1>9. t # <<>>
  <2>1. Len(t) # 0
    BY <1>6, <1>8
  <2> QED BY <2>1
<1>10. Listing(t, ToSet(t))
  BY <1>8, SharesAreListed
<1> DEFINE m == MatrixOf(t, Direct)
<1>11. Len(m) = Len(t) /\ Len(t) \in Nat \ {0} /\ DOMAIN t = 1..Len(t)
  BY <1>9, <1>10, MatrixIsSquare
<1>12. PICK s \in DOMAIN t : Call(m, s)
  BY <1>2
<1> HIDE DEF m
<1>13. s \in 1..Len(m) /\ Len(m) \in Nat \ {0}
  BY <1>11
<1>14. SolverInv' /\ Size' = Len(m)
  BY <1>12, <1>13, CallStarts
<1>15. ToSet(reps') = R
  BY <1>1 DEF reps, R
<1>16. /\ Shares(tour', drops', ToSet(reps')) /\ tour' # <<>> /\ error' # "503"
       /\ lot' \in ParkingPlaces /\ phase' = "fringe_solving" /\ Size' = Len(tour')
  BY <1>1, <1>3, <1>4, <1>8, <1>9, <1>11, <1>14, <1>15
<1> QED BY <1>14, <1>16 DEF PlannerInv, Placed, Sharing

LEMMA FringeCrashKeeps ==
    ASSUME NEW r, Known(r), FringeCrash
    PROVE  PlannerInv' /\ SolverInv'
<1>1. /\ phase' = "failed" /\ error' = "TypeError" /\ UNCHANGED solverVars /\ SolverInv
  BY DEF FringeCrash, Fails, Known
<1> QED BY <1>1, FailureKeeps, SolverKept

LEMMA FringeSolvedKeeps ==
    ASSUME NEW r, Known(r), FringeSolved
    PROVE  PlannerInv' /\ SolverInv'
<1>1. /\ phase = "fringe_solving" /\ phase' = "routing" /\ Collect
      /\ tour' = RotateForParking(dist, walk, lot, Solved(tour))
      /\ UNCHANGED <<prep, lot, drops, error>>
  BY DEF FringeSolved
<1> DEFINE S == Kept
           R == ToSet(reps)
           t == Solved(tour)
<1>2. /\ SolverInv /\ error # "503" /\ tour # <<>> /\ Shares(tour, drops, R)
      /\ R \in SUBSET S /\ Measures(dist, S)
      /\ \A l \in ParkingPlaces : Walks(walk, S, l)
  BY <1>1, SharedStops DEF Sharing
<1>3. lot \in ParkingPlaces /\ Size = Len(tour) /\ pass = "done"
  BY <1>1 DEF Known, PlannerInv, Placed, Collect
<1> HIDE DEF S, R
<1>4. Shares(t, drops, R) /\ t # <<>>
  BY <1>2, <1>3, SolvedShares
<1> HIDE DEF t
<1>5. Shares(tour', drops, R) /\ tour' # <<>>
  <2>1. tour' = RotateForParking(dist, walk, lot, t)
    BY <1>1 DEF t
  <2> QED BY <1>2, <1>3, <1>4, <2>1, RotatedShares
<1>6. SolverInv'
  BY <1>1, <1>2, SolverKept
<1>7. ToSet(reps') = R
  BY <1>1 DEF reps, R
<1>8. /\ Shares(tour', drops', ToSet(reps')) /\ tour' # <<>> /\ error' # "503"
      /\ lot' \in ParkingPlaces /\ phase' = "routing"
  BY <1>1, <1>2, <1>3, <1>5, <1>7
<1> QED BY <1>6, <1>8 DEF PlannerInv, Placed, Sharing

\* From the legs to the loop of all members.
LEMMA ExpansionFollows ==
    ASSUME UNCHANGED <<request, prep, tour, lot, routed>>
    PROVE  Expanded' = Expanded /\ LegsExpanded' = LegsExpanded /\ Led' = Led
<1>1. Expanded' = Expanded
  BY DEF Expanded, MembersOf
<1>2. LegsExpanded' = LegsExpanded
  BY DEF LegsExpanded, GroupLegs, MembersOf, InterLeg
<1>3. Led' = Led
  BY DEF Led, Stations, walk
<1> QED BY <1>1, <1>2, <1>3

LEMMA ExpandRouteKeeps ==
    ASSUME NEW r, Known(r), ExpandRoute, phase \in {"fringe", "expanding"}
    PROVE  PlannerInv' /\ SolverInv'
<1>1. /\ phase' = "assembling" /\ ordered' = Expanded /\ legs' = LegsExpanded
      /\ UNCHANGED <<request, prep, tour, lot, drops, routed, error, solverVars>>
  BY DEF ExpandRoute, Expanded, LegsExpanded
<1>2. /\ SolverInv /\ error # "503" /\ tour # <<>> /\ Shares(tour, drops, ToSet(reps))
  BY SharedStops DEF Sharing
<1>3. lot \in ParkingPlaces /\ Led
  BY DEF Known, PlannerInv, Placed
<1>4. SolverInv'
  BY <1>1, <1>2, SolverKept
<1>5. Led' /\ Expanded' = Expanded /\ LegsExpanded' = LegsExpanded /\ reps' = reps
  BY <1>1, <1>3, ExpansionFollows DEF reps
<1>6. /\ Shares(tour', drops', ToSet(reps')) /\ tour' # <<>> /\ error' # "503"
      /\ lot' \in ParkingPlaces /\ phase' = "assembling"
      /\ ordered' = Expanded' /\ legs' = LegsExpanded' /\ Led'
  BY <1>1, <1>2, <1>3, <1>5
<1> QED BY <1>4, <1>6 DEF PlannerInv, Placed, Sharing

LEMMA AssembleKeeps ==
    ASSUME NEW r, Known(r), Assemble
    PROVE  PlannerInv' /\ SolverInv'
<1>1. /\ phase = "assembling"
      /\ \/ phase' = "done" /\ error' = error /\ \A i \in DOMAIN legs : legs[i].way # None
         \/ phase' = "failed" /\ error' = "TypeError"
      /\ UNCHANGED <<request, prep, tour, lot, drops, routed, legs, ordered, solverVars>>
  BY DEF Assemble, Fails
<1>2. /\ SolverInv /\ error # "503" /\ tour # <<>> /\ Shares(tour, drops, ToSet(reps))
  BY <1>1, SharedStops DEF Sharing
<1>3. lot \in ParkingPlaces /\ Led /\ ordered = Expanded /\ legs = LegsExpanded
  BY <1>1 DEF Known, PlannerInv, Placed
<1>4. SolverInv'
  BY <1>1, <1>2, SolverKept
<1>5. CASE phase' = "failed" /\ error' = "TypeError"
  BY <1>4, <1>5, FailureKeeps
<1>6. CASE phase' = "done" /\ error' = error /\ \A i \in DOMAIN legs : legs[i].way # None
  <2>1. Led' /\ Expanded' = Expanded /\ LegsExpanded' = LegsExpanded /\ reps' = reps
    BY <1>1, <1>3, ExpansionFollows DEF reps
  <2>2. /\ Shares(tour', drops', ToSet(reps')) /\ tour' # <<>> /\ error' # "503"
        /\ lot' \in ParkingPlaces /\ phase' = "done"
        /\ ordered' = Expanded' /\ legs' = LegsExpanded' /\ Led'
        /\ \A i \in DOMAIN legs' : legs'[i].way # None
    BY <1>1, <1>2, <1>3, <1>6, <2>1
  <2> QED BY <1>4, <2>2 DEF PlannerInv, Placed, Sharing
<1> QED BY <1>1, <1>5, <1>6

\* The greedy planner, by its actions.
LEMMA GreedyKeeps ==
    ASSUME NEW r, Known(r), Greedy
    PROVE  PlannerInv' /\ SolverInv'
<1>1. CASE Prepare
  BY <1>1, PrepareKeeps
<1>2. CASE CycleSolved
  BY <1>2, CycleSolvedKeeps
<1>3. CASE SelectParking
  BY <1>3, SelectParkingKeeps
<1>4. CASE TrimDrop
  BY <1>4, TrimDropKeeps
<1>5. CASE TrimSolved
  BY <1>5, TrimSolvedKeeps
<1>6. CASE TrimDone
  BY <1>6, TrimDoneKeeps
<1>7. CASE BuildLegs
  BY <1>7, BuildLegsKeeps
<1>8. CASE FringeDrop
  BY <1>8, FringeDropKeeps
<1>9. CASE FringeCrash
  BY <1>9, FringeCrashKeeps
<1>10. CASE FringeSolved
  BY <1>10, FringeSolvedKeeps
<1>11. CASE Expand
  BY <1>11, ExpandRouteKeeps DEF Expand
<1>12. CASE Assemble
  BY <1>12, AssembleKeeps
<1>13. CASE OsrmFails
  <2>1. phase' = "failed" /\ error' = "osrm" /\ UNCHANGED solverVars /\ SolverInv
    BY <1>13 DEF OsrmFails, Fails, Known
  <2> QED BY <2>1, FailureKeeps, SolverKept
<1>14. CASE SolverAborts
  <2>1. phase' = "failed" /\ error' = "pool" /\ Abort /\ SolverInv
    BY <1>14 DEF SolverAborts, Fails, Known
  <2> QED BY <2>1, FailureKeeps, SolverKept
<1> QED
  BY <1>1, <1>2, <1>3, <1>4, <1>5, <1>6, <1>7, <1>8, <1>9, <1>10, <1>11, <1>12, <1>13, <1>14
     DEF Greedy, PlannerStep

----------------------------------------------------------------------------
(* The solver's planner, step by step. *)

LEMMA SolverPrepareKeeps ==
    ASSUME NEW r, Known(r), SolverPrepare
    PROVE  PlannerInv' /\ SolverInv'
<1>1. /\ phase = "requested" /\ drops' = drops /\ UNCHANGED solverVars
      /\ \/ phase' = "failed" /\ error' = "404"
         \/ phase' = "choosing" /\ error' = error
  BY DEF SolverPrepare, Fails
<1>2. SolverInv /\ drops = <<>> /\ error # "503"
  BY <1>1 DEF Known, PlannerInv
<1>3. SolverInv'
  BY <1>1, <1>2, SolverKept
<1>4. CASE phase' = "failed" /\ error' = "404"
  BY <1>3, <1>4, FailureKeeps
<1>5. CASE phase' = "choosing" /\ error' = error
  <2>1. phase' = "choosing" /\ error' # "503" /\ drops' = <<>>
    BY <1>1, <1>2, <1>5
  <2> QED BY <1>3, <2>1 DEF PlannerInv, Placed, Sharing
<1> QED BY <1>1, <1>4, <1>5

LEMMA PickParkingKeeps ==
    ASSUME NEW r, Known(r), PickParking
    PROVE  PlannerInv' /\ SolverInv'
<1>1. /\ phase = "choosing" /\ phase' = "posed" /\ lot' \in Starts
      /\ UNCHANGED <<drops, error, solverVars>>
  BY DEF PickParking
<1>2. Begun(r) /\ Ready /\ SolverInv /\ drops = <<>> /\ error # "503"
  BY <1>1 DEF Known, PlannerInv
<1>3. \A l \in ParkingPlaces : Walks(walk, Kept, l)
  BY <1>1, <1>2, StateIsMeasured
<1>4. Starts \subseteq ParkingPlaces
  BY <1>2, <1>3, StartsAreOffered
<1>5. SolverInv'
  BY <1>1, <1>2, SolverKept
<1>6. phase' = "posed" /\ error' # "503" /\ drops' = <<>> /\ lot' \in ParkingPlaces
  <2>1. lot' \in ParkingPlaces
    BY <1>1, <1>4
  <2> QED BY <1>1, <1>2, <2>1
<1>7. ParkingPlaces' = ParkingPlaces
  BY DEF ParkingPlaces
<1> QED BY <1>5, <1>6, <1>7 DEF PlannerInv, Placed, Sharing

\* What the service answers is of the stops it was given, each once.
LEMMA AnswersAreListed ==
    ASSUME NEW R, Listing(reps, R), IsFiniteSet(R), NEW o \in Answers
    PROVE  Listing(o, ToSet(o)) /\ ToSet(o) \subseteq R
<1>1. ToSet(reps) = R
  BY ListingIsFinite
<1>2. o = reps \/ \E S \in SUBSET R : o \in SetToSeqs(S)
  BY <1>1 DEF Answers
<1>3. CASE o = reps
  BY <1>1, <1>3
<1>4. CASE \E S \in SUBSET R : o \in SetToSeqs(S)
  <2>1. PICK S \in SUBSET R : o \in SetToSeqs(S)
    BY <1>4
  <2>2. IsFiniteSet(S)
    BY FS_Subset
  <2>3. /\ Cardinality(S) \in Nat /\ o \in [1..Cardinality(S) -> S]
        /\ \A i, j \in 1..Cardinality(S) : o[i] = o[j] => i = j
        /\ \A x \in S : \E i \in 1..Cardinality(S) : o[i] = x
    BY <2>1, <2>2, ListingsAreOnto
  <2>4. Listing(o, S)
    BY <2>3, ListingOf
  <2>5. ToSet(o) = S
    BY <2>4, ListingIsFinite
  <2> QED BY <2>4, <2>5
<1> QED BY <1>2, <1>3, <1>4

LEMMA PoseKeeps ==
    ASSUME NEW r, Known(r), Pose
    PROVE  PlannerInv' /\ SolverInv'
<1>1. /\ phase = "posed" /\ UNCHANGED <<prep, lot, drops, solverVars>>
  BY DEF Pose
<1>2. PICK o \in Answers :
        /\ answer' = o /\ tour' = o
        /\ IF o = <<>> THEN phase' = "failed" /\ error' = "404"
           ELSE phase' = "mending" /\ error' = error
  BY Zenon DEF Pose, Fails
<1>3. Begun(r) /\ Ready /\ SolverInv /\ drops = <<>> /\ error # "503" /\ lot \in ParkingPlaces
  BY <1>1 DEF Known, PlannerInv, Placed
<1> DEFINE R == ToSet(reps)
<1>4. Listing(reps, R)
  BY <1>1, <1>3, StateIsMeasured
<1>5. IsFiniteSet(R)
  BY <1>4, ListingIsFinite
<1> HIDE DEF R
<1>6. Listing(o, ToSet(o)) /\ ToSet(o) \subseteq R
  BY <1>4, <1>5, AnswersAreListed
<1>7. SolverInv'
  BY <1>1, <1>3, SolverKept
<1>8. CASE o = <<>>
  <2>1. phase' = "failed" /\ error' # "503"
    BY <1>2, <1>8
  <2> QED BY <1>7, <2>1, FailureKeeps
<1>9. CASE o # <<>>
  <2>1. Shares(o, <<>>, ToSet(o))
    BY <1>6, NothingDropped
  <2>2. ToSet(reps') = R
    BY <1>1 DEF reps, R
  <2>3. /\ phase' = "mending" /\ error' # "503" /\ lot' \in ParkingPlaces
        /\ tour' # <<>> /\ Shares(tour', drops', ToSet(answer'))
        /\ Listing(answer', ToSet(answer')) /\ ToSet(answer') \subseteq ToSet(reps')
    BY <1>1, <1>2, <1>3, <1>6, <1>9, <2>1, <2>2
  <2> QED BY <1>7, <2>3 DEF PlannerInv, Placed, Sharing
<1> QED BY <1>8, <1>9

LEMMA SolverUnavailableKeeps ==
    ASSUME NEW r, Known(r), SolverUnavailable
    PROVE  PlannerInv' /\ SolverInv'
<1>1. /\ phase = "posed" /\ phase' = "failed" /\ drops' = drops /\ UNCHANGED solverVars
  BY DEF SolverUnavailable, Fails
<1>2. SolverInv /\ drops = <<>>
  BY <1>1 DEF Known, PlannerInv
<1>3. SolverInv'
  BY <1>1, <1>2, SolverKept
<1> QED BY <1>1, <1>2, <1>3 DEF PlannerInv, Placed, Sharing

\* The walks the solver is told of.
LEMMA PricedWalks ==
    ASSUME NEW r, Begun(r), lot \in ParkingPlaces
    PROVE  Walks(Priced, Kept, lot)
<1>1. /\ IsFiniteSet(Kept) /\ Kept \subseteq Candidates(r)
  BY KeptAreMeasured
<1>2. /\ Candidates(r) \cap ParkingPlaces = {} /\ request.walk = r.walk /\ r \in Requests
      /\ \A a, b \in Candidates(r) \cup ParkingPlaces : a # b => r.walk[a][b] \in Nat
  BY RequestsAreMeasured DEF Begun
<1>3. Sentinel \in Nat /\ Candidates(r) \cup ParkingPlaces \subseteq DOMAIN r.walk
  BY <1>2, ToursServiceAssumption
<1>4. ASSUME NEW a \in Kept
      PROVE  Priced[lot][a] \in Nat /\ Priced[a][lot] \in Nat
  <2>1. a \in Candidates(r) /\ a # lot
    BY <1>1, <1>2
  <2>2. a \in DOMAIN walk /\ lot \in DOMAIN walk
    BY <1>2, <1>3, <2>1 DEF walk
  <2>3. walk[lot][a] \in Nat /\ walk[a][lot] \in Nat
    BY <1>2, <2>1 DEF walk
  <2>4. /\ Priced[lot][a] = IF walk[lot][a] >= Infinity THEN Sentinel ELSE walk[lot][a]
        /\ Priced[a][lot] = IF walk[a][lot] >= Infinity THEN Sentinel ELSE walk[a][lot]
    BY <2>2 DEF Priced
  <2> QED BY <1>3, <2>3, <2>4
<1> QED BY <1>4 DEF Walks

\* What is known of the answer while it is mended.
LEMMA MendedStops ==
    ASSUME NEW r, Known(r), phase \in {"mending", "mend_solving"}
    PROVE  /\ Begun(r) /\ Ready /\ SolverInv /\ error # "503" /\ lot \in ParkingPlaces
           /\ tour # <<>> /\ Shares(tour, drops, ToSet(answer))
           /\ Listing(answer, ToSet(answer)) /\ ToSet(answer) \subseteq ToSet(reps)
           /\ Listing(reps, ToSet(reps)) /\ ToSet(reps) \in SUBSET Kept
           /\ ToSet(answer) \in SUBSET Kept
           /\ Measures(dist, Kept) /\ Walks(Priced, Kept, lot)
<1>1. /\ Begun(r) /\ Ready /\ SolverInv /\ error # "503" /\ lot \in ParkingPlaces
      /\ tour # <<>> /\ Shares(tour, drops, ToSet(answer))
      /\ Listing(answer, ToSet(answer)) /\ ToSet(answer) \subseteq ToSet(reps)
      /\ phase \notin {"requested", "failed"}
  BY DEF Known, PlannerInv, Placed
<1>2. /\ Listing(reps, ToSet(reps)) /\ ToSet(reps) \subseteq Kept /\ Measures(dist, Kept)
  BY <1>1, StateIsMeasured
<1>3. Walks(Priced, Kept, lot)
  BY <1>1, PricedWalks
<1> QED BY <1>1, <1>2, <1>3

LEMMA MendDropKeeps ==
    ASSUME NEW r, Known(r), MendDrop
    PROVE  PlannerInv' /\ SolverInv'
<1>1. /\ phase = "mending" /\ phase' = "mend_solving" /\ DropWorst(Priced)
      /\ UNCHANGED <<prep, lot, error, answer>>
  BY Zenon DEF MendDrop, posedVars
<1> DEFINE S == Kept
           R == ToSet(answer)
           w == Priced
<1>2. /\ error # "503" /\ lot \in ParkingPlaces /\ Shares(tour, drops, R)
      /\ R \in SUBSET S /\ Measures(dist, S) /\ Walks(w, S, lot)
      /\ Listing(answer, R) /\ R \subseteq ToSet(reps)
  BY <1>1, MendedStops
<1>3. DropWorst(w)
  BY <1>1
<1> HIDE DEF S, R, w
<1>4. /\ Shares(tour', drops', R) /\ tour' # <<>>
      /\ SolverInv' /\ Size' = Len(tour')
  BY <1>2, <1>3, WorstIsDropped
<1>5. ToSet(answer') = R /\ reps' = reps /\ answer' = answer /\ lot' = lot /\ error' = error
  BY <1>1 DEF reps, R
<1>6. /\ Shares(tour', drops', ToSet(answer')) /\ error' # "503" /\ lot' \in ParkingPlaces
      /\ Listing(answer', ToSet(answer')) /\ ToSet(answer') \subseteq ToSet(reps')
      /\ phase' = "mend_solving"
  BY <1>1, <1>2, <1>4, <1>5
<1> QED BY <1>4, <1>6 DEF PlannerInv, Placed, Sharing

LEMMA MendSolvedKeeps ==
    ASSUME NEW r, Known(r), MendSolved
    PROVE  PlannerInv' /\ SolverInv'
<1>1. /\ phase = "mend_solving" /\ phase' = "mending" /\ tour' = Solved(tour) /\ Collect
      /\ UNCHANGED <<prep, lot, drops, error, answer>>
  BY DEF MendSolved, posedVars
<1>2. /\ SolverInv /\ error # "503" /\ lot \in ParkingPlaces /\ tour # <<>>
      /\ Shares(tour, drops, ToSet(answer))
      /\ Listing(answer, ToSet(answer)) /\ ToSet(answer) \subseteq ToSet(reps)
  BY <1>1, MendedStops
<1>3. Size = Len(tour) /\ pass = "done"
  BY <1>1 DEF Known, PlannerInv, Collect
<1>4. Shares(Solved(tour), drops, ToSet(answer)) /\ Solved(tour) # <<>>
  BY <1>2, <1>3, SolvedShares
<1>5. SolverInv'
  BY <1>1, <1>2, SolverKept
<1>6. reps' = reps /\ answer' = answer /\ lot' = lot /\ error' = error /\ drops' = drops
  BY <1>1 DEF reps
<1>7. /\ Shares(tour', drops', ToSet(answer')) /\ tour' # <<>> /\ error' # "503"
      /\ lot' \in ParkingPlaces /\ phase' = "mending"
      /\ Listing(answer', ToSet(answer')) /\ ToSet(answer') \subseteq ToSet(reps')
  BY <1>1, <1>2, <1>4, <1>6
<1> QED BY <1>5, <1>7 DEF PlannerInv, Placed, Sharing

\* What Account makes of the drops: the orphans and then the omissions.
LEMMA AccountShares ==
    ASSUME Listing(reps, ToSet(reps)), Listing(answer, ToSet(answer)),
           ToSet(answer) \subseteq ToSet(reps), Shares(tour, drops, ToSet(answer)), tour # <<>>,
           NEW t, t = IF DropsOrphans THEN AfterOrphans ELSE tour,
           NEW ds, ds = drops \o (IF DropsOrphans THEN OrphanDrops ELSE <<>>) \o Omitted
    PROVE  Shares(t, ds, ToSet(reps)) /\ t # <<>>
<1> DEFINE Q == ToSet(answer)
           R == ToSet(reps)
           A == ToSet(tour)
           D == ToSet(drops)
           E == ToSet(Omitted)
           orphans == IF DropsOrphans THEN OrphanDrops ELSE <<>>
<1>1. Split(tour, drops, Q, A, D) /\ Listing(tour, A) /\ A \subseteq Q
  BY SharesAreListed
<1>2. \E B : Split(t, drops \o orphans, Q, B, ToSet(drops \o orphans)) /\ t # <<>>
  <2>1. CASE DropsOrphans
    <3> DEFINE o == OrphanDrops
               O == ToSet(OrphanDrops)
               u == AfterOrphans
               B == A \ Orphans
    <3>1. /\ Orphans \subseteq A /\ Listing(u, B)
          /\ Listing(o, O) /\ O \in SUBSET [id : Orphans, reason : Reasons]
          /\ (\A d, e \in O : d.id = e.id => d = e) /\ Dropped(O) = Orphans
      BY <1>1, OrphansListed
    <3>2. Len(u) >= 2 /\ t = u /\ orphans = o
      BY <2>1 DEF DropsOrphans
    <3>3. A \cap Dropped(D) = {} /\ A \cup Dropped(D) = Q
      BY <1>1 DEF Split
    <3> HIDE DEF o, O, u, A, D, orphans
    <3>4. /\ Dropped(O) \cap Dropped(D) = {} /\ B \cap (Dropped(D) \cup Dropped(O)) = {}
          /\ B \cup Dropped(D) \cup Dropped(O) = Q
      BY <3>1, <3>3
    <3>5. O \in SUBSET [id : Q, reason : Reasons]
      BY <1>1, <3>1
    <3> HIDE DEF B, Q
    <3>6. Split(u, drops \o o, Q, B, D \cup O)
      BY <1>1, <3>1, <3>4, <3>5, MoreDropped
    <3>7. Listing(drops \o o, D \cup O)
      BY <3>6 DEF Split
    <3>8. ToSet(drops \o o) = D \cup O
      BY <3>7, ListingIsFinite
    <3>9. u # <<>>
      <4>1. Listing(u, B) /\ Len(u) # 0
        BY <3>1, <3>2, ListingIsFinite
      <4> QED BY <4>1
    <3> QED BY <3>2, <3>6, <3>8, <3>9
  <2>2. CASE ~DropsOrphans
    <3>1. t = tour /\ orphans = <<>>
      BY <2>2
    <3>2. drops \o <<>> = drops
      <4>1. drops \in Seq(D)
        BY <1>1 DEF Split, Listing
      <4> QED BY <4>1
    <3> QED BY <1>1, <3>1, <3>2
  <2> QED BY <2>1, <2>2
<1> DEFINE es == drops \o orphans
           F == ToSet(es)
<1>3. PICK B : Split(t, es, Q, B, F) /\ t # <<>>
  BY <1>2
<1>4. /\ Listing(Omitted, E) /\ E \in SUBSET [id : R \ Q, reason : Reasons]
      /\ (\A d, e \in E : d.id = e.id => d = e) /\ Dropped(E) = R \ Q
  BY OmittedListed
<1>5. ds = es \o Omitted
  OBVIOUS
<1>6. Q \subseteq R
  OBVIOUS
<1> HIDE DEF Q, R, A, D, E, orphans, es, F
<1>7. B \cap Dropped(F) = {} /\ B \cup Dropped(F) = Q /\ Listing(t, B)
  BY <1>3 DEF Split
<1>8. /\ Dropped(E) \cap Dropped(F) = {} /\ B \cap (Dropped(F) \cup Dropped(E)) = {}
      /\ B \cup Dropped(F) \cup Dropped(E) = R
  BY <1>4, <1>6, <1>7
<1>9. E \in SUBSET [id : R, reason : Reasons]
  BY <1>4
<1>10. Split(t, es \o Omitted, R, B, F \cup E)
  BY <1>3, <1>4, <1>6, <1>7, <1>8, <1>9, MoreDropped
<1> QED BY <1>3, <1>5, <1>10 DEF Shares, R

LEMMA AccountKeeps ==
    ASSUME NEW r, Known(r), Account
    PROVE  PlannerInv' /\ SolverInv'
<1> DEFINE t == IF DropsOrphans THEN AfterOrphans ELSE tour
           ds == drops \o (IF DropsOrphans THEN OrphanDrops ELSE <<>>) \o Omitted
           S == Kept
           R == ToSet(reps)
           D == ToSet(ds)
<1>1. /\ phase = "mending" /\ phase' = "reclaiming" /\ tour' = t /\ drops' = ds
      /\ units' = Eligible(ds, t)
      /\ UNCHANGED <<prep, lot, error, solverVars>>
  BY Zenon DEF Account
<1>2. /\ SolverInv /\ error # "503" /\ lot \in ParkingPlaces /\ tour # <<>>
      /\ Shares(tour, drops, ToSet(answer))
      /\ Listing(answer, ToSet(answer)) /\ ToSet(answer) \subseteq R
      /\ Listing(reps, R) /\ R \in SUBSET S /\ Measures(dist, S)
  BY <1>1, MendedStops
<1>3. Shares(t, ds, R) /\ t # <<>>
  BY <1>2, AccountShares
<1> HIDE DEF S, R, t, ds
<1>4. /\ Listing(t, ToSet(t)) /\ ToSet(t) \subseteq R
      /\ Listing(ds, D) /\ D \in SUBSET [id : R, reason : Reasons]
      /\ \A d, e \in D : d.id = e.id => d = e
  BY <1>3, SharesAreListed
<1> HIDE DEF D
<1>5. Dropped(D) \subseteq S /\ ToSet(t) \subseteq S /\ ToSet(t) # {}
  <2>1. \A d \in D : d.id \in R
    BY <1>4
  <2>2. ToSet(t) # {}
    BY <1>3, <1>4, ListingIsFinite
  <2> QED BY <1>2, <1>4, <2>1, <2>2 DEF Dropped
<1>6. Apart(Eligible(ds, t), Dropped(D))
  BY <1>2, <1>4, <1>5, EligibleIsApart
<1>7. SolverInv'
  BY <1>1, <1>2, SolverKept
<1>8. ToSet(reps') = R /\ lot' = lot /\ error' = error
  BY <1>1 DEF reps, R
<1>9. Apart(units', Dropped(ToSet(drops')))
  BY <1>1, <1>6 DEF D
<1>10. /\ Shares(tour', drops', ToSet(reps')) /\ tour' # <<>> /\ error' # "503"
       /\ lot' \in ParkingPlaces /\ phase' = "reclaiming"
  BY <1>1, <1>2, <1>3, <1>8
<1> QED BY <1>7, <1>9, <1>10 DEF PlannerInv, Placed, Sharing

\* A unit joined to the stops.
LEMMA UnitJoins ==
    ASSUME NEW R, Shares(tour, drops, R), Apart(units, Dropped(ToSet(drops))), units # <<>>
    PROVE  LET U == ToSet(Head(units))
           IN  /\ Listing(tour \o Head(units), ToSet(tour) \cup U)
               /\ tour # <<>> => tour \o Head(units) # <<>>
               /\ U \subseteq Dropped(ToSet(drops))
<1> DEFINE u == Head(units)
           U == ToSet(u)
           A == ToSet(tour)
           V == Dropped(ToSet(drops))
<1>1. Listing(tour, A) /\ A \cap V = {}
  BY SharesAreListed
<1>2. Listing(u, U) /\ U \subseteq V
  BY RestIsApart
<1> HIDE DEF u, U, A, V
<1>3. Listing(tour \o u, A \cup U)
  BY <1>1, <1>2, JoinedListings
<1>4. tour # <<>> => A # {}
  BY <1>1, ListingIsFinite
<1>5. tour # <<>> => tour \o u # <<>>
  BY <1>3, <1>4, ListingIsFinite
<1> QED BY <1>2, <1>3, <1>5 DEF u, U, A, V

LEMMA ReclaimKeeps ==
    ASSUME NEW r, Known(r), Reclaim
    PROVE  PlannerInv' /\ SolverInv'
<1> DEFINE l == tour \o Head(units)
           m == MatrixOf(l, Finite)
           R == ToSet(reps)
<1>1. /\ phase = "reclaiming" /\ phase' = "reclaim_solving" /\ units # <<>> /\ Call(m, 1)
      /\ UNCHANGED <<prep, tour, lot, drops, error, units>>
  BY Zenon DEF Reclaim, posedVars
<1>2. error # "503" /\ Shares(tour, drops, R) /\ tour # <<>>
  BY <1>1, SharedStops DEF Sharing
<1>3. lot \in ParkingPlaces /\ Apart(units, Dropped(ToSet(drops)))
  BY <1>1 DEF Known, PlannerInv, Placed
<1> HIDE DEF R
<1>4. Listing(l, ToSet(tour) \cup ToSet(Head(units))) /\ l # <<>>
  BY <1>1, <1>2, <1>3, UnitJoins
<1>5. l' = l
  BY <1>1
<1> HIDE DEF l
<1>6. Len(l) \in Nat \ {0} /\ 1 \in 1..Len(l) /\ Len(m) = Len(l)
  BY <1>4, MatrixIsSquare
<1> HIDE DEF m
<1>7. SolverInv' /\ Size' = Len(m)
  BY <1>1, <1>6, CallStarts
<1>8. ToSet(reps') = R
  BY <1>1 DEF reps, R
<1>9. Size' = Len(tour' \o Head(units')) /\ units' # <<>>
  BY <1>1, <1>5, <1>6, <1>7 DEF l
<1>10. Apart(units', Dropped(ToSet(drops')))
  BY <1>1, <1>3
<1>11. /\ Shares(tour', drops', ToSet(reps')) /\ tour' # <<>> /\ error' # "503"
       /\ lot' \in ParkingPlaces /\ phase' = "reclaim_solving"
  BY <1>1, <1>2, <1>3, <1>8
<1> QED BY <1>7, <1>9, <1>10, <1>11 DEF PlannerInv, Placed, Sharing

\* The drops that stay when a unit comes back.
Staying(ds, U) == Picked(ds, {i \in DOMAIN ds : ds[i].id \notin U})

LEMMA UnitTakenBack ==
    ASSUME NEW R, NEW t, NEW ds, Shares(t, ds, R), NEW U, U \subseteq Dropped(ToSet(ds)),
           NEW l, Listing(l, ToSet(t) \cup U)
    PROVE  /\ Shares(l, Staying(ds, U), R)
           /\ Dropped(ToSet(Staying(ds, U))) = Dropped(ToSet(ds)) \ U
<1> DEFINE A == ToSet(t)
           D == ToSet(ds)
           E == {d \in D : d.id \notin U}
           I == {i \in 1..Len(ds) : ds[i].id \notin U}
           es == Staying(ds, U)
<1>1. /\ Listing(ds, D) /\ D \in SUBSET [id : R, reason : Reasons]
      /\ \A d, e \in D : d.id = e.id => d = e
      /\ A \cap Dropped(D) = {} /\ A \cup Dropped(D) = R
  BY SharesAreListed
<1>2. DOMAIN ds = 1..Len(ds) /\ ds \in [1..Len(ds) -> D]
  BY <1>1, ListingIsFinite
<1>3. {ds[i] : i \in I} = E
  <2>1. \A d \in E : \E i \in I : ds[i] = d
    BY <1>1 DEF Listing
  <2>2. \A i \in I : ds[i] \in E
    BY <1>2
  <2> HIDE DEF I, E
  <2> QED BY <2>1, <2>2
<1>4. es = Picked(ds, I)
  BY <1>2 DEF Staying
<1>5. I \in SUBSET (1..Len(ds))
  OBVIOUS
<1> HIDE DEF I, D, A, es
<1>6. Listing(es, E)
  BY <1>1, <1>3, <1>4, <1>5, FilteredListing
<1>7. Dropped(E) = Dropped(D) \ U
  BY DEF Dropped
<1>8. E \subseteq D
  OBVIOUS
<1> HIDE DEF E
<1>9. ToSet(es) = E
  BY <1>6, ListingIsFinite
<1>10. (A \cup U) \cap Dropped(E) = {} /\ (A \cup U) \cup Dropped(E) = R
  BY <1>1, <1>7 DEF D
<1>11. Split(l, es, R, A \cup U, E)
  BY <1>1, <1>6, <1>8, <1>10 DEF Split, A
<1> QED BY <1>7, <1>9, <1>11 DEF Shares, es, D

LEMMA ReclaimSolvedKeeps ==
    ASSUME NEW r, Known(r), ReclaimSolved
    PROVE  PlannerInv' /\ SolverInv'
<1> DEFINE U == ToSet(Head(units))
           l == tour \o Head(units)
           R == ToSet(reps)
           V == Dropped(ToSet(drops))
<1>1. /\ phase = "reclaim_solving" /\ phase' = "reclaiming" /\ units' = Tail(units) /\ Collect
      /\ UNCHANGED <<prep, lot, error>>
  BY Zenon DEF ReclaimSolved
<1>2. \/ tour' = Solved(l) /\ drops' = Staying(drops, U)
      \/ tour' = tour /\ drops' = drops
  <2>1. Staying(drops, U) = Where(drops, LAMBDA d : d.id \notin ToSet(Head(units)))
    BY Zenon DEF Where, Staying, Picked
  <2>2. IF Fits(Solved(l))
        THEN /\ tour' = Solved(l)
             /\ drops' = Where(drops, LAMBDA d : d.id \notin ToSet(Head(units)))
        ELSE UNCHANGED <<tour, drops>>
    BY Zenon DEF ReclaimSolved
  <2> QED BY Zenon, <2>1, <2>2
<1>3. SolverInv /\ error # "503" /\ Shares(tour, drops, R) /\ tour # <<>>
  BY <1>1, SharedStops DEF Sharing
<1>4. /\ lot \in ParkingPlaces /\ Apart(units, V) /\ units # <<>>
      /\ Size = Len(l) /\ pass = "done"
  BY <1>1 DEF Known, PlannerInv, Placed, Collect
<1>5. Listing(l, ToSet(tour) \cup U) /\ l # <<>> /\ U \subseteq V
  BY <1>3, <1>4, UnitJoins
<1>6. Apart(Tail(units), V \ U) /\ Apart(Tail(units), V)
  BY <1>4, RestIsApart
<1>7. SolverInv'
  BY <1>1, <1>3, SolverKept
<1>8. ToSet(reps') = R /\ lot' = lot /\ error' = error
  BY <1>1 DEF reps
<1> HIDE DEF R
<1>9. /\ Shares(tour', drops', R) /\ tour' # <<>> /\ Apart(units', Dropped(ToSet(drops')))
  <2>1. CASE tour' = Solved(l) /\ drops' = Staying(drops, U)
    <3> HIDE DEF l, U
    <3>1. Listing(Solved(l), ToSet(tour) \cup U) /\ Len(Solved(l)) = Len(l)
      BY <1>3, <1>4, <1>5, SolvedListing
    <3>2. Solved(l) # <<>>
      <4>1. ToSet(tour) \cup U # {}
        BY <1>5, ListingIsFinite
      <4> QED BY <3>1, <4>1, ListingIsFinite
    <3>3. /\ Shares(Solved(l), Staying(drops, U), R)
          /\ Dropped(ToSet(Staying(drops, U))) = V \ U
      <4>1. /\ Listing(Solved(l), ToSet(tour) \cup U) /\ Shares(tour, drops, R)
            /\ U \subseteq Dropped(ToSet(drops))
        BY <1>3, <1>5, <3>1
      <4> HIDE DEF V
      <4>2. /\ Shares(Solved(l), Staying(drops, U), R)
            /\ Dropped(ToSet(Staying(drops, U))) = Dropped(ToSet(drops)) \ U
        BY <4>1, UnitTakenBack
      <4> QED BY <4>2 DEF V
    <3> QED BY <1>1, <1>6, <2>1, <3>2, <3>3
  <2>2. CASE tour' = tour /\ drops' = drops
    BY <1>1, <1>3, <1>6, <2>2
  <2> QED BY <1>2, <2>1, <2>2
<1>10. /\ Shares(tour', drops', ToSet(reps')) /\ error' # "503" /\ lot' \in ParkingPlaces
       /\ phase' = "reclaiming"
  BY <1>1, <1>3, <1>4, <1>8, <1>9
<1> QED BY <1>7, <1>9, <1>10 DEF PlannerInv, Placed, Sharing

LEMMA SolverLegsKeeps ==
    ASSUME NEW r, Known(r), SolverLegs
    PROVE  PlannerInv' /\ SolverInv'
<1>1. /\ phase = "reclaiming" /\ Route("expanding")
      /\ UNCHANGED <<request, prep, tour, lot, drops, solverVars>>
  BY DEF SolverLegs, Route
<1> DEFINE A == ToSet(tour)
           R == ToSet(reps)
<1>2. /\ Begun(r) /\ SolverInv /\ error # "503" /\ tour # <<>> /\ Shares(tour, drops, R)
      /\ Listing(tour, A) /\ A \subseteq Candidates(r)
  BY <1>1, SharedStops DEF Sharing
<1>3. lot \in ParkingPlaces
  BY <1>1 DEF Known, PlannerInv, Placed
<1> HIDE DEF A, R
<1>4. \/ phase' = "failed" /\ error' # "503"
      \/ /\ phase' = "expanding" /\ error' = error /\ LegsTo(routed', Len(tour) + 1, walk, Stations)
         /\ Len(tour) = 1 => Len(routed') = 2
  BY <1>1, <1>2, <1>3, RouteLeads
<1>5. SolverInv'
  BY <1>1, <1>2, SolverKept
<1>6. CASE phase' = "failed" /\ error' # "503"
  BY <1>5, <1>6, FailureKeeps
<1>7. CASE /\ phase' = "expanding" /\ error' = error /\ LegsTo(routed', Len(tour) + 1, walk, Stations)
           /\ Len(tour) = 1 => Len(routed') = 2
  <2>1. Stations' = Stations /\ walk' = walk
    BY <1>1 DEF Stations, walk
  <2>2. ToSet(reps') = R
    BY <1>1 DEF reps, R
  <2>3. /\ Shares(tour', drops', ToSet(reps')) /\ tour' # <<>> /\ error' # "503"
        /\ lot' \in ParkingPlaces /\ phase' = "expanding"
        /\ Led'
    BY <1>1, <1>2, <1>3, <1>7, <2>1, <2>2 DEF Led
  <2> QED BY <1>5, <2>3 DEF PlannerInv, Placed, Sharing
<1> QED BY <1>4, <1>6, <1>7

\* The solver's planner, by its actions.
LEMMA SolverKeeps ==
    ASSUME NEW r, Known(r), Solver
    PROVE  PlannerInv' /\ SolverInv'
<1>1. CASE SolverPrepare
  BY <1>1, SolverPrepareKeeps
<1>2. CASE PickParking
  BY <1>2, PickParkingKeeps
<1>3. CASE Pose
  BY <1>3, PoseKeeps
<1>4. CASE SolverUnavailable
  BY <1>4, SolverUnavailableKeeps
<1>5. CASE MendDrop
  BY <1>5, MendDropKeeps
<1>6. CASE MendSolved
  BY <1>6, MendSolvedKeeps
<1>7. CASE Account
  BY <1>7, AccountKeeps
<1>8. CASE Reclaim
  BY <1>8, ReclaimKeeps
<1>9. CASE ReclaimSolved
  BY <1>9, ReclaimSolvedKeeps
<1>10. CASE SolverLegs
  BY <1>10, SolverLegsKeeps
<1>11. CASE SolverExpand
  BY <1>11, ExpandRouteKeeps DEF SolverExpand
<1>12. CASE Assemble
  BY <1>12, AssembleKeeps
<1>13. CASE SolverOsrmFails
  <2>1. phase' = "failed" /\ error' = "osrm" /\ UNCHANGED solverVars /\ SolverInv
    BY <1>13 DEF SolverOsrmFails, Fails, Known
  <2> QED BY <2>1, FailureKeeps, SolverKept
<1> QED
  BY <1>1, <1>2, <1>3, <1>4, <1>5, <1>6, <1>7, <1>8, <1>9, <1>10, <1>11, <1>12, <1>13
     DEF Solver, SolverPlannerStep

LEMMA NothingPlanned ==
    ASSUME NEW r, Known(r), UNCHANGED plannerVars, UNCHANGED posedVars, Size' = Size
    PROVE  PlannerInv'
<1>1. UNCHANGED <<request, phase, prep, tour, lot, drops, routed, legs, ordered, error,
                  answer, units>>
  BY DEF plannerVars, posedVars
<1>2. reps' = reps /\ Expanded' = Expanded /\ LegsExpanded' = LegsExpanded /\ Led' = Led
  BY <1>1, ExpansionFollows DEF reps
<1>3. PlannerInv
  BY DEF Known
<1> QED BY <1>1, <1>2, <1>3 DEF PlannerInv

LEMMA PlanIsKept ==
    ASSUME NEW r, Known(r), [ServiceNext]_allVars
    PROVE  Known(r)'
<1>1. Begun(r) /\ Ready /\ SolverInv /\ PlannerInv
  BY DEF Known
<1>2. PlannerInv' /\ SolverInv'
  <2>1. CASE Greedy
    BY <2>1, GreedyKeeps
  <2>2. CASE Solver
    BY <2>2, SolverKeeps
  <2>3. CASE FallBack
    <3>1. /\ error = "503" /\ phase' = "requested" /\ error' = None /\ drops' = drops
          /\ UNCHANGED solverVars
      BY <2>3 DEF FallBack
    <3>2. drops = <<>> /\ None # "503"
      BY <1>1, <3>1, ToursServiceAssumption DEF PlannerInv
    <3>3. SolverInv'
      BY <1>1, <3>1, SolverKept
    <3> QED BY <3>1, <3>2, <3>3 DEF PlannerInv, Placed, Sharing
  <2>4. CASE AugmentClusterWithLabs \/ ExpandForCompleteAdventures
    <3>1. phase = "requested"
      BY <1>1, <2>4 DEF AugmentClusterWithLabs, ExpandForCompleteAdventures, Begun
    <3>2. /\ drops' = drops /\ UNCHANGED solverVars
          /\ \/ phase' = phase /\ error' = error
             \/ phase' = "failed" /\ error' = "404"
      BY <2>4 DEF AugmentClusterWithLabs, ExpandForCompleteAdventures, Fails
    <3>3. SolverInv'
      BY <1>1, <3>2, SolverKept
    <3>4. drops = <<>> /\ error # "503"
      BY <1>1, <3>1 DEF PlannerInv
    <3>5. CASE phase' = "failed" /\ error' = "404"
      BY <3>3, <3>5, FailureKeeps
    <3>6. CASE phase' = phase /\ error' = error
      <4>1. phase' = "requested" /\ drops' = <<>> /\ error' # "503"
        BY <3>1, <3>2, <3>4, <3>6
      <4> QED BY <3>3, <4>1 DEF PlannerInv, Placed, Sharing
    <3> QED BY <3>2, <3>5, <3>6
  <2>5. CASE SolverStep /\ UNCHANGED <<plannerVars, posedVars, serviceVars>>
    <3>1. Size' = Size
      <4>1. matrix' = matrix
        BY <2>5 DEF SolverStep, SeedStep, SeedEnd, TwoOptMove, TwoOptEnd, OrOptMove, OrOptEnd
      <4> QED BY <4>1 DEF Size
    <3>2. SolverInv'
      BY <1>1, <2>5, SolverKept
    <3> QED BY <2>5, <3>1, <3>2, NothingPlanned
  <2>6. CASE PlanGreedy \/ UNCHANGED allVars
    <3>1. UNCHANGED plannerVars /\ UNCHANGED posedVars /\ UNCHANGED solverVars
      BY <2>6 DEF PlanGreedy, allVars, vars
    <3>2. Size' = Size
      BY <3>1 DEF solverVars, Size
    <3>3. SolverInv'
      BY <1>1, <3>1, SolverKept
    <3> QED BY <3>1, <3>2, <3>3, NothingPlanned
  <2> QED BY <2>1, <2>2, <2>3, <2>4, <2>5, <2>6 DEF ServiceNext, ServiceAnswered
<1>3. Begun(r)'
  BY <1>1, RequestIsKept
<1>4. Ready'
  BY <1>1, ReadyIsKept
<1> QED BY <1>2, <1>3, <1>4 DEF Known

LEMMA PlanBegins ==
    ASSUME ServiceInit
    PROVE  \E r \in Requests : Known(r)
<1>1. PICK r \in Requests : Begun(r)
  BY RequestBegins
<1>2. /\ phase = "requested" /\ drops = <<>> /\ error = None /\ SolverInit
  BY DEF ServiceInit, Init, PlannerInit
<1>3. None # "503"
  BY ToursServiceAssumption
<1>4. PlannerInv
  BY <1>2, <1>3 DEF PlannerInv, Placed, Sharing
<1>5. SolverInv
  BY <1>2 DEF SolverInit, SolverInv, Running
<1>6. Ready
  BY <1>2 DEF Ready
<1> QED BY <1>1, <1>4, <1>5, <1>6 DEF Known

----------------------------------------------------------------------------
(***************************************************************************)
(* The count, when a plan is done.                                         *)
(***************************************************************************)

\* The stops are the members of the representatives in the tour, and what was
\* dropped are those of the rest.
Counted(M, A, D, U) ==
    /\ Listing(ordered, UNION {ToSet(M[x]) : x \in A})
    /\ DroppedCaches = {[id |-> id, reason |-> "unreachable"] : id \in U}
            \cup UNION {{[id |-> id, reason |-> d.reason] : id \in ToSet(M[d.id])} : d \in D}

LEMMA DoneIsCounted ==
    ASSUME NEW r, Known(r), phase = "done"
    PROVE  /\ Parted(reps, prep.members, Kept)
           /\ Split(tour, drops, ToSet(reps), ToSet(tour), ToSet(drops))
           /\ Counted(prep.members, ToSet(tour), ToSet(drops), ToSet(Selected) \ Kept)
<1> DEFINE M == prep.members
           A == ToSet(tour)
           D == ToSet(drops)
           R == ToSet(reps)
           S == Kept
           U == prep.unreachable
<1>1. tour # <<>> /\ Shares(tour, drops, R) /\ Begun(r) /\ Ready
  BY SharedStops DEF Sharing
<1>2. Parted(reps, M, S) /\ U = ToSet(Selected) \ Kept
  BY <1>1, StateIsMeasured
<1>3. ordered = Expanded
  BY DEF Known, PlannerInv
<1>4. /\ Listing(tour, A) /\ A \in SUBSET R /\ Split(tour, drops, R, A, D)
      /\ D \in SUBSET [id : R, reason : Reasons] /\ Listing(drops, D)
  BY <1>1, SharesAreListed
<1>5. DOMAIN M = R
  BY <1>2 DEF Parted
<1>6. \A x \in R : MembersOf(x) = M[x]
  BY <1>5 DEF MembersOf
<1> HIDE DEF M, A, D, R, S, U
<1>7. Expanded = FlattenSeq([i \in DOMAIN tour |-> M[tour[i]]])
  <2>1. \A i \in DOMAIN tour : tour[i] \in R
    BY <1>4, ListingIsFinite
  <2>2. [i \in DOMAIN tour |-> MembersOf(tour[i])] = [i \in DOMAIN tour |-> M[tour[i]]]
    BY <1>6, <2>1
  <2> QED BY <2>2 DEF Expanded
<1>8. Listing(ordered, UNION {ToSet(M[x]) : x \in A})
  BY <1>1, <1>2, <1>3, <1>4, <1>7, FlattenedListing DEF R
<1>9. DroppedCaches = {[id |-> id, reason |-> "unreachable"] : id \in U}
            \cup UNION {{[id |-> id, reason |-> d.reason] : id \in ToSet(M[d.id])} : d \in D}
  <2> DEFINE of(d) == {[id |-> id, reason |-> d.reason] : id \in ToSet(M[d.id])}
  <2>1. \A i \in DOMAIN drops : drops[i] \in D /\ drops[i].id \in R
    BY <1>4, ListingIsFinite
  <2>2. \A d \in D : \E i \in DOMAIN drops : drops[i] = d
    BY <1>4, ListingIsFinite DEF Listing
  <2>3. ASSUME NEW i \in DOMAIN drops
        PROVE  {[id |-> id, reason |-> drops[i].reason] : id \in ToSet(MembersOf(drops[i].id))}
                 = of(drops[i])
    BY <1>6, <2>1
  <2> DEFINE f == [i \in DOMAIN drops |->
                    {[id |-> id, reason |-> drops[i].reason] : id \in ToSet(MembersOf(drops[i].id))}]
  <2>4. UNION {{[id |-> id, reason |-> drops[i].reason] :
                  id \in ToSet(MembersOf(drops[i].id))} : i \in DOMAIN drops}
          = UNION {of(drops[i]) : i \in DOMAIN drops}
    <3>1. f = [i \in DOMAIN drops |-> of(drops[i])]
      BY <2>3
    <3>2. {f[i] : i \in DOMAIN drops} = {of(drops[i]) : i \in DOMAIN drops}
      <4> HIDE DEF f
      <4> QED BY <3>1
    <3>3. {f[i] : i \in DOMAIN drops} =
            {{[id |-> id, reason |-> drops[i].reason] :
                 id \in ToSet(MembersOf(drops[i].id))} : i \in DOMAIN drops}
      OBVIOUS
    <3> HIDE DEF f, of
    <3> QED BY Zenon, <3>2, <3>3
  <2>5. UNION {of(drops[i]) : i \in DOMAIN drops} = UNION {of(d) : d \in D}
    <3> HIDE DEF of
    <3> QED BY <2>1, <2>2
  <2> QED BY Zenon, <2>4, <2>5 DEF DroppedCaches, U
<1> QED BY <1>2, <1>4, <1>8, <1>9 DEF Counted, M, A, D, R, S, U

\* Each of a set is a stop or is put down, and not both, with one reason.
Answered(ids, stops, ds) ==
    /\ ids \subseteq stops \cup Dropped(ds)
    /\ stops \cap Dropped(ds) = {}
    /\ \A d, e \in ds : d.id = e.id => d = e

LEMMA KeptAreAnswered ==
    ASSUME NEW R, NEW M, NEW S, NEW t, NEW ds, NEW A, NEW D, NEW K, S \subseteq K,
           Parted(R, M, S), Split(t, ds, ToSet(R), A, D), Counted(M, A, D, K \ S)
    PROVE  /\ Answered(K, ToSet(ordered), DroppedCaches)
           /\ ToSet(ordered) \subseteq S /\ Dropped(DroppedCaches) \subseteq K
<1> DEFINE stops == UNION {ToSet(M[x]) : x \in A}
           gone == UNION {{[id |-> id, reason |-> d.reason] : id \in ToSet(M[d.id])} : d \in D}
           cut == {[id |-> id, reason |-> "unreachable"] : id \in K \ S}
           P == ToSet(R)
<1>1. Listing(ordered, stops) /\ DroppedCaches = cut \cup gone
  BY DEF Counted
<1>2. /\ \A x \in P : ToSet(M[x]) \subseteq S
      /\ \A x, y \in P : ToSet(M[x]) \cap ToSet(M[y]) # {} => x = y
      /\ \A c \in S : \E x \in P : c \in ToSet(M[x])
  BY DEF Parted
<1>3. /\ \A d \in D : d.id \in P
      /\ \A d, e \in D : d.id = e.id => d = e
      /\ A \cap Dropped(D) = {} /\ A \cup Dropped(D) = P
  BY DEF Split
<1>4. ToSet(ordered) = stops
  <2> HIDE DEF stops
  <2> QED BY <1>1, ListingIsFinite
<1> HIDE DEF P
<1>5. \A x \in gone : \E d \in D : x.reason = d.reason /\ x.id \in ToSet(M[d.id])
                                   /\ x = [id |-> x.id, reason |-> d.reason]
  OBVIOUS
<1>6. \A d \in D : \A c \in ToSet(M[d.id]) : [id |-> c, reason |-> d.reason] \in gone
  OBVIOUS
<1>7. \A x \in cut : x = [id |-> x.id, reason |-> "unreachable"] /\ x.id \in K \ S
  OBVIOUS
<1>8. \A c \in K \ S : [id |-> c, reason |-> "unreachable"] \in cut
  OBVIOUS
<1>9. \A c \in stops : \E x \in A : c \in ToSet(M[x])
  OBVIOUS
<1>10. \A x \in A : ToSet(M[x]) \subseteq stops
  OBVIOUS
<1> HIDE DEF stops, gone, cut
<1>11. stops \subseteq S
  BY <1>2, <1>3, <1>9
<1>12. \A x \in gone : x.id \in S
  BY <1>2, <1>3, <1>5
<1>13. \A c \in S : c \in stops \/ \E x \in gone : x.id = c
  <2> TAKE c \in S
  <2>1. PICK x \in P : c \in ToSet(M[x])
    BY <1>2
  <2>2. CASE x \in A
    BY <1>10, <2>1, <2>2
  <2>3. CASE x \in Dropped(D)
    <3>1. PICK d \in D : x = d.id
      BY <2>3 DEF Dropped
    <3>2. [id |-> c, reason |-> d.reason] \in gone
      BY <1>6, <2>1, <3>1
    <3> QED BY <3>2
  <2> QED BY <1>3, <2>2, <2>3
<1>14. \A x \in gone : x.id \notin stops
  <2> SUFFICES ASSUME NEW x \in gone, x.id \in stops PROVE FALSE
    OBVIOUS
  <2>1. PICK d \in D : x.id \in ToSet(M[d.id])
    BY <1>5
  <2>2. PICK a \in A : x.id \in ToSet(M[a])
    BY <1>9
  <2>3. a = d.id
    BY <1>2, <1>3, <2>1, <2>2
  <2> QED BY <1>3, <2>2, <2>3 DEF Dropped
<1>15. \A x, y \in gone : x.id = y.id => x = y
  <2> SUFFICES ASSUME NEW x \in gone, NEW y \in gone, x.id = y.id PROVE x = y
    OBVIOUS
  <2>1. PICK d \in D : x.id \in ToSet(M[d.id]) /\ x = [id |-> x.id, reason |-> d.reason]
    BY <1>5
  <2>2. PICK e \in D : y.id \in ToSet(M[e.id]) /\ y = [id |-> y.id, reason |-> e.reason]
    BY <1>5
  <2>3. d = e
    BY <1>2, <1>3, <2>1, <2>2
  <2> QED BY <2>1, <2>2, <2>3
<1>16. Dropped(cut \cup gone) \subseteq K
  BY <1>7, <1>12 DEF Dropped
<1>17. K \subseteq stops \cup Dropped(cut \cup gone)
  <2> SUFFICES ASSUME NEW c \in K, c \notin stops PROVE \E x \in cut \cup gone : x.id = c
    BY DEF Dropped
  <2>1. CASE c \in S
    BY <1>13, <2>1
  <2>2. CASE c \notin S
    <3>1. [id |-> c, reason |-> "unreachable"] \in cut
      BY <1>8, <2>2
    <3> QED BY <3>1
  <2> QED BY <2>1, <2>2
<1>18. stops \cap Dropped(cut \cup gone) = {}
  BY <1>7, <1>11, <1>14 DEF Dropped
<1>19. \A x, y \in cut \cup gone : x.id = y.id => x = y
  BY <1>7, <1>12, <1>15
<1> QED BY <1>1, <1>4, <1>11, <1>16, <1>17, <1>18, <1>19 DEF Answered

\* What was cut off at the cap is added to the report of the solver.
LEMMA CappedAreAnswered ==
    ASSUME NEW K, NEW stops, NEW ds, Answered(K, stops, ds), stops \subseteq K, Dropped(ds) \subseteq K,
           NEW C, C \cap K = {},
           NEW es, es = ds \cup {[id |-> id, reason |-> "candidate-cap"] : id \in C}
    PROVE  Answered(K \cup C, stops, es) /\ Dropped(es) \subseteq K \cup C
<1> DEFINE capped == {[id |-> id, reason |-> "candidate-cap"] : id \in C}
<1>1. \A x \in capped : x = [id |-> x.id, reason |-> "candidate-cap"] /\ x.id \in C
  OBVIOUS
<1>2. \A c \in C : [id |-> c, reason |-> "candidate-cap"] \in capped
  OBVIOUS
<1>3. es = ds \cup capped
  OBVIOUS
<1> HIDE DEF capped
<1>4. Dropped(capped) = C
  <2>1. \A c \in C : \E x \in capped : x.id = c
    <3> TAKE c \in C
    <3>1. [id |-> c, reason |-> "candidate-cap"] \in capped
      BY <1>2
    <3> QED BY <3>1
  <2> QED BY <1>1, <2>1 DEF Dropped
<1>5. Dropped(es) = Dropped(ds) \cup C
  BY <1>3, <1>4 DEF Dropped
<1>6. \A x \in ds : x.id \in K
  BY DEF Dropped
<1>7. \A x, y \in es : x.id = y.id => x = y
  BY <1>1, <1>3, <1>6 DEF Answered
<1> QED BY <1>5, <1>7 DEF Answered

\* What was decided before either planner ran joins what the planner reports.
LEMMA PreplannedAreAnswered ==
    ASSUME NEW K, NEW stops, NEW ds, Answered(K, stops, ds), NEW ids, stops \subseteq ids,
           ids \cap Dropped(preplan) = {}, \A d, e \in preplan : d.id = e.id => d = e
    PROVE  Answered(K \cup Dropped(preplan), stops, WithPreplanDrops(ds))
<1> DEFINE es == WithPreplanDrops(ds)
           more == {d \in preplan : d.id \notin {e.id : e \in ds}}
<1>1. es = ds \cup more
  BY DEF WithPreplanDrops
<1>2. \A d \in more : d \in preplan /\ d.id \notin Dropped(ds)
  BY DEF Dropped
<1>3. \A d \in preplan : d.id \in Dropped(ds) \/ d \in more
  BY DEF Dropped
<1> HIDE DEF es, more
<1>4. Dropped(es) = Dropped(ds) \cup Dropped(preplan)
  BY <1>1, <1>2, <1>3 DEF Dropped
<1>5. \A x, y \in es : x.id = y.id => x = y
  BY <1>1, <1>2 DEF Answered, Dropped
<1> QED BY <1>4, <1>5 DEF Answered, es

\* Whatever happened on the way, a plan that is done says of every candidate
\* that it is a stop, or why it is none.
THEOREM CandidatesAreAnswered == ServiceSpec => []EveryCandidateAnswered
<1> DEFINE Inv == \E r \in Requests : Known(r)
<1>1. ServiceInit => Inv
  BY PlanBegins
<1>2. Inv /\ [ServiceNext]_allVars => Inv'
  <2> SUFFICES ASSUME NEW r \in Requests, Known(r), [ServiceNext]_allVars
               PROVE  \E x \in Requests : Known(x)'
    OBVIOUS
  <2>1. Known(r)'
    BY PlanIsKept
  <2> QED BY <2>1
<1>3. Inv => EveryCandidateAnswered
  <2> SUFFICES ASSUME NEW r \in Requests, Known(r), phase = "done"
               PROVE  LET reported == {d.id : d \in Reported}
                          owed == IF strategy = "solver" \/ CapTruncated = {}
                                  THEN (asked \ Archived) \cup request.ids ELSE ToSet(Selected)
                      IN  /\ owed \subseteq ToSet(ordered) \cup reported
                          /\ ToSet(ordered) \cap reported = {}
                          /\ IsInjective(ordered)
                          /\ \A d, e \in Reported : d.id = e.id => d = e
    BY Zenon DEF EveryCandidateAnswered
  <2> DEFINE K == ToSet(Selected)
             stops == ToSet(ordered)
             ids == request.ids
             C == CapTruncated
             gone == Dropped(preplan)
  <2>1. /\ Parted(reps, prep.members, Kept)
        /\ Split(tour, drops, ToSet(reps), ToSet(tour), ToSet(drops))
        /\ Counted(prep.members, ToSet(tour), ToSet(drops), K \ Kept)
    BY DoneIsCounted
  <2>2. Begun(r)
    BY DEF Known
  <2>3. K \subseteq ids /\ Kept \subseteq K
    BY <2>2, KeptAreMeasured
  <2>4. /\ asked \ Archived \subseteq ids \cup gone /\ ids \cap gone = {}
        /\ \A d, e \in preplan : d.id = e.id => d = e
    BY <2>2 DEF Begun
  <2>5. C \cap K = {} /\ ids = K \cup C
    BY <2>3 DEF CapTruncated
  <2>6. IsInjective(ordered)
    BY <2>1, ListingIsFinite DEF Counted, Listing, IsInjective
  <2>7. /\ Answered(K, stops, DroppedCaches)
        /\ stops \subseteq Kept /\ Dropped(DroppedCaches) \subseteq K
    BY <2>1, <2>3, KeptAreAnswered
  <2>8. SolverDrops = DroppedCaches \cup {[id |-> id, reason |-> "candidate-cap"] : id \in C}
    BY DEF SolverDrops
  <2>9. Dropped(Reported) = {d.id : d \in Reported}
    BY DEF Dropped
  <2> HIDE DEF K, stops, ids, C
  <2>10. Answered(ids, stops, SolverDrops)
    <3>1. stops \subseteq K
      BY <2>3, <2>7
    <3>2. Answered(K \cup C, stops, SolverDrops)
      BY <2>5, <2>7, <2>8, <3>1, CappedAreAnswered
    <3> QED BY <2>5, <3>2
  <2>11. stops \subseteq ids
    BY <2>3, <2>7
  <2>12. CASE strategy = "solver"
    <3>1. Answered(ids \cup gone, stops, WithPreplanDrops(SolverDrops))
      BY <2>4, <2>10, <2>11, PreplannedAreAnswered
    <3>2. Answered(ids \cup gone, stops, Reported)
      BY <2>12, <3>1 DEF Reported
    <3> QED BY <2>4, <2>6, <2>9, <2>12, <3>2 DEF Answered, stops, ids
  <2>13. CASE strategy # "solver"
    <3>1. Answered(K \cup gone, stops, WithPreplanDrops(DroppedCaches))
      BY <2>4, <2>7, <2>11, PreplannedAreAnswered
    <3>2. Answered(K \cup gone, stops, Reported)
      BY <2>13, <3>1 DEF Reported
    <3>3. C = {} => ids = K
      BY <2>5
    <3> QED BY <2>4, <2>6, <2>9, <2>13, <3>2, <3>3 DEF Answered, stops, ids, K, C
  <2> QED BY <2>12, <2>13
<1> QED
  <2> HIDE DEF Inv
  <2> QED BY <1>1, <1>2, <1>3, PTL DEF ServiceSpec

----------------------------------------------------------------------------
(***************************************************************************)
(* The legs of a finished plan.  They come group by group as the stops do: *)
(* each leads to its stop, from the one before.                            *)
(***************************************************************************)

Weaves(ls, ms, before) ==
    /\ Len(ls) = Len(ms) /\ Len(ms) \in Nat \ {0}
    /\ \A i \in 1..Len(ms) : ls[i].to = ms[i] /\ ls[i].from = IF i = 1 THEN before ELSE ms[i - 1]

\* Woven up to a stop, with a leg among them.
WeavesTo(ls, ms, before, last, leg) ==
    /\ Weaves(ls, ms, before)
    /\ ms[Len(ms)] = last
    /\ \E i \in 1..Len(ls) : ls[i] = leg

LEMMA WeavesJoin ==
    ASSUME NEW V, NEW W, NEW g \in Seq(V), NEW h \in Seq(V), NEW l \in Seq(W), NEW m \in Seq(W),
           NEW before, Weaves(l, g, before), Weaves(m, h, g[Len(g)])
    PROVE  WeavesTo(l \o m, g \o h, before, h[Len(h)], m[1])
<1> DEFINE a == Len(g)
           b == Len(h)
           ls == l \o m
           ms == g \o h
<1>1. /\ a \in Nat \ {0} /\ b \in Nat \ {0} /\ Len(l) = a /\ Len(m) = b
      /\ \A i \in 1..a : l[i].to = g[i] /\ l[i].from = IF i = 1 THEN before ELSE g[i - 1]
      /\ \A i \in 1..b : m[i].to = h[i] /\ m[i].from = IF i = 1 THEN g[a] ELSE h[i - 1]
  BY DEF Weaves
<1>2. /\ ls \in Seq(W) /\ Len(ls) = a + b
      /\ \A i \in 1..(a + b) : ls[i] = IF i <= a THEN l[i] ELSE m[i - a]
  <2> HIDE DEF a, b
  <2>1. /\ l \o m \in Seq(W) /\ Len(l \o m) = Len(l) + Len(m)
        /\ \A i \in 1..(Len(l) + Len(m)) :
              (l \o m)[i] = IF i <= Len(l) THEN l[i] ELSE m[i - Len(l)]
    BY ConcatProperties
  <2> QED BY <1>1, <2>1
<1>3. /\ ms \in Seq(V) /\ Len(ms) = a + b
      /\ \A i \in 1..(a + b) : ms[i] = IF i <= a THEN g[i] ELSE h[i - a]
  BY ConcatProperties
<1> HIDE DEF a, b, ls, ms
<1>4. ASSUME NEW i \in 1..(a + b)
      PROVE  ls[i].to = ms[i] /\ ls[i].from = IF i = 1 THEN before ELSE ms[i - 1]
  <2>1. CASE i <= a
    <3>1. i \in 1..a /\ ls[i] = l[i] /\ ms[i] = g[i]
      BY <1>1, <1>2, <1>3, <2>1
    <3>2. i # 1 => ms[i - 1] = g[i - 1]
      <4>1. i # 1 => i - 1 \in 1..(a + b) /\ i - 1 <= a
        BY <1>1, <2>1
      <4> QED BY <1>3, <4>1
    <3> QED BY <1>1, <3>1, <3>2
  <2>2. CASE ~(i <= a)
    <3>1. /\ i - a \in 1..b /\ ls[i] = m[i - a] /\ ms[i] = h[i - a]
          /\ i # 1 /\ i - 1 \in 1..(a + b)
      BY <1>1, <1>2, <1>3, <2>2
    <3>2. CASE i - a = 1
      <4>1. i - 1 = a
        BY <1>1, <3>2
      <4>2. ms[i - 1] = g[a]
        BY <1>1, <1>3, <3>1, <4>1
      <4> QED BY <1>1, <3>1, <3>2, <4>2
    <3>3. CASE i - a # 1
      <4>1. ~(i - 1 <= a) /\ (i - 1) - a = (i - a) - 1
        BY <1>1, <3>1, <3>3
      <4>2. ms[i - 1] = h[(i - a) - 1]
        BY <1>3, <3>1, <4>1
      <4> QED BY <1>1, <3>1, <3>3, <4>2
    <3> QED BY <3>2, <3>3
  <2> QED BY <2>1, <2>2
<1>5. ms[a + b] = h[b]
  <2>1. a + b \in 1..(a + b) /\ ~(a + b <= a) /\ (a + b) - a = b
    BY <1>1
  <2> QED BY <1>3, <2>1
<1>6. ls[a + 1] = m[1] /\ a + 1 \in 1..(a + b)
  <2>1. a + 1 \in 1..(a + b) /\ ~(a + 1 <= a) /\ (a + 1) - a = 1
    BY <1>1
  <2> QED BY <1>2, <2>1
<1>7. a + b \in Nat \ {0}
  BY <1>1
<1>8. Weaves(ls, ms, before)
  BY <1>2, <1>3, <1>4, <1>7 DEF Weaves
<1> QED BY <1>2, <1>3, <1>5, <1>6, <1>8 DEF WeavesTo, ls, ms, b

\* What is woven group by group is woven throughout.
LEMMA GroupsWeave ==
    ASSUME NEW n \in Nat \ {0}, NEW V, NEW W, NEW gs \in [1..n -> Seq(V)], NEW ls \in [1..n -> Seq(W)],
           NEW before,
           \A k \in 1..n : Weaves(ls[k], gs[k], IF k = 1 THEN before ELSE gs[k - 1][Len(gs[k - 1])])
    PROVE  /\ FlattenSeq(ls) \in Seq(W) /\ FlattenSeq(gs) \in Seq(V)
           /\ WeavesTo(FlattenSeq(ls), FlattenSeq(gs), before, gs[n][Len(gs[n])], ls[n][1])
<1>1. PICK u : Joins(u, n, gs, V) /\ FlattenSeq(gs) = u[n]
  BY FlattenUnfolds
<1>2. PICK v : Joins(v, n, ls, W) /\ FlattenSeq(ls) = v[n]
  BY FlattenUnfolds
<1> DEFINE T == {k \in 1..n : WeavesTo(v[k], u[k], before, gs[k][Len(gs[k])], ls[k][1])}
<1>3. 1 \in T
  <2>1. u[1] = gs[1] /\ v[1] = ls[1] /\ 1 \in 1..n
    BY <1>1, <1>2 DEF Joins
  <2>2. Weaves(ls[1], gs[1], before)
    BY <2>1
  <2>3. 1 \in 1..Len(ls[1])
    BY <2>2 DEF Weaves
  <2> QED BY <2>1, <2>2, <2>3 DEF WeavesTo
<1>4. ASSUME NEW k \in 2..n, k - 1 \in T PROVE k \in T
  <2>1. k \in 1..n /\ k - 1 \in 1..n /\ k # 1
    OBVIOUS
  <2>2. u[k] = u[k - 1] \o gs[k] /\ v[k] = v[k - 1] \o ls[k]
    BY <1>1, <1>2 DEF Joins
  <2>3. /\ u[k - 1] \in Seq(V) /\ gs[k] \in Seq(V) /\ v[k - 1] \in Seq(W) /\ ls[k] \in Seq(W)
    BY <1>1, <1>2, <2>1 DEF Joins
  <2>4. Weaves(v[k - 1], u[k - 1], before) /\ u[k - 1][Len(u[k - 1])] = gs[k - 1][Len(gs[k - 1])]
    BY <1>4 DEF WeavesTo
  <2>5. Weaves(ls[k], gs[k], u[k - 1][Len(u[k - 1])])
    BY <2>1, <2>4
  <2> DEFINE g == u[k - 1]
             h == gs[k]
             l == v[k - 1]
             m == ls[k]
  <2> HIDE DEF g, h, l, m
  <2>6. /\ g \in Seq(V) /\ h \in Seq(V) /\ l \in Seq(W) /\ m \in Seq(W)
        /\ Weaves(l, g, before) /\ Weaves(m, h, g[Len(g)])
    BY <2>3, <2>4, <2>5 DEF g, h, l, m
  <2>7. WeavesTo(l \o m, g \o h, before, h[Len(h)], m[1])
    BY <2>6, WeavesJoin
  <2> QED BY <2>1, <2>2, <2>7 DEF g, h, l, m
<1>5. n \in T
  <2> HIDE DEF T
  <2> QED BY <1>3, <1>4, AllJoined
<1>6. u[n] \in Seq(V) /\ v[n] \in Seq(W)
  BY <1>1, <1>2 DEF Joins
<1> QED BY <1>1, <1>2, <1>5, <1>6

\* The legs of one group.
Arrival(j) ==
    IF j = 1 THEN [from |-> lot, to |-> MembersOf(tour[1])[1], way |-> Head(routed)]
    ELSE [from |-> Last(MembersOf(tour[j - 1])), to |-> MembersOf(tour[j])[1],
          way |-> InterLeg(j - 1)]
Inner(g, m) == [from |-> g[m], to |-> g[m + 1], way |-> ZeroLeg(g[m], g[m + 1])]

LEMMA GroupLegsWeave ==
    ASSUME NEW j, NEW g, g = MembersOf(tour[j]), NEW V, g \in Seq(V), g # <<>>
    PROVE  LET ls == GroupLegs(j)
           IN  /\ Weaves(ls, g, IF j = 1 THEN lot ELSE Last(MembersOf(tour[j - 1])))
               /\ ls \in Seq(ToSet(ls)) /\ ls[1] = Arrival(j)
               /\ \A x \in ToSet(ls) : x = Arrival(j) \/ \E m \in 1..(Len(g) - 1) : x = Inner(g, m)
<1> DEFINE n == Len(g)
           q == [m \in 1..(n - 1) |-> Inner(g, m)]
           ls == <<Arrival(j)>> \o q
           W == {Arrival(j)} \cup {Inner(g, m) : m \in 1..(n - 1)}
<1>1. GroupLegs(j) = ls
  BY DEF GroupLegs, Arrival, Inner
<1>2. n \in Nat \ {0} /\ n - 1 \in Nat
  BY LenProperties, EmptySeq
<1> HIDE DEF n
<1>3. q \in [1..(n - 1) -> W]
  OBVIOUS
<1>4. q \in Seq(W) /\ Len(q) = n - 1
  <2> HIDE DEF q, W
  <2> QED BY <1>2, <1>3, LenOfFunction
<1>5. <<Arrival(j)>> \in Seq(W) /\ Len(<<Arrival(j)>>) = 1
  OBVIOUS
<1>6. /\ ls \in Seq(W) /\ Len(ls) = n
      /\ \A i \in 1..n : ls[i] = IF i <= 1 THEN Arrival(j) ELSE q[i - 1]
  <2> DEFINE p == <<Arrival(j)>>
  <2>1. p \in Seq(W) /\ Len(p) = 1 /\ p[1] = Arrival(j)
    BY <1>5
  <2> HIDE DEF p, q, W
  <2>2. /\ p \o q \in Seq(W) /\ Len(p \o q) = 1 + (n - 1)
        /\ \A i \in 1..(1 + (n - 1)) : (p \o q)[i] = IF i <= 1 THEN p[i] ELSE q[i - 1]
    <3>1. /\ p \o q \in Seq(W) /\ Len(p \o q) = Len(p) + Len(q)
          /\ \A i \in 1..(Len(p) + Len(q)) :
                (p \o q)[i] = IF i <= Len(p) THEN p[i] ELSE q[i - Len(p)]
      BY <1>4, <2>1, ConcatProperties
    <3> QED BY <1>4, <2>1, <3>1
  <2>3. 1 + (n - 1) = n
    BY <1>2
  <2>4. \A i \in 1..n : i <= 1 => i = 1
    BY <1>2
  <2> QED BY <2>1, <2>2, <2>3, <2>4 DEF p
<1> HIDE DEF ls
<1>7. ls[1] = Arrival(j) /\ \A i \in 2..n : ls[i] = Inner(g, i - 1)
  <2>1. 1 \in 1..n
    BY <1>2
  <2>2. \A i \in 2..n : i \in 1..n /\ ~(i <= 1) /\ i - 1 \in 1..(n - 1)
    BY <1>2
  <2>3. \A k \in 1..(n - 1) : q[k] = Inner(g, k)
    OBVIOUS
  <2> HIDE DEF q
  <2> QED BY <1>6, <2>1, <2>2, <2>3
<1>8. /\ Arrival(j).to = g[1]
      /\ Arrival(j).from = IF j = 1 THEN lot ELSE Last(MembersOf(tour[j - 1]))
  BY DEF Arrival
<1>9. ASSUME NEW i \in 1..n
      PROVE  /\ ls[i].to = g[i]
             /\ ls[i].from = IF i = 1 THEN IF j = 1 THEN lot ELSE Last(MembersOf(tour[j - 1]))
                             ELSE g[i - 1]
  <2>1. CASE i = 1
    BY <1>7, <1>8, <2>1
  <2>2. CASE i # 1
    <3>1. i \in 2..n /\ (i - 1) + 1 = i
      BY <1>2, <2>2
    <3>2. ls[i] = Inner(g, i - 1)
      BY <1>7, <3>1
    <3> QED BY <2>2, <3>1, <3>2 DEF Inner
  <2> QED BY <2>1, <2>2
<1>10. Weaves(ls, g, IF j = 1 THEN lot ELSE Last(MembersOf(tour[j - 1])))
  BY <1>2, <1>6, <1>9 DEF Weaves, n
<1>11. ls \in Seq(ToSet(ls)) /\ ToSet(ls) \subseteq W
  <2> HIDE DEF W
  <2>1. DOMAIN ls = 1..n /\ \A i \in 1..n : ls[i] \in W
    BY <1>2, <1>6, LenProperties, ElementOfSeq
  <2>2. ls \in [1..n -> ToSet(ls)]
    BY <1>2, <1>6, <2>1, LenProperties DEF ToSet
  <2>3. n \in Nat
    BY <1>2
  <2>4. ls \in Seq(ToSet(ls))
    BY <2>2, <2>3, LenOfFunction
  <2> QED BY <2>1, <2>4 DEF ToSet
<1> QED BY <1>1, <1>7, <1>10, <1>11 DEF n

LEMMA ZeroLegIsOffered ==
    ASSUME NEW a, NEW b
    PROVE  IsOffered(ZeroLeg(a, b)) /\ ZeroLeg(a, b).along = <<a, b>>
<1> DEFINE q == [metres |-> 0, spots |-> <<{a}, {b}>>]
           z == ZeroLeg(a, b)
           t == IF MaxDetour < SevereDetour THEN SevereDetour ELSE MaxDetour
<1>1. z.along = <<a, b>> /\ z.route = q /\ z.offered = <<q>> /\ z.selected = 1
  BY DEF ZeroLeg
<1>2. q.metres = 0 /\ t \in Nat
  BY LoopLegsAssumption
<1> HIDE DEF q, z, t
<1>3. WithinDetour(q, q, t)
  BY <1>2 DEF WithinDetour
<1>4. DOMAIN <<q>> = {1} /\ <<q>>[1] = q
  OBVIOUS
<1>5. IsOffered(z)
  BY <1>1, <1>3, <1>4 DEF IsOffered, t
<1> QED BY <1>1, <1>5 DEF z

RepOf(id) ==
    IF id = lot THEN lot ELSE CHOOSE x \in ToSet(tour) : id \in ToSet(MembersOf(x))

\* A leg that is offered, between the representatives of its ends or within a
\* group.
Connects(x) ==
    /\ IsOffered(x.way)
    /\ \/ x.way.along = <<RepOf(x.from), RepOf(x.to)>>
       \/ x.way.along = <<x.from, x.to>> /\ RepOf(x.from) = RepOf(x.to)

\* What a finished plan is made of.
Grouped(S) ==
    /\ Len(tour) \in Nat \ {0} /\ lot \notin S
    /\ \A j \in 1..Len(tour) :
          LET g == MembersOf(tour[j])
          IN  /\ g \in Seq(S) /\ g # <<>> /\ Len(g) \in Nat \ {0}
              /\ \A m \in 1..Len(g) : g[m] \in S /\ RepOf(g[m]) = tour[j]

LEMMA DoneIsGrouped ==
    ASSUME NEW r, Known(r), phase = "done"
    PROVE  Grouped(Kept)
<1> DEFINE M == prep.members
           A == ToSet(tour)
           R == ToSet(reps)
           S == Kept
           n == Len(tour)
<1>1. /\ tour # <<>> /\ Listing(tour, A) /\ Begun(r) /\ Ready /\ Kept \subseteq Candidates(r)
      /\ Shares(tour, drops, R)
  BY SharedStops DEF Sharing
<1>2. Parted(reps, M, S)
  BY <1>1, StateIsMeasured
<1>3. A \subseteq R
  BY <1>1, SharesAreListed
<1>4. lot \in ParkingPlaces
  BY DEF Known, PlannerInv, Placed
<1>5. lot \notin S
  BY <1>1, <1>4, RequestsAreMeasured DEF Begun
<1>6. n \in Nat \ {0} /\ \A j \in 1..n : tour[j] \in A
  BY <1>1, ListingIsFinite, EmptySeq
<1>7. /\ DOMAIN M = R
      /\ \A x \in R : Listing(M[x], ToSet(M[x])) /\ ToSet(M[x]) \subseteq S /\ M[x] # <<>>
      /\ \A x, y \in R : ToSet(M[x]) \cap ToSet(M[y]) # {} => x = y
  BY <1>2 DEF Parted
<1>8. \A x \in R : MembersOf(x) = M[x]
  BY <1>7 DEF MembersOf
<1> HIDE DEF M, A, R, S, n
<1>9. ASSUME NEW j \in 1..n
      PROVE  LET g == MembersOf(tour[j])
             IN  /\ g \in Seq(S) /\ g # <<>> /\ Len(g) \in Nat \ {0}
                 /\ \A m \in 1..Len(g) : g[m] \in S /\ RepOf(g[m]) = tour[j]
  <2> DEFINE x == tour[j]
             g == M[x]
             G == ToSet(g)
  <2>1. x \in A /\ x \in R /\ MembersOf(x) = g
    BY <1>3, <1>6, <1>8
  <2>2. Listing(g, G) /\ G \subseteq S /\ g # <<>>
    BY <1>7, <2>1
  <2>3. \A y \in A : G \cap ToSet(M[y]) # {} => x = y
    BY <1>3, <1>7, <2>1
  <2>4. \A y \in A : MembersOf(y) = M[y]
    BY <1>3, <1>8
  <2> HIDE DEF g, G, x
  <2>5. Len(g) \in Nat /\ g \in [1..Len(g) -> G] /\ G # {}
    BY <2>2, ListingIsFinite
  <2>6. g \in [1..Len(g) -> S]
    BY <2>2, <2>5
  <2>7. g \in Seq(S)
    BY <2>5, <2>6, LenOfFunction
  <2>8. Len(g) # 0
    BY <2>2, <2>7, EmptySeq
  <2>9. ASSUME NEW m \in 1..Len(g) PROVE g[m] \in S /\ RepOf(g[m]) = x
    <3> DEFINE c == g[m]
    <3>1. c \in G /\ c \in S
      BY <2>2, <2>5
    <3>2. c # lot
      BY <1>5, <3>1
    <3> HIDE DEF c
    <3>3. c \in ToSet(MembersOf(x))
      BY <2>1, <3>1 DEF G
    <3>4. \A y \in A : c \in ToSet(MembersOf(y)) => y = x
      <4> SUFFICES ASSUME NEW y \in A, c \in ToSet(MembersOf(y)) PROVE y = x
        OBVIOUS
      <4>1. c \in G \cap ToSet(M[y])
        BY <2>4, <3>1
      <4> QED BY <2>3, <4>1
    <3>5. (CHOOSE y \in A : c \in ToSet(MembersOf(y))) = x
      BY <2>1, <3>3, <3>4
    <3> QED BY <3>1, <3>2, <3>5 DEF RepOf, A, c
  <2> QED BY <2>1, <2>2, <2>5, <2>7, <2>8, <2>9 DEF x
<1> QED BY <1>5, <1>6, <1>9 DEF Grouped, S, n

\* Where no leg is missing there is one to each stop and one back.
Routed ==
    /\ Len(routed) = Len(tour) + 1
    /\ \A i \in 1..(Len(tour) + 1) :
          IsOffered(routed[i]) /\ routed[i].along = <<Stations[i], Stations[i + 1]>>

LEMMA NoneIsMissing ==
    ASSUME Led, Len(tour) \in Nat \ {0}, InterLeg(Len(tour) - 1) # None \/ Len(tour) = 1
    PROVE  Routed
<1> DEFINE n == Len(tour)
<1>1. LegsTo(routed, n + 1, walk, Stations) /\ (n = 1 => Len(routed) = 2)
  BY DEF Led
<1>2. Len(routed) \in Nat /\ Len(routed) <= n + 1
  BY <1>1 DEF LegsTo
<1>3. Len(routed) = n + 1
  <2>1. CASE n = 1
    BY <1>1, <2>1
  <2>2. CASE n # 1
    <3>1. (n - 1) + 1 \in 2..(Len(routed) - 1)
      BY <2>2 DEF InterLeg
    <3> QED BY <1>2, <3>1
  <2> QED BY <2>1, <2>2
<1> HIDE DEF n
<1>4. \A i \in 1..(n + 1) : routed[i].along = <<Stations[i], Stations[i + 1]>> /\ IsOffered(routed[i])
  BY <1>1, <1>3 DEF LegsTo
<1> QED BY <1>3, <1>4 DEF Routed, n

LEMMA ArrivalJoins ==
    ASSUME NEW S, Grouped(S), Routed, NEW A, Listing(tour, A), NEW j \in 1..Len(tour)
    PROVE  Connects(Arrival(j))
<1> DEFINE n == Len(tour)
           g == MembersOf(tour[j])
<1>1. /\ n \in Nat \ {0} /\ Len(routed) = n + 1
      /\ IsOffered(routed[j]) /\ routed[j].along = <<Stations[j], Stations[j + 1]>>
  <2>1. Len(tour) \in Nat \ {0}
    BY DEF Grouped
  <2>2. j \in 1..(Len(tour) + 1)
    BY <2>1
  <2> QED BY <2>1, <2>2 DEF Routed
<1>2. Stations[1] = lot /\ \A p \in 1..n : Stations[p + 1] = tour[p]
  BY StationsAreStops
<1>3. \A k \in 1..n : /\ Len(MembersOf(tour[k])) \in Nat \ {0}
                      /\ \A m \in 1..Len(MembersOf(tour[k])) :
                            RepOf(MembersOf(tour[k])[m]) = tour[k]
  BY DEF Grouped
<1> HIDE DEF n
<1>4. RepOf(g[1]) = tour[j]
  <2>1. 1 \in 1..Len(g) /\ j \in 1..n
    BY <1>3 DEF n
  <2> QED BY <1>3, <2>1
<1>5. CASE j = 1
  <2>1. Head(routed) = routed[1]
    OBVIOUS
  <2>2. /\ Arrival(j).from = lot /\ Arrival(j).to = g[1] /\ Arrival(j).way = routed[j]
    BY <1>5, <2>1 DEF Arrival
  <2>3. RepOf(lot) = lot
    BY DEF RepOf
  <2>4. routed[j].along = <<lot, tour[j]>>
    BY <1>1, <1>2, <1>5 DEF n
  <2> HIDE DEF g
  <2> QED BY <1>1, <1>4, <2>2, <2>3, <2>4 DEF Connects
<1>6. CASE j # 1
  <2> DEFINE h == MembersOf(tour[j - 1])
  <2>1. j - 1 \in 1..n /\ (j - 1) + 1 = j /\ (j - 1) + 1 \in 2..(Len(routed) - 1) /\ j \in 1..n
    BY <1>1, <1>6 DEF n
  <2>2. InterLeg(j - 1) = routed[j]
    BY <2>1 DEF InterLeg
  <2>3. RepOf(Last(h)) = tour[j - 1]
    <3>1. Len(h) \in 1..Len(h) /\ Last(h) = h[Len(h)]
      BY <1>3, <2>1 DEF Last
    <3> QED BY <1>3, <2>1, <3>1
  <2>4. /\ Arrival(j).from = Last(h) /\ Arrival(j).to = g[1] /\ Arrival(j).way = routed[j]
    BY <1>6, <2>2 DEF Arrival
  <2>5. routed[j].along = <<tour[j - 1], tour[j]>>
    BY <1>1, <1>2, <2>1
  <2> HIDE DEF g, h
  <2> QED BY <1>1, <1>4, <2>3, <2>4, <2>5 DEF Connects
<1> QED BY <1>5, <1>6

LEMMA InnerJoins ==
    ASSUME NEW S, Grouped(S), NEW j \in 1..Len(tour), NEW m \in 1..(Len(MembersOf(tour[j])) - 1)
    PROVE  Connects(Inner(MembersOf(tour[j]), m))
<1> DEFINE g == MembersOf(tour[j])
<1>1. Len(g) \in Nat \ {0} /\ \A k \in 1..Len(g) : RepOf(g[k]) = tour[j]
  BY DEF Grouped
<1> HIDE DEF g
<1>2. m \in 1..Len(g) /\ m + 1 \in 1..Len(g)
  BY <1>1 DEF g
<1>3. RepOf(g[m]) = RepOf(g[m + 1])
  BY <1>1, <1>2
<1>4. /\ Inner(g, m).from = g[m] /\ Inner(g, m).to = g[m + 1]
      /\ Inner(g, m).way = ZeroLeg(g[m], g[m + 1])
  BY DEF Inner
<1>5. IsOffered(ZeroLeg(g[m], g[m + 1])) /\ ZeroLeg(g[m], g[m + 1]).along = <<g[m], g[m + 1]>>
  BY ZeroLegIsOffered
<1> QED BY <1>3, <1>4, <1>5 DEF Connects, g

\* The pieces the legs of a plan are put together from.
IsPiece(x) ==
    \E j \in 1..Len(tour) :
        \/ x = Arrival(j)
        \/ \E m \in 1..(Len(MembersOf(tour[j])) - 1) : x = Inner(MembersOf(tour[j]), m)

Strung(l, W, S) ==
    /\ l \in Seq(W) /\ Expanded \in Seq(S) /\ \A x \in W : IsPiece(x)
    /\ WeavesTo(l, Expanded, lot, Last(MembersOf(tour[Len(tour)])), Arrival(Len(tour)))

LEMMA LegsAreStrung ==
    ASSUME NEW S, Grouped(S), NEW A, Listing(tour, A)
    PROVE  \E W : Strung(FlattenSeq([i \in DOMAIN tour |-> GroupLegs(i)]), W, S)
<1> DEFINE n == Len(tour)
           G == [i \in DOMAIN tour |-> MembersOf(tour[i])]
           L == [i \in DOMAIN tour |-> GroupLegs(i)]
           W == UNION {ToSet(GroupLegs(j)) : j \in 1..n}
<1>1. n \in Nat \ {0} /\ DOMAIN tour = 1..n
  BY ListingIsFinite DEF Grouped
<1>2. \A j \in 1..n : MembersOf(tour[j]) \in Seq(S) /\ MembersOf(tour[j]) # <<>>
  BY DEF Grouped
<1>3. \A j \in 1..n : G[j] = MembersOf(tour[j]) /\ L[j] = GroupLegs(j)
  BY <1>1
<1>4. G \in [1..n -> Seq(S)]
  BY <1>1, <1>2
<1>5. DOMAIN L = 1..n /\ L = [j \in 1..n |-> L[j]]
  BY <1>1
<1>6. \A j \in 1..n : \A x \in ToSet(GroupLegs(j)) : x \in W
  OBVIOUS
<1>7. \A x \in W : \E j \in 1..n : x \in ToSet(GroupLegs(j))
  OBVIOUS
<1>8. Expanded = FlattenSeq(G)
  BY DEF Expanded
<1> HIDE DEF G, L, W
<1>9. ASSUME NEW j \in 1..n
      PROVE  LET ls == GroupLegs(j)
             IN  /\ Weaves(ls, G[j], IF j = 1 THEN lot ELSE Last(MembersOf(tour[j - 1])))
                 /\ ls \in Seq(ToSet(ls)) /\ ls[1] = Arrival(j)
                 /\ \A x \in ToSet(ls) : IsPiece(x)
  <2> DEFINE g == MembersOf(tour[j])
  <2>1. g \in Seq(S) /\ g # <<>> /\ G[j] = g
    BY <1>2, <1>3
  <2>2. LET ls == GroupLegs(j)
        IN  /\ Weaves(ls, g, IF j = 1 THEN lot ELSE Last(MembersOf(tour[j - 1])))
            /\ ls \in Seq(ToSet(ls)) /\ ls[1] = Arrival(j)
            /\ \A x \in ToSet(ls) : x = Arrival(j) \/ \E m \in 1..(Len(g) - 1) : x = Inner(g, m)
    BY <2>1, GroupLegsWeave
  <2> QED BY <2>1, <2>2 DEF IsPiece
<1>10. ASSUME NEW j \in 1..n PROVE L[j] \in Seq(W)
  <2> DEFINE ls == GroupLegs(j)
             k == Len(ls)
  <2>1. ls \in Seq(ToSet(ls)) /\ L[j] = ls
    BY <1>3, <1>9
  <2>2. \A x \in ToSet(ls) : x \in W
    BY <1>6
  <2> HIDE DEF ls
  <2>3. k \in Nat /\ ls \in [1..k -> ToSet(ls)]
    BY <2>1, LenProperties
  <2>4. ls \in [1..k -> W]
    BY <2>2, <2>3
  <2> HIDE DEF k
  <2>5. ls \in Seq(W)
    BY <2>3, <2>4, LenOfFunction
  <2> QED BY <2>1, <2>5
<1>11. L \in [1..n -> Seq(W)]
  BY <1>5, <1>10
<1>12. \A j \in 1..n : Weaves(L[j], G[j], IF j = 1 THEN lot ELSE G[j - 1][Len(G[j - 1])])
  <2> TAKE j \in 1..n
  <2>1. Weaves(L[j], G[j], IF j = 1 THEN lot ELSE Last(MembersOf(tour[j - 1])))
    BY <1>3, <1>9
  <2>2. j # 1 => Last(MembersOf(tour[j - 1])) = G[j - 1][Len(G[j - 1])]
    <3>1. j # 1 => j - 1 \in 1..n
      BY <1>1
    <3> QED BY <1>3, <3>1 DEF Last
  <2> QED BY <2>1, <2>2
<1>13. /\ FlattenSeq(L) \in Seq(W) /\ FlattenSeq(G) \in Seq(S)
       /\ WeavesTo(FlattenSeq(L), FlattenSeq(G), lot, G[n][Len(G[n])], L[n][1])
  <2> HIDE DEF n
  <2> QED BY <1>1, <1>4, <1>11, <1>12, GroupsWeave
<1>14. G[n][Len(G[n])] = Last(MembersOf(tour[n])) /\ L[n][1] = Arrival(n)
  <2>1. n \in 1..n
    BY <1>1
  <2> QED BY <1>3, <1>9, <2>1 DEF Last
<1>15. \A x \in W : IsPiece(x)
  BY <1>7, <1>9
<1>16. Strung(FlattenSeq(L), W, S)
  BY <1>8, <1>13, <1>14, <1>15 DEF Strung
<1> QED BY <1>16 DEF L

\* The leg back to parking.
Homeward == [from |-> Last(MembersOf(Last(tour))), to |-> lot, way |-> Last(routed)]

LEMMA HomewardConnects ==
    ASSUME NEW S, Grouped(S), Routed, NEW A, Listing(tour, A)
    PROVE  Connects(Homeward)
<1> DEFINE n == Len(tour)
           g == MembersOf(tour[n])
<1>1. /\ n \in Nat \ {0} /\ Len(g) \in Nat \ {0}
      /\ \A m \in 1..Len(g) : RepOf(g[m]) = tour[n]
  <2>1. n \in 1..n
    BY DEF Grouped
  <2> QED BY <2>1 DEF Grouped
<1>2. /\ Len(routed) = n + 1 /\ IsOffered(routed[n + 1])
      /\ routed[n + 1].along = <<Stations[n + 1], Stations[(n + 1) + 1]>>
  <2>1. n + 1 \in 1..(n + 1)
    BY <1>1
  <2> QED BY <2>1 DEF Routed
<1>3. Stations[n + 2] = lot /\ Stations[n + 1] = tour[n]
  <2>1. n \in 1..n
    BY <1>1
  <2> QED BY <2>1, StationsAreStops
<1>4. Last(tour) = tour[n] /\ Last(g) = g[Len(g)] /\ Last(routed) = routed[n + 1]
  BY <1>2 DEF Last
<1> HIDE DEF g, n
<1>5. RepOf(Last(g)) = tour[n] /\ RepOf(lot) = lot
  <2>1. Len(g) \in 1..Len(g)
    BY <1>1
  <2> QED BY <1>1, <1>4, <2>1 DEF RepOf
<1>6. (n + 1) + 1 = n + 2
  BY <1>1
<1>7. /\ Homeward.from = Last(g) /\ Homeward.to = lot /\ Homeward.way = routed[n + 1]
  BY <1>4 DEF Homeward, g
<1> QED BY <1>2, <1>3, <1>5, <1>6, <1>7 DEF Connects

LEMMA PiecesConnect ==
    ASSUME NEW S, Grouped(S), Routed, NEW A, Listing(tour, A), NEW x, IsPiece(x)
    PROVE  Connects(x)
<1>1. PICK j \in 1..Len(tour) :
        \/ x = Arrival(j)
        \/ \E m \in 1..(Len(MembersOf(tour[j])) - 1) : x = Inner(MembersOf(tour[j]), m)
  BY DEF IsPiece
<1>2. CASE x = Arrival(j)
  BY <1>2, ArrivalJoins
<1>3. CASE \E m \in 1..(Len(MembersOf(tour[j])) - 1) : x = Inner(MembersOf(tour[j]), m)
  BY <1>3, InnerJoins
<1> QED BY <1>1, <1>2, <1>3

\* The legs of a finished plan, place by place from parking to parking.
Chained(places) ==
    /\ Len(legs) = Len(ordered) + 1 /\ DOMAIN legs = 1..Len(legs)
    /\ \A i \in 1..Len(legs) :
          Connects(legs[i]) /\ legs[i].from = places[i] /\ legs[i].to = places[i + 1]

LEMMA DoneIsChained ==
    ASSUME NEW r, Known(r), phase = "done"
    PROVE  Chained(<<lot>> \o ordered \o <<lot>>)
<1> DEFINE S == Kept
           A == ToSet(tour)
           n == Len(tour)
           l == FlattenSeq([i \in DOMAIN tour |-> GroupLegs(i)])
           places == <<lot>> \o ordered \o <<lot>>
           N == Len(ordered)
<1>1. Grouped(S) /\ Listing(tour, A)
  BY DoneIsGrouped, SharedStops DEF Sharing
<1>2. /\ Led /\ ordered = Expanded /\ legs = Append(l, Homeward)
      /\ \A i \in DOMAIN legs : legs[i].way # None
  BY DEF Known, PlannerInv, LegsExpanded, Homeward
<1>3. \E W : Strung(l, W, S)
  BY <1>1, LegsAreStrung
<1> HIDE DEF S, A, l
<1>4. PICK W : Strung(l, W, S)
  BY <1>3
<1>5. /\ l \in Seq(W) /\ ordered \in Seq(S) /\ (\A x \in W : IsPiece(x))
      /\ Weaves(l, ordered, lot) /\ ordered[N] = Last(MembersOf(tour[n]))
      /\ \E i \in 1..Len(l) : l[i] = Arrival(n)
  BY <1>2, <1>4 DEF Strung, WeavesTo
<1>6. /\ Len(l) = N /\ N \in Nat \ {0}
      /\ \A i \in 1..N : l[i].to = ordered[i]
                         /\ l[i].from = IF i = 1 THEN lot ELSE ordered[i - 1]
  BY <1>5 DEF Weaves
<1>7. n \in Nat \ {0} /\ Last(tour) = tour[n]
  BY <1>1 DEF Grouped, Last
<1>8. /\ Len(places) = N + 2 /\ places[1] = lot /\ places[N + 2] = lot
      /\ \A p \in 1..N : places[p + 1] = ordered[p]
  BY <1>5, EndsAround
<1> HIDE DEF places, N, n
<1>9. /\ DOMAIN legs = 1..(N + 1) /\ Len(legs) = N + 1 /\ legs[N + 1] = Homeward
      /\ \A i \in 1..N : legs[i] = l[i]
  BY <1>2, <1>5, <1>6, AppendProperties, LenProperties
<1>10. Routed
  <2>1. PICK i \in 1..N : l[i] = Arrival(n)
    BY <1>5, <1>6
  <2>2. i \in DOMAIN legs /\ legs[i] = Arrival(n)
    BY <1>6, <1>9, <2>1
  <2>3. Arrival(n).way # None
    BY <1>2, <2>2
  <2>4. n = 1 \/ InterLeg(n - 1) # None
    BY <2>3 DEF Arrival
  <2> QED BY <1>2, <1>7, <2>4, NoneIsMissing DEF n
<1>11. ASSUME NEW i \in 1..(N + 1)
       PROVE  Connects(legs[i]) /\ legs[i].from = places[i] /\ legs[i].to = places[i + 1]
  <2>1. CASE i \in 1..N
    <3>1. legs[i] = l[i] /\ l[i] \in W
      BY <1>5, <1>6, <1>9, <2>1, ElementOfSeq
    <3>2. Connects(legs[i])
      BY <1>1, <1>5, <1>10, <3>1, PiecesConnect
    <3>3. legs[i].to = ordered[i] /\ places[i + 1] = ordered[i]
      BY <1>6, <1>8, <2>1, <3>1
    <3>4. legs[i].from = places[i]
      <4>1. CASE i = 1
        BY <1>6, <1>8, <2>1, <3>1, <4>1
      <4>2. CASE i # 1
        <5>1. i - 1 \in 1..N /\ (i - 1) + 1 = i
          BY <1>6, <2>1, <4>2
        <5>2. places[i] = ordered[i - 1]
          BY <1>8, <5>1
        <5> QED BY <1>6, <2>1, <3>1, <4>2, <5>2
      <4> QED BY <4>1, <4>2
    <3> QED BY <3>2, <3>3, <3>4
  <2>2. CASE i \notin 1..N
    <3>1. i = N + 1 /\ N \in 1..N /\ (N + 1) + 1 = N + 2
      BY <1>6, <2>2
    <3>2. Homeward.from = Last(MembersOf(tour[n])) /\ Homeward.to = lot
      BY <1>7 DEF Homeward
    <3>3. Connects(Homeward)
      BY <1>1, <1>10, HomewardConnects
    <3>4. places[N + 1] = ordered[N] /\ places[N + 2] = lot
      BY <1>8, <3>1
    <3> QED BY <1>5, <1>9, <3>1, <3>2, <3>3, <3>4
  <2> QED BY <2>1, <2>2
<1> QED BY <1>9, <1>11 DEF Chained, places, N

\* A plan that is done has one leg more than stops, from parking through the
\* stops and back; each follows a route between the representatives of the two
\* stops it joins, or joins two stops at one place, and is offered with that
\* route selected.
THEOREM LegsAreJoined == ServiceSpec => []LegsJoinTheirStops
<1> DEFINE Inv == \E r \in Requests : Known(r)
<1>1. ServiceInit => Inv
  BY PlanBegins
<1>2. Inv /\ [ServiceNext]_allVars => Inv'
  <2> SUFFICES ASSUME NEW r \in Requests, Known(r), [ServiceNext]_allVars
               PROVE  \E x \in Requests : Known(x)'
    OBVIOUS
  <2>1. Known(r)'
    BY PlanIsKept
  <2> QED BY <2>1
<1>3. Inv => LegsJoinTheirStops
  <2> SUFFICES ASSUME NEW r \in Requests, Known(r), phase = "done"
               PROVE  LegsJoinTheirStops
    BY DEF LegsJoinTheirStops
  <2> DEFINE stops == <<lot>> \o ordered \o <<lot>>
  <2>1. Chained(stops)
    BY DoneIsChained
  <2> HIDE DEF stops
  <2>2. /\ Len(legs) = Len(ordered) + 1
        /\ \A i \in DOMAIN legs :
              /\ legs[i].from = stops[i] /\ legs[i].to = stops[i + 1]
              /\ IsOffered(legs[i].way)
              /\ \/ legs[i].way.along = <<RepOf(stops[i]), RepOf(stops[i + 1])>>
                 \/ /\ legs[i].way.along = <<stops[i], stops[i + 1]>>
                    /\ RepOf(stops[i]) = RepOf(stops[i + 1])
    BY <2>1 DEF Chained, Connects
  <2>3. /\ Len(legs) = Len(ordered) + 1
        /\ \A i \in DOMAIN legs :
              /\ <<legs[i].from, legs[i].to>> = <<stops[i], stops[i + 1]>>
              /\ IsOffered(legs[i].way)
              /\ \/ legs[i].way.along = <<RepOf(stops[i]), RepOf(stops[i + 1])>>
                 \/ /\ legs[i].way.along = <<stops[i], stops[i + 1]>>
                    /\ RepOf(stops[i]) = RepOf(stops[i + 1])
    BY <2>2
  <2> QED BY Zenon, <2>3 DEF LegsJoinTheirStops, RepOf, stops
<1> QED
  <2> HIDE DEF Inv
  <2> QED BY <1>1, <1>2, <1>3, PTL DEF ServiceSpec

----------------------------------------------------------------------------
(* The semaphore. *)

ClientTypes ==
    /\ inFlight \in Nat
    /\ waiters \in Seq(Callers)
    /\ woken \in Seq(Callers)

Promised == inFlight + Len(woken) =< MaxConcurrency

ClientInv == ClientTypes /\ Promised /\ WaitingMeansFull

\* The invariant holds at the start.
LEMMA ClientStarts == OsrmClientInit => ClientInv
BY OsrmClientAssumption
   DEF OsrmClientInit, ClientInv, ClientTypes, Promised, WaitingMeansFull

\* As many calls are let in as there are free slots, and those that are not
\* find none left.
LEMMA GrantedFits ==
    ASSUME ClientInv, NEW calls \in Seq(Callers), woken = <<>>
    PROVE  /\ Granted(calls) \in 0..Len(calls)
           /\ inFlight + Granted(calls) =< MaxConcurrency
           /\ Granted(calls) < Len(calls) => inFlight + Granted(calls) = MaxConcurrency
BY OsrmClientAssumption DEF ClientInv, ClientTypes, Promised, Granted, FreeSlots

\* Calls that arrive keep the invariant.
LEMMA AcquireKeeps ==
    ASSUME ClientInv, NEW calls \in Seq(Callers), Acquire(calls)
    PROVE  ClientInv'
<1> DEFINE g == Granted(calls)
<1>1. woken = <<>> /\ woken' = <<>> BY DEF Acquire
<1>2. /\ g \in 0..Len(calls)
      /\ inFlight + g =< MaxConcurrency
      /\ g < Len(calls) => inFlight + g = MaxConcurrency
  BY <1>1, GrantedFits
<1>3. inFlight' = inFlight + g BY DEF Acquire
<1>4. waiters' = waiters \o SubSeq(calls, g + 1, Len(calls)) BY DEF Acquire
<1> HIDE DEF g
<1>5. SubSeq(calls, g + 1, Len(calls)) \in Seq(Callers) BY <1>2
<1>6. ClientTypes'
  BY <1>1, <1>2, <1>3, <1>4, <1>5 DEF ClientInv, ClientTypes
<1>7. Promised' BY <1>1, <1>2, <1>3, OsrmClientAssumption DEF ClientInv, ClientTypes, Promised
<1>8. WaitingMeansFull'
  <2>1. CASE g < Len(calls)
    BY <2>1, <1>1, <1>2, <1>3, OsrmClientAssumption DEF WaitingMeansFull, ClientInv, ClientTypes
  <2>2. CASE g = Len(calls)
    <3>1. /\ SubSeq(calls, g + 1, Len(calls)) \in Seq(Callers)
          /\ Len(SubSeq(calls, g + 1, Len(calls))) = 0
      BY <2>2, <1>2, <1>5
    <3>2. SubSeq(calls, g + 1, Len(calls)) = <<>> BY <3>1
    <3>3. waiters' = waiters
      <4>1. waiters' = waiters \o <<>> BY <3>2, <1>4
      <4>2. waiters \in Seq(Callers) BY DEF ClientInv, ClientTypes
      <4> QED BY <4>1, <4>2, ConcatEmptySeq
    <3>4. CASE waiters = <<>>
      <4>1. waiters' = <<>> BY <3>3, <3>4
      <4> QED BY <4>1 DEF WaitingMeansFull
    <3>5. CASE waiters # <<>>
      <4>1. inFlight = MaxConcurrency
        BY <3>5, <1>1, OsrmClientAssumption DEF ClientInv, ClientTypes, WaitingMeansFull
      <4>2. g = 0 BY <4>1, <1>2, OsrmClientAssumption DEF ClientInv, ClientTypes
      <4> QED BY <4>1, <4>2, <1>1, <1>3, OsrmClientAssumption DEF WaitingMeansFull
    <3> QED BY <3>4, <3>5
  <2> QED BY <2>1, <2>2, <1>2
<1> QED BY <1>6, <1>7, <1>8 DEF ClientInv

\* A woken waiter takes the slot it was promised.
LEMMA ResumeKeeps ==
    ASSUME ClientInv, Resume
    PROVE  ClientInv'
<1>1. Len(woken') = Len(woken) - 1 /\ woken' \in Seq(Callers) /\ Len(woken) > 0
  BY DEF ClientInv, ClientTypes, Resume
<1>2. inFlight' = inFlight + 1 /\ waiters' = waiters BY DEF Resume
<1> QED
  BY <1>1, <1>2, OsrmClientAssumption
     DEF ClientInv, ClientTypes, Promised, WaitingMeansFull

\* Giving a slot back promises it to the first waiter.
LEMMA ReleaseKeeps ==
    ASSUME ClientInv, NEW call, Release(call), inFlight > 0
    PROVE  ClientInv'
<1>1. woken = <<>> /\ inFlight' = inFlight - 1 BY DEF Release
<1>2. CASE waiters = <<>>
  <2>1. woken' = <<>> /\ waiters' = <<>> BY <1>1, <1>2 DEF Release
  <2> QED
    BY <1>1, <2>1, OsrmClientAssumption
       DEF ClientInv, ClientTypes, Promised, WaitingMeansFull
<1>3. CASE waiters # <<>>
  <2>1. woken' = <<Head(waiters)>> /\ waiters' = Tail(waiters) BY <1>3 DEF Release
  <2>2. Head(waiters) \in Callers /\ Tail(waiters) \in Seq(Callers)
    BY <1>3 DEF ClientInv, ClientTypes
  <2>3. Len(woken') = 1 /\ woken' \in Seq(Callers) BY <2>1, <2>2
  <2>4. inFlight = MaxConcurrency
    BY <1>1, <1>3, OsrmClientAssumption DEF ClientInv, ClientTypes, WaitingMeansFull
  <2> QED
    BY <1>1, <2>1, <2>2, <2>3, <2>4, OsrmClientAssumption
       DEF ClientInv, ClientTypes, Promised, WaitingMeansFull
<1> QED BY <1>2, <1>3

----------------------------------------------------------------------------
(* The counter counts the calls that are with OSRM. *)

\* Every call is at one place.
OnePlace ==
    /\ \A i \in DOMAIN waiters : waiters[i] \notin calling
    /\ \A i \in DOMAIN woken : woken[i] \notin calling
    /\ \A i \in DOMAIN woken, j \in DOMAIN waiters : woken[i] # waiters[j]
    /\ \A i, j \in DOMAIN waiters : waiters[i] = waiters[j] => i = j
    /\ \A i, j \in DOMAIN woken : woken[i] = woken[j] => i = j

SlotsCounted == IsFiniteSet(calling) /\ Cardinality(calling) = inFlight

CountInv == ClientTypes /\ OnePlace /\ SlotsCounted

\* As many different calls are added as slots are taken.
LEMMA AcquireCounts ==
    ASSUME ClientInv, CountInv, NEW calls \in Seq(Callers), Fresh(calls), Acquire(calls)
    PROVE  SlotsCounted'
<1> DEFINE g == Granted(calls)
           New == {calls[i] : i \in 1..g}
           f == [i \in 1..g |-> calls[i]]
<1>1. g \in 0..Len(calls) BY GrantedFits DEF Acquire
<1>2. calling' = calling \cup New /\ inFlight' = inFlight + g BY DEF Acquire
<1> HIDE DEF g
<1>3. f \in Bijection(1..g, New)
  BY <1>1 DEF Fresh, Bijection, Injection, Surjection, IsInjective
<1>4. IsFiniteSet(1..g) /\ Cardinality(1..g) = g BY <1>1, FS_Interval
<1>5. ExistsBijection(1..g, New) BY <1>3 DEF ExistsBijection
<1> HIDE DEF New, f
<1>6. IsFiniteSet(New) /\ Cardinality(New) = g BY <1>4, <1>5, FS_Bijection
<1>7. calling \cap New = {}
  BY <1>1 DEF New, Fresh, Unfinished
<1>8. IsFiniteSet(calling \cup New)
      /\ Cardinality(calling \cup New)
           = Cardinality(calling) + Cardinality(New) - Cardinality(calling \cap New)
  BY <1>6, FS_Union DEF CountInv, SlotsCounted
<1>9. Cardinality(calling \cap New) = 0 BY <1>7, FS_EmptySet
<1>10. IsFiniteSet(calling') /\ Cardinality(calling') = Cardinality(calling) + g
  <2>1. Cardinality(calling) \in Int BY DEF CountInv, ClientTypes, SlotsCounted
  <2> QED BY <1>1, <1>2, <1>6, <1>8, <1>9, <2>1
<1>11. Cardinality(calling) = inFlight BY DEF CountInv, SlotsCounted
<1> QED BY <1>2, <1>10, <1>11 DEF SlotsCounted

\* New calls are nowhere else yet.
LEMMA AcquireSeparates ==
    ASSUME ClientInv, CountInv, NEW calls \in Seq(Callers), Fresh(calls), Acquire(calls)
    PROVE  OnePlace'
<1> DEFINE g == Granted(calls)
           rest == SubSeq(calls, g + 1, Len(calls))
<1>1. g \in 0..Len(calls) BY GrantedFits DEF Acquire
<1>2. /\ woken = <<>> /\ woken' = <<>>
      /\ calling' = calling \cup {calls[i] : i \in 1..g}
      /\ waiters' = waiters \o rest
  BY DEF Acquire
<1> HIDE DEF g
<1>3. /\ rest \in Seq(Callers)
      /\ Len(rest) = Len(calls) - g
      /\ \A k \in 1..Len(rest) : rest[k] = calls[g + k]
  BY <1>1
<1>4. \A k \in DOMAIN calls : /\ calls[k] \notin calling
                              /\ \A i \in DOMAIN waiters : calls[k] # waiters[i]
  BY DEF Fresh, Unfinished
<1> HIDE DEF rest
<1>5. \A i \in DOMAIN waiters' :
        \/ i \in DOMAIN waiters /\ waiters'[i] = waiters[i]
        \/ /\ i - Len(waiters) \in 1..Len(rest)
           /\ waiters'[i] = calls[g + (i - Len(waiters))]
           /\ g + (i - Len(waiters)) \in DOMAIN calls
           /\ g + (i - Len(waiters)) \notin 1..g
  <2>1. waiters \in Seq(Callers) BY DEF CountInv, ClientTypes
  <2>2. Len(waiters) \in Nat /\ DOMAIN waiters = 1..Len(waiters) BY <2>1
  <2>3. Len(rest) \in Nat /\ DOMAIN rest = 1..Len(rest) BY <1>3
  <2>4. /\ DOMAIN waiters' = 1..(Len(waiters) + Len(rest))
        /\ \A i \in 1..(Len(waiters) + Len(rest)) :
             waiters'[i] = IF i =< Len(waiters) THEN waiters[i] ELSE rest[i - Len(waiters)]
    BY <1>2, <1>3, <2>1, ConcatProperties
  <2>5. DOMAIN calls = 1..Len(calls) /\ Len(calls) \in Nat OBVIOUS
  <2> SUFFICES ASSUME NEW i \in 1..(Len(waiters) + Len(rest)), i \notin DOMAIN waiters
               PROVE  /\ i - Len(waiters) \in 1..Len(rest)
                      /\ waiters'[i] = calls[g + (i - Len(waiters))]
                      /\ g + (i - Len(waiters)) \in DOMAIN calls
                      /\ g + (i - Len(waiters)) \notin 1..g
    BY <2>2, <2>4
  <2>6. i \in Int /\ i > Len(waiters) /\ i =< Len(waiters) + Len(rest)
    BY <2>2, <2>3
  <2>7. i - Len(waiters) \in 1..Len(rest) BY <2>2, <2>3, <2>6
  <2>8. waiters'[i] = rest[i - Len(waiters)] BY <2>2, <2>4, <2>6
  <2>9. rest[i - Len(waiters)] = calls[g + (i - Len(waiters))] BY <1>3, <2>7
  <2>10. g + (i - Len(waiters)) \in DOMAIN calls BY <1>1, <1>3, <2>5, <2>7
  <2>11. g + (i - Len(waiters)) \notin 1..g BY <1>1, <2>7
  <2> QED BY <2>7, <2>8, <2>9, <2>10, <2>11
<1>6. \A i \in DOMAIN waiters' : waiters'[i] \notin calling'
  BY <1>1, <1>2, <1>4, <1>5 DEF CountInv, OnePlace, Fresh
<1>7. \A i, j \in DOMAIN waiters' : waiters'[i] = waiters'[j] => i = j
  <2> SUFFICES ASSUME NEW i \in DOMAIN waiters', NEW j \in DOMAIN waiters',
                      waiters'[i] = waiters'[j]
               PROVE  i = j
    OBVIOUS
  <2>1. i \in Int /\ j \in Int /\ Len(waiters) \in Nat
    BY <1>2, <1>3 DEF CountInv, ClientTypes
  <2>2. CASE i \in DOMAIN waiters /\ j \in DOMAIN waiters
    BY <2>2, <1>2, <1>3 DEF CountInv, OnePlace, ClientTypes
  <2>3. CASE i \notin DOMAIN waiters /\ j \notin DOMAIN waiters
    <3>1. calls[g + (i - Len(waiters))] = calls[g + (j - Len(waiters))] BY <2>3, <1>5
    <3>2. g + (i - Len(waiters)) = g + (j - Len(waiters)) BY <3>1, <2>3, <1>5 DEF Fresh
    <3> QED BY <3>2, <2>1, <1>1
  <2>4. CASE i \in DOMAIN waiters /\ j \notin DOMAIN waiters
    <3>1. waiters'[i] = waiters[i] BY <2>4, <1>2, <1>3 DEF CountInv, ClientTypes
    <3> QED BY <3>1, <2>4, <1>4, <1>5
  <2>5. CASE i \notin DOMAIN waiters /\ j \in DOMAIN waiters
    <3>1. waiters'[j] = waiters[j] BY <2>5, <1>2, <1>3 DEF CountInv, ClientTypes
    <3> QED BY <3>1, <2>5, <1>4, <1>5
  <2> QED BY <2>2, <2>3, <2>4, <2>5
<1>8. \A i \in DOMAIN woken' : FALSE BY <1>2
<1> QED BY <1>6, <1>7, <1>8 DEF OnePlace

\* A woken waiter is counted when it makes its request.
LEMMA ResumeCounts ==
    ASSUME CountInv, Resume
    PROVE  SlotsCounted' /\ OnePlace'
<1>1. /\ calling' = calling \cup {Head(woken)} /\ inFlight' = inFlight + 1
      /\ woken' = Tail(woken) /\ waiters' = waiters /\ woken # <<>>
  BY DEF Resume
<1>2. woken \in Seq(Callers) BY DEF CountInv, ClientTypes
<1>3. /\ 1 \in DOMAIN woken /\ Head(woken) = woken[1]
      /\ \A i \in DOMAIN Tail(woken) : i + 1 \in DOMAIN woken /\ Tail(woken)[i] = woken[i + 1]
      /\ \A i \in DOMAIN Tail(woken) : i \in Nat \ {0}
  BY <1>1, <1>2
<1>4. SlotsCounted'
  <2>1. Head(woken) \notin calling BY <1>3 DEF CountInv, OnePlace
  <2> QED BY <1>1, <2>1, FS_AddElement DEF CountInv, SlotsCounted
<1>5. OnePlace'
  <2>1. \A i \in DOMAIN waiters' : waiters'[i] \notin calling'
    BY <1>1, <1>3 DEF CountInv, OnePlace
  <2>2. \A i \in DOMAIN woken' : woken'[i] \notin calling'
    BY <1>1, <1>3 DEF CountInv, OnePlace
  <2>3. \A i \in DOMAIN woken', j \in DOMAIN waiters' : woken'[i] # waiters'[j]
    BY <1>1, <1>3 DEF CountInv, OnePlace
  <2>4. \A i, j \in DOMAIN waiters' : waiters'[i] = waiters'[j] => i = j
    BY <1>1 DEF CountInv, OnePlace
  <2>5. \A i, j \in DOMAIN woken' : woken'[i] = woken'[j] => i = j
    <3> SUFFICES ASSUME NEW i \in DOMAIN woken', NEW j \in DOMAIN woken',
                        woken'[i] = woken'[j]
                 PROVE  i = j
      OBVIOUS
    <3>1. i + 1 = j + 1 BY <1>1, <1>3 DEF CountInv, OnePlace
    <3> QED BY <3>1, <1>1, <1>3
  <2> QED BY <2>1, <2>2, <2>3, <2>4, <2>5 DEF OnePlace
<1> QED BY <1>4, <1>5

\* A call that is over is not counted any more, and its slot was counted.
LEMMA ReleaseCounts ==
    ASSUME CountInv, NEW call, Release(call)
    PROVE  inFlight > 0 /\ SlotsCounted' /\ OnePlace'
<1>1. /\ woken = <<>> /\ call \in calling
      /\ calling' = calling \ {call} /\ inFlight' = inFlight - 1
  BY DEF Release
<1>2. waiters \in Seq(Callers) BY DEF CountInv, ClientTypes
<1>3. inFlight > 0 /\ SlotsCounted'
  <2>1. Cardinality(calling) # 0 BY <1>1, FS_EmptySet DEF CountInv, SlotsCounted
  <2>2. Cardinality(calling') = Cardinality(calling) - 1 /\ IsFiniteSet(calling')
    BY <1>1, FS_RemoveElement DEF CountInv, SlotsCounted
  <2> QED BY <1>1, <2>1, <2>2 DEF CountInv, ClientTypes, SlotsCounted
<1>4. OnePlace'
  <2>1. CASE waiters = <<>>
    <3>1. woken' = <<>> /\ waiters' = <<>> BY <1>1, <2>1 DEF Release
    <3> QED BY <3>1 DEF OnePlace
  <2>2. CASE waiters # <<>>
    <3>1. woken' = <<Head(waiters)>> /\ waiters' = Tail(waiters) BY <2>2 DEF Release
    <3>2. /\ 1 \in DOMAIN waiters /\ Head(waiters) = waiters[1]
          /\ \A i \in DOMAIN Tail(waiters) :
               i + 1 \in DOMAIN waiters /\ Tail(waiters)[i] = waiters[i + 1]
          /\ \A i \in DOMAIN Tail(waiters) : i \in Nat \ {0}
      BY <1>2, <2>2
    <3>3. \A i \in DOMAIN woken' : i = 1 /\ woken'[i] = waiters[1]
      BY <3>1, <3>2
    <3>4. \A i \in DOMAIN waiters' : waiters'[i] \notin calling'
      BY <1>1, <3>1, <3>2 DEF CountInv, OnePlace
    <3>5. \A i \in DOMAIN woken' : woken'[i] \notin calling'
      BY <1>1, <3>2, <3>3 DEF CountInv, OnePlace
    <3>6. \A i \in DOMAIN woken', j \in DOMAIN waiters' : woken'[i] # waiters'[j]
      <4> SUFFICES ASSUME NEW j \in DOMAIN waiters', waiters[1] = waiters'[j]
                   PROVE  FALSE
        BY <3>3
      <4>1. 1 = j + 1 BY <3>1, <3>2 DEF CountInv, OnePlace
      <4> QED BY <4>1, <3>1, <3>2
    <3>7. \A i, j \in DOMAIN waiters' : waiters'[i] = waiters'[j] => i = j
      <4> SUFFICES ASSUME NEW i \in DOMAIN waiters', NEW j \in DOMAIN waiters',
                          waiters'[i] = waiters'[j]
                   PROVE  i = j
        OBVIOUS
      <4>1. i + 1 = j + 1 BY <3>1, <3>2 DEF CountInv, OnePlace
      <4> QED BY <4>1, <3>1, <3>2
    <3>8. \A i, j \in DOMAIN woken' : woken'[i] = woken'[j] => i = j BY <3>3
    <3> QED BY <3>4, <3>5, <3>6, <3>7, <3>8 DEF OnePlace
  <2> QED BY <2>1, <2>2
<1> QED BY <1>3, <1>4

----------------------------------------------------------------------------

SemaphoreInv == ClientInv /\ CountInv

\* Both invariants hold at the start and are kept by every step.
LEMMA SemaphoreHolds == OsrmClientSpec => []SemaphoreInv
<1>1. OsrmClientInit => SemaphoreInv
  <2> SUFFICES ASSUME OsrmClientInit PROVE SemaphoreInv
    OBVIOUS
  <2>1. ClientInv BY ClientStarts
  <2>2. SlotsCounted BY FS_EmptySet DEF OsrmClientInit, SlotsCounted
  <2>3. OnePlace BY DEF OsrmClientInit, OnePlace
  <2> QED BY <2>1, <2>2, <2>3 DEF SemaphoreInv, CountInv, ClientInv
<1>2. SemaphoreInv /\ [OsrmClientNext]_clientVars => SemaphoreInv'
  <2> SUFFICES ASSUME SemaphoreInv, [OsrmClientNext]_clientVars PROVE SemaphoreInv'
    OBVIOUS
  <2> USE DEF SemaphoreInv
  <2>1. ASSUME NEW calls \in Seq(Callers), Fresh(calls), Acquire(calls) PROVE SemaphoreInv'
    <3>1. ClientInv' BY <2>1, AcquireKeeps
    <3>2. SlotsCounted' /\ OnePlace' BY <2>1, AcquireCounts, AcquireSeparates
    <3> QED BY <3>1, <3>2 DEF CountInv, ClientInv
  <2>2. ASSUME Resume PROVE SemaphoreInv'
    <3>1. ClientInv' BY <2>2, ResumeKeeps
    <3>2. SlotsCounted' /\ OnePlace' BY <2>2, ResumeCounts
    <3> QED BY <3>1, <3>2 DEF CountInv, ClientInv
  <2>3. ASSUME NEW call \in Callers, Release(call) PROVE SemaphoreInv'
    <3>1. inFlight > 0 /\ SlotsCounted' /\ OnePlace' BY <2>3, ReleaseCounts
    <3>2. ClientInv' BY <2>3, <3>1, ReleaseKeeps
    <3> QED BY <3>1, <3>2 DEF CountInv, ClientInv
  <2>4. CASE UNCHANGED clientVars
    BY <2>4 DEF clientVars, CountInv, ClientInv, ClientTypes, Promised, WaitingMeansFull,
       OnePlace, SlotsCounted
  <2> QED BY <2>1, <2>2, <2>3, <2>4 DEF OsrmClientNext
<1> QED BY <1>1, <1>2, PTL DEF OsrmClientSpec

\* However calls arrive, fail and are woken, no more than OSRM_MAX_CONCURRENCY
\* are with OSRM.
THEOREM CapIsKept == OsrmClientSpec => []CapHolds
<1>1. SemaphoreInv => CapHolds
  BY OsrmClientAssumption DEF SemaphoreInv, ClientInv, ClientTypes, Promised, CapHolds
<1> QED BY <1>1, SemaphoreHolds, PTL

\* A call waits only while every slot is taken or promised: the semaphore
\* loses no wake-up.
THEOREM NoWakeUpIsLost == OsrmClientSpec => []WaitingMeansFull
<1>1. SemaphoreInv => WaitingMeansFull BY DEF SemaphoreInv, ClientInv
<1> QED BY <1>1, SemaphoreHolds, PTL

=============================================================================

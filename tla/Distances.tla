----------------------------- MODULE Distances -----------------------------
(***************************************************************************)
(* Walking distances in whole metres.  Infinity stands for null in a       *)
(* matrix and for Number.POSITIVE_INFINITY, which it becomes in sums.      *)
(***************************************************************************)
EXTENDS Integers

CONSTANT Infinity    \* above every finite sum of the instance

ASSUME InfinityAssumption == Infinity \in Nat \ {0}

Plus(a, b) == IF a >= Infinity \/ b >= Infinity THEN Infinity ELSE a + b

\* after - before: Infinity - Infinity is NaN, which no comparison accepts.
Delta(before, after) ==
    IF before < Infinity THEN after - before
    ELSE IF after < Infinity THEN -Infinity ELSE 0

=============================================================================

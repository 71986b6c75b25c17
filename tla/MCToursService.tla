--------------------------- MODULE MCToursService ---------------------------
(***************************************************************************)
(* Constants of ToursService for TLC: caches 1 and 2 are a linear          *)
(* adventure; 3, 4 and 6 another, with the archived stage 9; 5 and 7 are   *)
(* plain caches, 8 is somebody else's; 11 to 15 are plain caches for the   *)
(* greedy planner, 16 is somebody else's.                                  *)
(***************************************************************************)
EXTENDS ToursService

CONSTANTS P, Q, A, B

Lots == {P, Q, Centroid, Snap, User}

Adventures1 == [c \in 1..16 |->
    CASE c \in {1, 2} -> A [] c \in {3, 4, 6, 9} -> B [] OTHER -> None]
Stages1 == [c \in 1..16 |->
    CASE c \in {1, 4} -> 1 [] c \in {2, 3, 13} -> 2 [] c \in {6, 12} -> 3 [] c = 9 -> 4
      [] OTHER -> Infinity]
Offers1 == [pq |-> <<P>>, osm |-> <<Q, P>>, road |-> <<Q>>]

Ask(ids, walk_, budget, whole, interleave, mode, preference) ==
    [ids |-> ids, walk |-> walk_, budget |-> budget, whole |-> whole,
     interleave |-> interleave, mode |-> mode, preference |-> preference, near |-> {}]

----------------------------------------------------------------------------
(* Adventures.  Caches and parking lie along a road; OSRM has no route to  *)
(* what is further off than 50, and from Q there is none to position 9.    *)

Along(world, p) == CASE p \in 1..9 -> world[p] [] p = P -> 1 [] p = Q -> 6 [] OTHER -> 4

RoadWalk(world) ==
    [a \in 1..9 \cup Lots |-> [b \in 1..9 \cup Lots |->
        LET d == IF Along(world, a) <= Along(world, b) THEN Along(world, b) - Along(world, a)
                 ELSE Along(world, a) - Along(world, b)
        IN  IF d > 50 \/ (a = Q /\ b \in 1..9 /\ world[b] = 9) THEN Infinity ELSE d]]

\* In the second world the second stage of the linear adventure comes first,
\* and two stages are at one spot; in the third either adventure has stages in
\* two groups out of reach of each other; in the fourth most of the other
\* adventure is across a river; in the last a stage is at the far end.
Worlds ==
    <<<<1, 4, 2, 6, 7, 3, 9, 0, 0>>,
      <<5, 2, 8, 8, 6, 7, 10, 0, 0>>,
      <<1, 22, 3, 20, 24, 23, 26, 0, 0>>,
      <<1, 3, 4, 7, 5, 82, 9, 0, 0>>,
      <<2, 9, 4, 6, 4, 10, 6, 0, 0>>>>

World(n) == RoadWalk(Worlds[n])

SolverRequests ==
    {Ask(ids, World(n), b, w, i, "auto", "auto") :
        ids \in {{1, 3}, {1, 5, 7}}, n \in 1..5, b \in {10, 14, 18, 60},
        w \in BOOLEAN, i \in BOOLEAN}
        \cup {Ask({1, 3, 4, 5, 7}, World(n), 20, w, TRUE, "auto", "parking-waypoint") :
                n \in 1..5, w \in BOOLEAN}
        \cup {Ask({1, 5, 7}, World(n), 18, TRUE, TRUE, "auto", p) :
                n \in 1..5, p \in {"osm-parking", "osrm-nearest-road", "user-supplied-point"}}
        \cup {Ask(ids, World(1), 14, TRUE, TRUE, m, "auto") :
                ids \in {{5, 7}, {5, 7, 9}, {1, 5, 8}, {5, 8}}, m \in {"auto", "greedy", "solver"}}

\* Plain caches, with both adventures near, parts of them, or a foreign cache.
AugmentRequests ==
    {[Ask(ids, World(n), 18, TRUE, TRUE, "auto", "auto") EXCEPT !.near = near] :
        n \in 1..5, ids \in {{5, 7}, {5, 8}}, near \in {1..9, {1, 3, 9}}}

----------------------------------------------------------------------------
(* Plain caches 11 to 16.  P lies at the first two; Q is near too, but cut *)
(* off from the fourth.  The distances of the six pairs of the first four  *)
(* are the digits of a number; the others are next to the first.  Of a     *)
(* one-way pair only the ascent is known.                                  *)

Plain == 11..16

FromLot(l, c) ==
    CASE l = P -> IF c < 13 THEN 1 ELSE 4
      [] l = Q -> IF c = 14 THEN Infinity ELSE 2
      [] OTHER -> 5

Pairs == <<{11, 12}, {11, 13}, {11, 14}, {12, 13}, {12, 14}, {13, 14}>>
Digits == <<1, 3, 9, Infinity>>

Between(n, a, b) ==
    IF a > 14 \/ b > 14 THEN (IF 11 \in {a, b} THEN 3 ELSE 9)
    ELSE LET i == CHOOSE i \in 1..6 : Pairs[i] = {a, b}
         IN  Digits[((n \div 4^(i - 1)) % 4) + 1]

PairWalk(n, oneWay) ==
    [a \in Plain \cup Lots |-> [b \in Plain \cup Lots |->
        CASE a = b -> 0
          [] a \in Plain /\ b \in Plain /\ a # b ->
                IF {a, b} \in oneWay /\ a > b THEN Infinity ELSE Between(n, a, b)
          [] a \in Plain /\ b \notin Plain -> FromLot(b, a)
          [] a \notin Plain /\ b \in Plain -> FromLot(a, b)
          [] OTHER -> Infinity]]

Asked(ids, worlds, oneWay, budgets, preferences) ==
    {Ask(ids, PairWalk(n, oneWay), b, FALSE, FALSE, "greedy", p) :
        n \in worlds, b \in budgets, p \in preferences}

Fourfold == {n \in 0..4095 : n % 8 = 5}
Some == {n \in Fourfold : n % 64 = 21}

Preferences == {"auto", "osm-parking", "osrm-nearest-road", "parking-waypoint",
                "user-supplied-point"}

\* The last is 12 to 16, of which 16 is somebody else's.
GreedyRequests ==
    Asked(11..14, Fourfold, {}, {8, 14}, {"auto"})
        \cup Asked(11..14, Some, {{11, 12}, {13, 14}}, {14}, Preferences)
        \cup Asked(11..16, Some, {{12, 13}}, {14}, {"auto"})
        \cup Asked(12..16, {21}, {}, {14}, {"auto"})

MCRequests == SolverRequests \cup AugmentRequests \cup GreedyRequests

----------------------------------------------------------------------------
(* Streets.  A longer walk leads over the one main street; OSRM also knows *)
(* a street of its own that is little longer, and a way round that is too  *)
(* long.  A point to the side leads through a yard.                        *)

Way(metres, spots) == [metres |-> metres, spots |-> spots]

MCAlternatives(w, a, b) ==
    CASE w[a][b] >= Infinity -> <<>>
      [] w[a][b] < 3 -> <<Way(w[a][b], <<{a}, {b}>>)>>
      [] w[a][b] \in 3..6 ->
            <<Way(w[a][b], <<{a}, {}, {b}>>), Way(w[a][b] + 1, <<{a}, {a, b}, {b}>>),
              Way(2 * w[a][b], <<{a}, {b}>>)>>
      [] OTHER -> <<Way(w[a][b], <<{a}, {}, {b}>>)>>

MCVia(w, a, b) ==
    <<Way(w[a][b] + 2, <<{a}, {a, b, Snap}, {b}>>), Way(3 * w[a][b], <<{a}, {b}>>)>>

=============================================================================

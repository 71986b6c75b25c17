---------------------------- MODULE MCDiscovery ----------------------------
(***************************************************************************)
(* Constants of Discovery for TLC.  Caches 7 and 8 are stages of an        *)
(* adventure.  Distances are multiples of 60 so that 1/d is exact.         *)
(***************************************************************************)
EXTENDS Discovery

CONSTANTS R1, R2, X

CacheIds == 1..8
Adventures == [c \in CacheIds |-> IF c \in {7, 8} THEN X ELSE None]

Far == 60000

\* Walks along the line, with detours of 60 metres in one direction, no way
\* between the two banks of a river, and what else is different.
Walks1(at, river, other) ==
    [a \in CacheIds |-> [b \in CacheIds |->
        IF <<a, b>> \in DOMAIN other THEN other[<<a, b>>]
        ELSE IF (at[a] < river) # (at[b] < river) THEN NoRoute
        ELSE Apart(at, a, b) + (IF a > b /\ at[a] < 600 THEN 60 ELSE 0)]]

Nothing == [p \in Pairs |-> None]
Warm(walk) == [p \in Pairs |-> walk[p[1]][p[2]]]
Half(walk) == [p \in Pairs |-> IF p[1] < p[2] THEN walk[p[1]][p[2]] ELSE None]

World(at, walk, stored, q1, q2) ==
    [at |-> at, walk |-> walk, stored |-> stored,
     queries |-> [r \in Requests |-> IF r = R1 THEN q1 ELSE q2]]

Ask(strategy, minSize, budget) ==
    [strategy |-> strategy, selection |-> "eom", minSize |-> minSize, budget |-> budget,
     topN |-> 5, center |-> 0, radius |-> 3000, grow |-> FALSE, hidden |-> {}, labs |-> TRUE,
     k |-> 3, maxLink |-> 720, symmetry |-> "or", floor |-> 1, explains |-> {}]

\* Two requests for four caches; the others are out of reach.
Few == <<0, 120, 240, 480, Far, Far + 9000, Far + 18000, Far + 27000>>
FewWalk == Walks1(Few, 400, <<1, 3>> :> 0)
Small(strategy) == [Ask(strategy, 2, 2400) EXCEPT !.radius = 600]
Concurrent ==
    {World(Few, walk, stored, Small("hdbscan-star"), q) :
        walk \in {FewWalk, Walks1(Few, Far, <<>>)}, stored \in {Nothing, Half(FewWalk)},
        q \in {[Small("components") EXCEPT !.hidden = {4}],
               [Small("components") EXCEPT !.center = 240, !.radius = 180, !.budget = 240, !.grow = TRUE]}}

\* One request, everything stored: the shapes the strategies tell apart.
Villages == <<0, 60, 120, 480, 540, 660, 1260, 1380>>
Street == <<0, 120, 240, 360, 480, 600, 720, 840>>
Banks == <<0, 60, 180, 240, 420, 480, 600, 1500>>
Nested == <<0, 60, 180, 240, 600, 660, 780, 840>>
Row == <<0, 660, 1320, 1980, 2040, 2100, 2160, 2220>>
Layouts ==
    {<<Row, Walks1(Row, Far, <<>>)>>,
     <<Villages, Walks1(Villages, Far, <<>>)>>,
     <<Street, Walks1(Street, Far, <<2, 3>> :> 720 @@ <<3, 2>> :> 660)>>,
     <<Banks, Walks1(Banks, 200, <<3, 4>> :> 600)>>,
     <<Nested, Walks1(Nested, Far, <<1, 2>> :> 0)>>}
Single ==
    {World(l[1], l[2], Warm(l[2]),
           [Ask(s, m, b) EXCEPT !.symmetry = y, !.floor = 2, !.topN = IF b = 600 THEN 2 ELSE 5], None) :
        l \in Layouts, m \in {2, 3, 4}, b \in {600, 1500, 6000}, y \in {"or", "mutual"},
        s \in {"components", "dbscan", "hdbscan", "hdbscan-star"}}
    \cup
    {World(l[1], l[2], Warm(l[2]),
           [Ask("hdbscan-star", 2, 6000) EXCEPT !.selection = "leaf", !.labs = FALSE, !.k = k], None) :
        l \in Layouts, k \in {1, 2, 3}}

\* A cache with three neighbours that are each nearest to it, and the same
\* with a pool that leaves a neighbour out.
Star == <<0, 60, -420, 720, Far, Far + 9000, Far + 18000, Far + 27000>>
StarWalk == Walks1(Star, Far, <<1, 3>> :> 480 @@ <<3, 1>> :> 480 @@ <<1, 2>> :> 60 @@ <<2, 1>> :> 60
                               @@ <<1, 4>> :> 720 @@ <<4, 1>> :> 720 @@ <<4, 2>> :> 900)
Stars ==
    {World(Star, StarWalk, Warm(StarWalk),
           [Ask("leiden", 2, 6000) EXCEPT !.k = 1, !.maxLink = 1500, !.hidden = h, !.minSize = m], None) :
        h \in {{}, {2}}, m \in {2, 3}}

\* A selection explained while clusters are discovered, and a selection with
\* a cache that is not in the pool.
Explained ==
    {World(Few, walk, stored, Small(s), [Small(s) EXCEPT !.explains = S]) :
        walk \in {FewWalk}, stored \in {Nothing}, s \in {"components"}, S \in {{1, 2, 3}, {1, 2, 3, 4}}}
    \cup
    {World(l[1], l[2], Warm(l[2]), Ask(s, 2, b), [Ask(s, 2, b) EXCEPT !.explains = S]) :
        l \in Layouts, b \in {1500}, s \in {"hdbscan-star"}, S \in {{1, 2, 3}, {2, 8}}}

MCCallers == Requests \X CacheIds
MCSweep == <<4, 14>>

\* A circle with one cache in it, and one with none.
Lonely ==
    {World(Few, FewWalk, Warm(FewWalk),
           [Small("components") EXCEPT !.radius = 60, !.hidden = h], None) : h \in {{}, {1}}}

MCScenarios == Concurrent \cup Single \cup Stars \cup Lonely \cup Explained

Weights == [d \in 0..1500 |->
    CASE d =< 60 -> 14 [] d \in 61..480 -> 6 [] d \in 481..720 -> 4 [] OTHER -> 1]

=============================================================================

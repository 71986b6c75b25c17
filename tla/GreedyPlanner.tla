---------------------------- MODULE GreedyPlanner ----------------------------
(***************************************************************************)
(* GreedyTspPlanner.planLoop: from a set of caches to a closed walk that   *)
(* starts and ends at a parking place.                                     *)
(*                                                                         *)
(*   filter, close and collapse the walking matrix; solve the cycle (on    *)
(*   the worker pool, TwoOpt); choose parking; trim what does not fit the  *)
(*   budget, re-solving after every drop; rotate; route the legs; drop     *)
(*   fringe stops, re-solving and re-routing; expand co-located stops.     *)
(*                                                                         *)
(* Coordinates are left out: the index the solver starts from (the cache   *)
(* nearest to the centroid, or to the parking) is any of those at hand.    *)
(***************************************************************************)
EXTENDS LoopLegs, TwoOpt

CONSTANTS
    Owned,           \* the caches of the caller
    Stage,           \* stageSequence of a cache, Infinity where it has none
    Offering,        \* the parking places of each source, in a sequence
    Requests,        \* [ids, walk, preference, budget], more for a solver
    Centroid, Snap, User,  \* parking places no source offers
    MaxLoopCaches,   \* MAX_LOOP_CACHES
    MaxFringe,       \* POST_TRIM_MAX_ITERS
    FringeTrim,      \* fringeTrimMeters
    OutlierFactor,   \* PLANNER_MARGINAL_OUTLIER_FACTOR
    Huge,            \* Number.MAX_SAFE_INTEGER
    None,
    Faults           \* of {"osrm", "pool"}

\* Where a walk may start.
ParkingPlaces ==
    {Centroid, Snap, User} \cup UNION {ToSet(Offering[source]) : source \in {"pq", "osm", "road"}}

ASSUME PlannerAssumption ==
    /\ Huge \in Nat
    /\ MaxLoopCaches \in Nat
    /\ Offering \in [{"pq", "osm", "road"} -> Seq(ParkingPlaces)]

VARIABLES
    request,   \* the input, and the walking matrix of its places
    phase,
    prep,      \* reps, members, dist, unreachable
    tour,      \* representatives in visiting order
    lot,       \* the parking place
    drops,     \* [id, reason] of dropped representatives
    trims,     \* fringe drops so far
    routed,    \* the legs that OSRM could route, from parking to parking
    legs,      \* the legs of the expanded loop
    ordered,   \* orderedCacheIds
    error      \* None, or why the request failed

plannerVars ==
    <<request, phase, prep, tour, lot, drops, trims, routed, legs, ordered, error>>
vars == <<plannerVars, solverVars>>

\* What /table answers, the rows and columns of the parking places with it.
walk == request.walk
reps == prep.reps
dist == prep.dist

PlannerInit ==
    /\ request \in Requests
    /\ phase = "requested"
    /\ prep = [reps |-> <<>>, members |-> <<>>, dist |-> <<>>, unreachable |-> {}]
    /\ tour = <<>>
    /\ lot = None
    /\ drops = <<>>
    /\ trims = 0
    /\ routed = <<>>
    /\ legs = <<>>
    /\ ordered = <<>>
    /\ error = None

Init == PlannerInit /\ SolverInit

Fails(what) == phase' = "failed" /\ error' = what

----------------------------------------------------------------------------

\* new Set, sort, slice
Selected == SubSeq(Sorted(request.ids), 1, Less(MaxLoopCaches, Cardinality(request.ids)))

Kept == LargestComponent(walk, ToSet(Selected))

\* The matrix solveTwoOpt is given for a list of representatives.
MatrixOf(ids, cell(_, _)) ==
    [i \in DOMAIN ids |-> [j \in DOMAIN ids |-> cell(ids[i], ids[j])]]

Direct(a, b) == Metres(dist, a, b)
Finite(a, b) == IF Direct(a, b) < Infinity THEN Direct(a, b) ELSE Huge

CannotLoop == ~(ToSet(Selected) \subseteq Owned) \/ Cardinality(Kept) < 2

\* nearestCacheIndexTo the centroid, or the parking place.
NearestIndexes(ids) == DOMAIN ids

\* Filter, close, collapse.
Prepared ==
    LET d == Closure(walk, Kept)
    IN  [reps |-> Representatives(d, Kept, Stage), members |-> Members(d, Kept, Stage),
         dist |-> d, unreachable |-> ToSet(Selected) \ Kept]

Prepare ==
    /\ phase = "requested"
    /\ IF CannotLoop
       THEN Fails("404") /\ UNCHANGED <<prep, solverVars>>
       ELSE /\ prep' = Prepared
            /\ \E s \in NearestIndexes(prep'.reps) :
                  Call(MatrixOf(prep'.reps, LAMBDA a, b : Metres(prep'.dist, a, b)), s)
            /\ phase' = "solving"
            /\ UNCHANGED error
    /\ UNCHANGED <<request, tour, lot, drops, trims, routed, legs, ordered>>

\* The ids the solver was given, in the order it found.
Solved(ids) == [p \in DOMAIN order |-> ids[order[p]]]

CycleSolved ==
    /\ phase = "solving"
    /\ tour' = Solved(reps)
    /\ Collect
    /\ phase' = "parking"
    /\ UNCHANGED <<request, prep, lot, drops, trims, routed, legs, ordered, error>>

----------------------------------------------------------------------------
(* selectParking *)

MinWalk(c) == Min({walk[c][id] : id \in ToSet(reps)})

\* pickLoopAwareParking: reachable within the cap, then the lot that adds
\* least to the cycle, the first of equals.
LoopAware(choices) ==
    LET cost(i) == BestInsertionCost(dist, walk, choices[i], tour)
        feasible == {i \in DOMAIN choices : MinWalk(choices[i]) <= MaxLink /\ cost(i) < Infinity}
    IN  IF feasible = {} THEN None
        ELSE choices[CHOOSE i \in feasible : \A j \in feasible :
                        cost(i) < cost(j) \/ (cost(i) = cost(j) /\ i <= j)]

Sources ==
    CASE request.preference = "auto" -> <<"pq", "osm", "road">>
      [] request.preference = "osm-parking" -> <<"osm">>
      [] request.preference = "osrm-nearest-road" -> <<"road">>
      [] request.preference = "parking-waypoint" -> <<"pq">>
      [] request.preference = "user-supplied-point" -> <<>>

\* What is used when no source yields a start: the caller's own point, the
\* centroid snapped to a road (or not, when there is none), the centroid.
Fallback ==
    CASE request.preference = "user-supplied-point" -> {User}
      [] request.preference = "osrm-nearest-road" -> {Snap, Centroid}
      [] OTHER -> {Centroid}

\* offers: a failing car_roads query counts as no offer from that source.
Offers == {Offering, [Offering EXCEPT !.road = <<>>]}

SelectParking ==
    /\ phase = "parking"
    /\ \E offers \in Offers :
          LET found == [i \in DOMAIN Sources |-> LoopAware(offers[Sources[i]])]
          IN  IF \E i \in DOMAIN Sources : found[i] # None
              THEN lot' = found[Min({i \in DOMAIN Sources : found[i] # None})]
              ELSE lot' \in Fallback
    /\ phase' = "trimming"
    /\ UNCHANGED <<request, prep, tour, drops, trims, routed, legs, ordered, error, solverVars>>

----------------------------------------------------------------------------
(* trimMarginalCaches, budget aware; w holds the walks from and to parking. *)

\* What a stop adds to the loop; None where it may not be dropped because a
\* distance is missing.
Marginal(w, p) ==
    LET n == Len(tour)
        in == IF p = 1 THEN w[lot][tour[1]] ELSE Direct(tour[p - 1], tour[p])
        out == IF p = n THEN w[tour[n]][lot] ELSE Direct(tour[p], tour[p + 1])
        skip == CASE p = 1 -> w[lot][tour[2]]
                  [] p = n -> w[tour[n - 1]][lot]
                  [] OTHER -> Direct(tour[p - 1], tour[p + 1])
    IN  IF skip >= Infinity \/ (p \in {1, n} /\ Plus(in, out) >= Infinity) THEN None
        ELSE IF Plus(in, out) >= Infinity THEN Infinity ELSE in + out - skip

\* The endpoints are looked at first.
Rank(p) == CASE p = 1 -> 1 [] p = Len(tour) -> 2 [] OTHER -> p + 1

Droppable(w) == {p \in DOMAIN tour : Marginal(w, p) # None}

Worst(w) ==
    CHOOSE p \in Droppable(w) : \A q \in Droppable(w) :
        \/ Marginal(w, q) < Marginal(w, p)
        \/ Marginal(w, q) = Marginal(w, p) /\ Rank(p) <= Rank(q)

OverBudget(w) == ClosedLoop(dist, w, lot, tour) > request.budget

ShouldDrop(w) ==
    /\ Len(tour) > 2
    /\ Droppable(w) # {}
    /\ Marginal(w, Worst(w)) > IF OverBudget(w) THEN 0 ELSE OutlierFactor * MaxLink

Without(t, p) == SubSeq(t, 1, p - 1) \o SubSeq(t, p + 1, Len(t))

\* The worst stop goes, and the survivors are solved again.
DropWorst(w) ==
    /\ ShouldDrop(w)
    /\ drops' = Append(drops, [id |-> tour[Worst(w)],
                               reason |-> IF OverBudget(w) THEN "budget" ELSE "outlier"])
    /\ tour' = Without(tour, Worst(w))
    /\ Call(MatrixOf(tour', Finite), 1)

TrimDrop ==
    /\ phase = "trimming"
    /\ DropWorst(walk)
    /\ phase' = "trim_solving"
    /\ UNCHANGED <<request, prep, lot, trims, routed, legs, ordered, error>>

TrimSolved ==
    /\ phase = "trim_solving"
    /\ tour' = Solved(tour)
    /\ Collect
    /\ phase' = "trimming"
    /\ UNCHANGED <<request, prep, lot, drops, trims, routed, legs, ordered, error>>

TrimDone ==
    /\ phase = "trimming"
    /\ ~ShouldDrop(walk)
    /\ tour' = RotateForParking(dist, walk, lot, tour)
    /\ phase' = "routing"
    /\ UNCHANGED <<request, prep, lot, drops, trims, routed, legs, ordered, error, solverVars>>

----------------------------------------------------------------------------
(* The legs, and the stops whose way in and way out are the same. *)

\* routeAlternatives answers [] where there is no route: a parking leg fails
\* the request, a leg between caches is left out.  A nudge that fails is none.
Route(next) ==
    /\ IF <<>> \in {Alternatives(walk, lot, tour[1]), Alternatives(walk, Last(tour), lot)}
       THEN Fails("404") /\ UNCHANGED routed
       ELSE /\ \E nudging \in {TRUE, "osrm" \notin Faults} :
                  routed' = LegsPast(walk, <<lot>> \o tour \o <<lot>>, nudging)
            /\ phase' = next
            /\ UNCHANGED error
    /\ UNCHANGED <<request, prep, tour, lot, drops, trims, legs, ordered, solverVars>>

BuildLegs ==
    /\ phase = "routing"
    /\ Route("fringe")

LooksForFringe == Len(tour) > 2 /\ trims < MaxFringe
AllRouted == Len(routed) = Len(tour) + 1

\* The i-th leg between stops, undefined past the end of the array.
InterLeg(i) == IF i + 1 \in 2..(Len(routed) - 1) THEN routed[i + 1] ELSE None

LegIn(p) == IF p = 1 THEN Head(routed) ELSE InterLeg(p - 1)
LegOut(p) == IF p = Len(tour) THEN Last(routed) ELSE InterLeg(p)
Redundant(p) == RedundantMetres(LegIn(p), LegOut(p))

Fringes == {p \in DOMAIN tour : Redundant(p) > FringeTrim}

\* The first of those that retrace most.
WorstFringe ==
    CHOOSE p \in Fringes : \A q \in Fringes :
        Redundant(q) < Redundant(p) \/ (Redundant(q) = Redundant(p) /\ p <= q)

FringeDrop ==
    /\ phase = "fringe"
    /\ LooksForFringe
    /\ AllRouted
    /\ Fringes # {}
    /\ drops' = Append(drops, [id |-> tour[WorstFringe], reason |-> "fringe"])
    /\ tour' = Without(tour, WorstFringe)
    /\ \E s \in NearestIndexes(tour') : Call(MatrixOf(tour', Direct), s)
    /\ trims' = trims + 1
    /\ phase' = "fringe_solving"
    /\ UNCHANGED <<request, prep, lot, routed, legs, ordered, error>>

\* redundantMeters reads the geometry of a leg that is not there.
FringeCrash ==
    /\ phase = "fringe"
    /\ LooksForFringe
    /\ ~AllRouted
    /\ Fails("TypeError")
    /\ UNCHANGED <<request, prep, tour, lot, drops, trims, routed, legs, ordered, solverVars>>

FringeSolved ==
    /\ phase = "fringe_solving"
    /\ tour' = RotateForParking(dist, walk, lot, Solved(tour))
    /\ Collect
    /\ phase' = "routing"
    /\ UNCHANGED <<request, prep, lot, drops, trims, routed, legs, ordered, error>>

----------------------------------------------------------------------------
(* expandColocatedRoute *)

MembersOf(rep) ==
    IF rep \in DOMAIN prep.members THEN prep.members[rep] ELSE <<rep>>

\* Mutant: the arrival leg from the head of the group before.
GroupLegsFromHead(i) ==
    LET group == MembersOf(tour[i])
    IN  <<[from |-> IF i = 1 THEN lot ELSE tour[i - 1], to |-> group[1],
           way |-> IF i = 1 THEN Head(routed) ELSE InterLeg(i - 1)]>>
        \o [m \in 1..(Len(group) - 1) |->
            [from |-> group[m], to |-> group[m + 1], way |-> ZeroLeg(group[m], group[m + 1])]]

\* The leg that arrives at group i, then the short ones inside the group.
GroupLegs(i) ==
    LET group == MembersOf(tour[i])
        arrival ==
            IF i = 1 THEN [from |-> lot, to |-> group[1], way |-> Head(routed)]
            ELSE [from |-> Last(MembersOf(tour[i - 1])), to |-> group[1],
                  way |-> InterLeg(i - 1)]
    IN  <<arrival>> \o [m \in 1..(Len(group) - 1) |->
            [from |-> group[m], to |-> group[m + 1], way |-> ZeroLeg(group[m], group[m + 1])]]

ExpandRoute ==
    /\ ordered' = FlattenSeq([i \in DOMAIN tour |-> MembersOf(tour[i])])
    /\ legs' = Append(FlattenSeq([i \in DOMAIN tour |-> GroupLegs(i)]),
                      [from |-> Last(MembersOf(Last(tour))), to |-> lot, way |-> Last(routed)])
    /\ phase' = "assembling"
    /\ UNCHANGED <<request, prep, tour, lot, drops, trims, routed, error, solverVars>>

Expand ==
    /\ phase = "fringe"
    /\ LooksForFringe => AllRouted /\ Fringes = {}
    /\ ExpandRoute

\* concatLineStrings reads the coordinates of every leg.
Assemble ==
    /\ phase = "assembling"
    /\ IF \A i \in DOMAIN legs : legs[i].way # None
       THEN phase' = "done" /\ UNCHANGED error
       ELSE Fails("TypeError")
    /\ UNCHANGED <<request, prep, tour, lot, drops, trims, routed, legs, ordered, solverVars>>

\* droppedCaches: a representative takes its members along.
DroppedCaches ==
    {[id |-> id, reason |-> "unreachable"] : id \in prep.unreachable}
        \cup UNION {{[id |-> id, reason |-> drops[i].reason] :
                        id \in ToSet(MembersOf(drops[i].id))} : i \in DOMAIN drops}

----------------------------------------------------------------------------
(* A failing OSRM request, or a worker past its limit, fails the plan. *)

OsrmFails ==
    /\ "osrm" \in Faults
    /\ phase \in {"requested", "parking", "trimming", "routing"}
    /\ Fails("osrm")
    /\ UNCHANGED <<request, prep, tour, lot, drops, trims, routed, legs, ordered, solverVars>>

SolverAborts ==
    /\ "pool" \in Faults
    /\ Abort
    /\ Fails("pool")
    /\ UNCHANGED <<request, prep, tour, lot, drops, trims, routed, legs, ordered>>

PlannerStep ==
    \/ Prepare \/ CycleSolved \/ SelectParking
    \/ TrimDrop \/ TrimSolved \/ TrimDone
    \/ BuildLegs \/ FringeDrop \/ FringeCrash \/ FringeSolved
    \/ Expand \/ Assemble

----------------------------------------------------------------------------

\* The legs of a finished plan chain from parking through the stops back to
\* parking, one more than there are stops; each follows a route between the
\* representatives of its two stops, or joins two co-located ones, and is
\* offered with that route selected, however often legs were picked anew.
LegsJoinTheirStops ==
    phase = "done" =>
        LET stops == <<lot>> \o ordered \o <<lot>>
            RepOf(id) == IF id = lot THEN lot
                         ELSE CHOOSE r \in ToSet(tour) : id \in ToSet(MembersOf(r))
        IN  /\ Len(legs) = Len(ordered) + 1
            /\ \A i \in DOMAIN legs :
                  /\ <<legs[i].from, legs[i].to>> = <<stops[i], stops[i + 1]>>
                  /\ IsOffered(legs[i].way)
                  /\ \/ legs[i].way.along = <<RepOf(stops[i]), RepOf(stops[i + 1])>>
                     \/ /\ legs[i].way.along = <<stops[i], stops[i + 1]>>
                        /\ RepOf(stops[i]) = RepOf(stops[i + 1])

\* The walk within the component that a filled cell stands for.
ChainLength(chain) ==
    LET upto[k \in 1..Len(chain)] ==
            IF k = 1 THEN 0
            ELSE IF walk[chain[k - 1]][chain[k]] > MaxLink THEN Infinity
                 ELSE Plus(upto[k - 1], walk[chain[k - 1]][chain[k]])
    IN  upto[Len(chain)]

\* metricClosure fills exactly the pairs without a route, each with the
\* shortest chain of short links, by direction.
ClosureIsShortestWalk ==
    phase = "parking" =>
        \A a, b \in Kept : a # b =>
            IF walk[a][b] < Infinity THEN dist[a][b] = walk[a][b]
            ELSE dist[a][b] = Min({Infinity} \cup
                    {ChainLength(<<a>> \o via \o <<b>>) :
                        via \in UNION {SetToSeqs(S) : S \in SUBSET (Kept \ {a, b})}})

=============================================================================

------------------------------ MODULE LoopLegs ------------------------------
(***************************************************************************)
(* The route of a leg, chosen so that a tour does not walk the same street *)
(* twice: of the alternatives OSRM offers, the one that is shortest when   *)
(* what it retraces counts double; and where that retraces all the same, a *)
(* detour over a point to the side.                                        *)
(*                                                                         *)
(* A route is [metres, spots]: spots are the grid cells of the coordinates *)
(* of its geometry, at least two.  A grid is the set of cells walked so    *)
(* far.  Fractions are in tenths.  OSRM is external: what it offers        *)
(* between two places is a constant.                                       *)
(***************************************************************************)
EXTENDS WalkMatrix

CONSTANTS
    Alternatives(_, _, _),  \* walk, from, to -> the routes OSRM offers, its best first
    Via(_, _, _),           \* walk, from, to -> the routes over a point to the side
    Alpha,                  \* PLANNER_LOOP_ALPHA
    MaxDetour,              \* PLANNER_LOOP_MAX_DETOUR
    NudgeOverlap,           \* PLANNER_LOOP_NUDGE_THRESHOLD
    NudgeLength,            \* metres below which no street runs alongside
    SevereOverlap,          \* PLANNER_LOOP_SEVERE_OVERLAP
    SevereDetour            \* PLANNER_LOOP_SEVERE_MAX_DETOUR

ASSUME LoopLegsAssumption == MaxDetour \in Nat /\ SevereDetour \in Nat /\ Alpha \in Nat

\* What the client of OSRM lets through.
AreRoutes(routes) ==
    /\ routes \in Seq(ToSet(routes))
    /\ \A r \in ToSet(routes) :
          r.metres \in Nat /\ r.spots \in Seq(ToSet(r.spots)) /\ Len(r.spots) >= 2

----------------------------------------------------------------------------

\* OverlapGrid.overlapHits
Hits(grid, r) == Cardinality({i \in DOMAIN r.spots : r.spots[i] \in grid})

\* What a route retraces: as many mean steps as it has hits.
Retraced(grid, r) == Hits(grid, r) * (r.metres \div (Len(r.spots) - 1))

LegScore(grid, r) == r.metres + Alpha * Retraced(grid, r)

WithinDetour(r, primary, tenths) == 10 * r.metres <= (10 + tenths) * primary.metres

\* The best score, and the first of equals.
BestOf(grid, routes, eligible) ==
    CHOOSE i \in eligible : \A j \in eligible :
        \/ LegScore(grid, routes[i]) < LegScore(grid, routes[j])
        \/ LegScore(grid, routes[i]) = LegScore(grid, routes[j]) /\ i <= j

\* pickLoopAwareLeg
PickLoopAware(grid, routes) ==
    BestOf(grid, routes,
           {i \in DOMAIN routes : i = 1 \/ WithinDetour(routes[i], routes[1], MaxDetour)})

\* Whether the pick retraces so much that a detour is worth asking for.
NeedsNudge(grid, r) ==
    /\ NudgeOverlap < 10
    /\ 10 * Hits(grid, r) >= NudgeOverlap * Len(r.spots)
    /\ r.metres >= NudgeLength

\* The cap is wider where the pick mostly retraces.
NudgeDetour(grid, r) ==
    IF 10 * Hits(grid, r) >= SevereOverlap * Len(r.spots)
    THEN Max({MaxDetour, SevereDetour}) ELSE MaxDetour

\* The detours that beat the pick.
BetterNudges(grid, primary, pick, nudges) ==
    IF ~NeedsNudge(grid, pick) THEN {}
    ELSE {i \in DOMAIN nudges :
            /\ WithinDetour(nudges[i], primary, NudgeDetour(grid, pick))
            /\ LegScore(grid, nudges[i]) < LegScore(grid, pick)}

\* pickAndAccumulate: the leg with the route that was chosen, what the user
\* may choose instead, and where among it the chosen one is.
PickedLeg(grid, along, routes, nudges) ==
    LET best == PickLoopAware(grid, routes)
        better == BetterNudges(grid, routes[1], routes[best], nudges)
        offered(i) == i \in {1, best} \/ WithinDetour(routes[i], routes[1], MaxDetour)
        kept == Sorted({i \in DOMAIN routes : offered(i)})
        accepted == [k \in DOMAIN kept |-> routes[kept[k]]]
    IN  IF better = {}
        THEN [along |-> along, route |-> routes[best], offered |-> accepted,
              selected |-> CHOOSE k \in DOMAIN kept : kept[k] = best]
        ELSE LET nudge == nudges[BestOf(grid, nudges, better)]
             IN  [along |-> along, route |-> nudge, offered |-> Append(accepted, nudge),
                  selected |-> Len(accepted) + 1]

----------------------------------------------------------------------------

\* The grid: OverlapGrid.addLine of every leg so far.
Walked(so) == UNION {ToSet(so[i].route.spots) : i \in DOMAIN so}

\* The legs of a walk past the given places, one after another over one grid;
\* a leg between places without a route is left out.  The legs from and to
\* parking are not nudged, nor is any leg when the requests for it fail.
LegsPast(walk, places, nudging) ==
    LET last == Len(places) - 1
        next(so, i) ==
            LET a == places[i]
                b == places[i + 1]
                nudges == IF nudging /\ i \in 2..(last - 1) THEN Via(walk, a, b) ELSE <<>>
            IN  IF Alternatives(walk, a, b) = <<>> THEN so
                ELSE Append(so, PickedLeg(Walked(so), <<a, b>>, Alternatives(walk, a, b), nudges))
        past[i \in 0..last] == IF i = 0 THEN <<>> ELSE next(past[i - 1], i)
    IN  past[last]

\* redundantMeters: what the way out of a stop retraces of the way in.
RedundantMetres(in, out) == Retraced(ToSet(in.route.spots), out.route)

\* A leg between two stops at one spot is its own only alternative.
ZeroLeg(a, b) ==
    LET r == [metres |-> 0, spots |-> <<{a}, {b}>>]
    IN  [along |-> <<a, b>>, route |-> r, offered |-> <<r>>, selected |-> 1]

----------------------------------------------------------------------------

\* What the map and the edits of a tour rely on: the route of a leg is the one
\* selected of those offered, none is offered that is too long except what was
\* chosen, and no chosen one is too long even where a nudge may be longer.
IsOffered(leg) ==
    LET within(r, tenths) == WithinDetour(r, leg.offered[1], tenths)
    IN  /\ leg.selected \in DOMAIN leg.offered
        /\ leg.route = leg.offered[leg.selected]
        /\ \A i \in DOMAIN leg.offered \ {leg.selected} : within(leg.offered[i], MaxDetour)
        /\ within(leg.route, IF MaxDetour < SevereDetour THEN SevereDetour ELSE MaxDetour)

=============================================================================

------------------------------ MODULE LegPicks ------------------------------
(***************************************************************************)
(* The user's edits to the legs of a planned tour.  A pick names one of    *)
(* the alternatives of a leg or carries a route through a point the user   *)
(* dragged; the picks live beside the plan and are baked into it when it   *)
(* is saved.  A route stands for its geometry, meters and seconds; indices *)
(* count from 1.  The signature of a plan is a field of it, and a pick     *)
(* remembers, as history, the signature of the plan it was made on.        *)
(***************************************************************************)
EXTENDS Naturals, Sequences

CONSTANT None   \* no pick, no plan, no request, no marker

AltPick(i, sig)        == [kind |-> "alt", alt |-> i, on |-> sig]
ViaPick(pos, r, sig)   == [kind |-> "via", via |-> pos, route |-> r, on |-> sig]

IsVia(pick) == pick # None /\ pick.kind = "via"

\* The alternative the pick names, or else the planner's.
AskedIndex(leg, pick) == IF pick # None /\ pick.kind = "alt" THEN pick.alt ELSE leg.sel

\* The route to draw: that of the via point, the alternative asked for, the
\* first one, or, for a leg without alternatives, the leg's own.
Resolve(leg, pick) ==
    IF IsVia(pick) THEN pick.route
    ELSE IF AskedIndex(leg, pick) \in 1..Len(leg.alts) THEN leg.alts[AskedIndex(leg, pick)]
    ELSE IF leg.alts # <<>> THEN leg.alts[1]
    ELSE leg.own

HasEdits(picks) == \E l \in DOMAIN picks : picks[l] # None

\* The legs as the tour layer and the totals resolve them.
Drawn(plan, picks) == [l \in DOMAIN plan.legs |-> Resolve(plan.legs[l], picks[l])]

\* The polyline of the download.
EditedPolyline(plan, picks) ==
    IF ~HasEdits(picks) \/ plan.legs = <<>> THEN plan.line ELSE Drawn(plan, picks)

\* Mutant: an alternative is baked without being selected.
BakedLegUnselected(leg, pick) ==
    LET r == Resolve(leg, pick)
    IN  IF IsVia(pick)
        THEN [leg EXCEPT !.own = r, !.alts = Append(@, r), !.sel = Len(leg.alts) + 1]
        ELSE [leg EXCEPT !.own = r]

\* A via route becomes one more alternative and is selected; an alternative
\* is selected if there is such.
BakedLeg(leg, pick) ==
    LET r == Resolve(leg, pick)
    IN  IF IsVia(pick)
        THEN [leg EXCEPT !.own = r, !.alts = Append(@, r), !.sel = Len(leg.alts) + 1]
        ELSE [leg EXCEPT !.own = r,
                         !.sel = IF AskedIndex(leg, pick) \in 1..Len(leg.alts)
                                 THEN AskedIndex(leg, pick) ELSE @]

ApplyLegEdits(plan, picks) ==
    IF ~HasEdits(picks) \/ plan.legs = <<>> THEN plan
    ELSE [plan EXCEPT !.legs = [l \in DOMAIN plan.legs |-> BakedLeg(plan.legs[l], picks[l])],
                      !.line = EditedPolyline(plan, picks)]

----------------------------------------------------------------------------

\* The pick names an alternative the leg has.
FitsLeg(leg, pick) == pick # None /\ pick.kind = "alt" => pick.alt \in 1..Len(leg.alts)

Fits(plan, picks) == \A l \in DOMAIN plan.legs : FitsLeg(plan.legs[l], picks[l])

=============================================================================

-------------------------- MODULE LegEdits_proofs --------------------------
(***************************************************************************)
(* What LegEdits promises, proved for every set of plans the planner may   *)
(* answer, every set of places and every bound.                            *)
(***************************************************************************)
EXTENDS LegEdits, FiniteSetTheorems, SequenceTheorems, TLAPS

\* A plan whose legs have a number each.
GoodPlans == {p \in Plans : DOMAIN p.legs \subseteq LegNumbers}

\* What is saved shows, without picks, what was shown with them.
Faithfully(s) ==
    s.fit => Drawn(s.plan, NoPicks) = s.drew /\ EditedPolyline(s.plan, NoPicks) = s.drew

SaveOK(s) == s = None \/ (s \in Saves /\ s.plan \in GoodPlans /\ Faithfully(s))

PlansOK ==
    /\ raw \in Planned \cup {None}
    /\ tour \in GoodPlans \cup {None, Loading}
    /\ SaveOK(saved) /\ SaveOK(save)
    /\ tour = Loading => saved # None

Stores == [Signatures \cup {"none"} -> AllPicks \cup {Absent}]

Kept(s) == {k \in Signatures : s[k] # Absent}

\* Only the picks of one plan are kept: those of the plan that is shown, if one is.
KeptOK(s, plan) ==
    /\ plan # None => Kept(s) \subseteq {plan.sig}
    /\ \A j, k \in Kept(s) : j = k

PicksOK ==
    /\ picks \in AllPicks
    /\ store \in Stores
    /\ KeptOK(store, Plan)

\* The throttle: what is pending has been scheduled.
ThrottleOK ==
    /\ bound \in Bounds
    /\ pending \in bound.positions \cup {None}
    /\ scheduled \in BOOLEAN /\ dragging \in BOOLEAN /\ strays \subseteq Strays
    /\ timers \in 0..MaxTimers
    /\ pending # None => dragging /\ scheduled
    /\ scheduled => timers > 0

MarkerTyped ==
    /\ drag \in Markers \cup {None}
    /\ latest \in ViaRoutes \cup {None}
    /\ dragging => drag # None

\* One request at most, the one inflightRef names; the request for a marker
\* without a preview is that of the last render.
RequestsOK ==
    /\ requests \subseteq Requests
    /\ requests \subseteq {inflight}
    /\ drag = None => requests = {} /\ probed = None
    /\ probed # None => probed \in LegNumbers \X Places /\ probed[1] = drag.leg
    /\ \A r \in requests : r.kind = "first" => drag.live = None /\ probed # None
    /\ \A r \in requests : r.ends = drag.ends

\* The last route is the preview, what is asked for is the place of the marker
\* unless a newer place is pending, and with nothing under way the preview is
\* there or is still to be asked for.
Smooth(d, rs, route, place, last) ==
    /\ d.live # None => route = d.live
    /\ place # None => d.pos = place
    /\ \A r \in rs : place = None => r.pos = d.pos
    /\ (place = None /\ rs = {}) =>
          \/ d.live = Route(d.ends, d.pos)
          \/ d.live = None /\ last # <<d.leg, d.pos>>

SmoothOK == (strays = {} /\ drag # None) => Smooth(drag, requests, latest, pending, probed)

MarkerOK == MarkerTyped /\ RequestsOK /\ SmoothOK

IInv == PlansOK /\ PicksOK /\ ThrottleOK /\ MarkerOK

----------------------------------------------------------------------------
(* Rendering the marker. *)

LEMMA MarkerFields ==
    ASSUME NEW d \in Markers
    PROVE  /\ d.leg \in LegNumbers /\ d.ends \in Ends /\ d.pos \in Places
           /\ d.live \in ViaRoutes \cup {None}
           /\ d # None /\ <<d.leg, d.pos>> # None
           /\ <<d.leg, d.pos>>[1] = d.leg
           /\ \A pos \in Places : [d EXCEPT !.pos = pos] \in Markers
           /\ \A route \in ViaRoutes : [d EXCEPT !.live = route] \in Markers
           /\ \A pos \in Places : \A route \in ViaRoutes :
                [d EXCEPT !.pos = pos, !.live = route] \in Markers
<1>. HIDE DEF Places, ViaRoutes, Ends, LegNumbers
<1>1. /\ d.leg \in LegNumbers /\ d.ends \in Ends /\ d.pos \in Places
      /\ d.live \in ViaRoutes \cup {None}
  BY DEF Markers
<1>2. d # None /\ <<d.leg, d.pos>> # None
  BY <1>1, EditsAssumption
<1>3. /\ \A pos \in Places : [d EXCEPT !.pos = pos] \in Markers
      /\ \A route \in ViaRoutes : [d EXCEPT !.live = route] \in Markers
      /\ \A pos \in Places : \A route \in ViaRoutes :
           [d EXCEPT !.pos = pos, !.live = route] \in Markers
  BY DEF Markers
<1>. QED
  BY <1>1, <1>2, <1>3

LEMMA RequestFields ==
    ASSUME NEW kind \in {"first", "move", "final"}, NEW d \in Markers, NEW pos \in Places
    PROVE  /\ Request(kind, d, pos) \in Requests
           /\ Request(kind, d, pos).kind = kind
           /\ Request(kind, d, pos).ends = d.ends
           /\ Request(kind, d, pos).pos = pos
<1>1. d.leg \in LegNumbers /\ d.ends \in Ends
  BY MarkerFields
<1>. QED
  BY <1>1 DEF Request, Requests

\* With one request under way at most, a render keeps it, replaces it by the
\* request for the place of the marker, or drops it if it is such a request.
LEMMA RenderFacts ==
    ASSUME NEW d \in Markers, NEW rs, NEW flying, NEW moving \in BOOLEAN,
           rs \subseteq Requests, rs \subseteq {flying},
           Render(d, rs, flying, moving)
    PROVE  /\ drag' = d
           /\ requests' \subseteq {inflight'}
           /\ probed' = IF d.live = None /\ ~moving THEN <<d.leg, d.pos>> ELSE None
           /\ probed' = probed => requests' = rs
           /\ (probed' # probed /\ probed' # None) => requests' = {Request("first", d, d.pos)}
           /\ (probed' # probed /\ probed' = None) => requests' = {r \in rs : r.kind # "first"}
<1> DEFINE key   == IF d.live = None /\ ~moving THEN <<d.leg, d.pos>> ELSE None
           first == Request("first", d, d.pos)
           kept  == IF key = probed THEN rs ELSE {r \in rs : r.kind # "first"}
           asks  == key # None /\ key # probed
<1>1. /\ drag' = d
      /\ requests' = IF asks THEN Aborted(kept, flying) \cup {first} ELSE kept
      /\ inflight' = IF asks THEN first ELSE IF flying \in kept THEN flying ELSE None
      /\ probed' = key
  BY DEF Render
<1>2. kept \subseteq {flying}
  OBVIOUS
<1>3. Aborted(kept, flying) = {}
  BY <1>2 DEF Aborted
<1>. HIDE DEF key, first, kept, asks
<1>4. requests' \subseteq {inflight'}
  BY <1>1, <1>2, <1>3
<1>5. requests' = IF asks THEN {first} ELSE kept
  BY <1>1, <1>3
<1>. QED
  BY <1>1, <1>4, <1>5 DEF key, first, kept, asks

\* What a render leaves of the facts about the marker.
LEMMA RenderKeeps ==
    ASSUME NEW d \in Markers, NEW rs, NEW flying, NEW moving \in BOOLEAN,
           rs \subseteq Requests, rs \subseteq {flying},
           \A r \in rs : (r.kind = "first" => probed # None) /\ r.ends = d.ends,
           strays' = {} => /\ Smooth(d, rs, latest', pending', probed)
                      /\ \A r \in rs : r.kind = "first" => d.live = None,
           Render(d, rs, flying, moving)
    PROVE  drag' = d /\ RequestsOK' /\ SmoothOK'
<1>1. /\ drag' = d
      /\ requests' \subseteq {inflight'}
      /\ probed' = IF d.live = None /\ ~moving THEN <<d.leg, d.pos>> ELSE None
      /\ probed' = probed => requests' = rs
      /\ (probed' # probed /\ probed' # None) => requests' = {Request("first", d, d.pos)}
      /\ (probed' # probed /\ probed' = None) => requests' = {r \in rs : r.kind # "first"}
  BY RenderFacts
<1>2. /\ d.leg \in LegNumbers /\ d.pos \in Places /\ d # None
      /\ <<d.leg, d.pos>> # None /\ <<d.leg, d.pos>>[1] = d.leg
  BY MarkerFields
<1>3. /\ Request("first", d, d.pos) \in Requests
      /\ Request("first", d, d.pos).ends = d.ends
      /\ Request("first", d, d.pos).pos = d.pos
  BY <1>2, RequestFields
<1>4. requests' \subseteq Requests
  BY <1>1, <1>3
<1>5. probed' # None => probed' \in LegNumbers \X Places /\ probed'[1] = drag'.leg
  BY <1>1, <1>2
<1>6. \A r \in requests' : r.kind = "first" => drag'.live = None /\ probed' # None
  <2>1. CASE probed' = probed
    BY <2>1, <1>1, <1>2
  <2>2. CASE probed' # probed
    BY <2>2, <1>1, <1>2
  <2>. QED
    BY <2>1, <2>2
<1>9. \A r \in requests' : r.ends = drag'.ends
  BY <1>1, <1>3
<1>7. RequestsOK'
  BY <1>1, <1>2, <1>4, <1>5, <1>6, <1>9 DEF RequestsOK
<1>8. SmoothOK'
  <2>. SUFFICES ASSUME strays' = {} PROVE Smooth(d, requests', latest', pending', probed')
    BY <1>1 DEF SmoothOK
  <2>1. /\ Smooth(d, rs, latest', pending', probed)
        /\ \A r \in rs : r.kind = "first" => d.live = None
    OBVIOUS
  <2>2. \A r \in requests' : pending' = None => r.pos = d.pos
    BY <2>1, <1>1, <1>3 DEF Smooth
  <2>3. ASSUME pending' = None, requests' = {}
        PROVE  \/ d.live = Route(d.ends, d.pos)
               \/ d.live = None /\ probed' # <<d.leg, d.pos>>
    <3>1. CASE probed' = probed
      BY <3>1, <2>1, <2>3, <1>1 DEF Smooth
    <3>2. CASE probed' # probed /\ probed' # None
      BY <3>2, <2>3, <1>1
    <3>3. CASE probed' # probed /\ probed' = None
      <4>1. CASE rs = {}
        BY <4>1, <3>3, <2>1, <2>3, <1>2 DEF Smooth
      <4>2. CASE rs # {}
        BY <4>2, <3>3, <2>1, <2>3, <1>1, <1>2
      <4>. QED
        BY <4>1, <4>2
    <3>. QED
      BY <3>1, <3>2, <3>3
  <2>. QED
    BY <2>1, <2>2, <2>3 DEF Smooth
<1>. QED
  BY <1>1, <1>7, <1>8

----------------------------------------------------------------------------
(* The marker, step by step. *)

DragOK == ThrottleOK /\ MarkerOK

LEMMA BoundFields == ThrottleOK => bound.positions \subseteq Places
  BY DEF ThrottleOK, Places

LEMMA NonePlace == None \notin Places /\ None \notin ViaRoutes
  BY EditsAssumption

LEMMA MaxTimersNat == MaxTimers \in Nat
  BY EditsAssumption

\* Without a preview or a request, Smooth asks little.
LEMMA ForgottenKeeps ==
    ASSUME drag' = None, requests' = {}, probed' = None, dragging' = FALSE, latest' = None
    PROVE  MarkerOK'
  BY DEF MarkerOK, MarkerTyped, RequestsOK, SmoothOK

LEMMA MarkerGoneKeeps ==
    ASSUME DragOK, MarkerGone, UNCHANGED bound
    PROVE  DragOK'
<1>1. Aborted(requests, inflight) = {}
  BY DEF DragOK, MarkerOK, RequestsOK, Aborted
<1>2. MarkerOK'
  BY <1>1, ForgottenKeeps DEF MarkerGone
<1>3. ThrottleOK'
  BY DEF DragOK, ThrottleOK, MarkerGone
<1>. QED
  BY <1>2, <1>3 DEF DragOK

LEMMA DragUnchanged ==
    ASSUME DragOK, UNCHANGED dragVars, UNCHANGED bound
    PROVE  DragOK'
  BY DEF DragOK, dragVars, ThrottleOK, MarkerOK, MarkerTyped, RequestsOK, SmoothOK, Smooth

LEMMA StartViaDragKeeps ==
    ASSUME DragOK, Plan # None => Plan \in GoodPlans,
           NEW l \in LegNumbers, StartViaDrag(l)
    PROVE  DragOK'
<1> DEFINE d == [leg |-> l, ends |-> <<Plan.sig, l>>, pos |-> Middle, live |-> None]
<1>1. /\ d \in Markers
      /\ d.leg = l /\ d.pos = Middle /\ d.live = None
  BY DEF StartViaDrag, GoodPlans, Plans, Markers, Ends, Places
<1>. HIDE DEF d
<1>2. /\ Render(d, requests, inflight, FALSE)
      /\ ~dragging /\ (drag # None => drag.leg # l)
      /\ strays' = {}
      /\ UNCHANGED <<pending, scheduled, timers, dragging, latest, bound>>
  BY DEF StartViaDrag, d, Turn
<1>3. ThrottleOK' /\ pending = None
  BY <1>2 DEF DragOK, ThrottleOK
<1>4. /\ drag' = d
      /\ requests' \subseteq {inflight'}
      /\ probed' = <<d.leg, d.pos>>
      /\ (probed' # probed /\ probed' # None) => requests' = {Request("first", d, d.pos)}
  <2>. requests \subseteq Requests /\ requests \subseteq {inflight}
    BY DEF DragOK, MarkerOK, RequestsOK
  <2>. QED
    BY <1>1, <1>2, RenderFacts
<1>5. /\ d.leg \in LegNumbers /\ d.pos \in Places /\ d # None
      /\ <<d.leg, d.pos>> # None /\ <<d.leg, d.pos>>[1] = d.leg
  BY <1>1, MarkerFields
<1>6. probed' # probed /\ probed' # None
  BY <1>1, <1>2, <1>4, <1>5 DEF DragOK, MarkerOK, RequestsOK
<1>7. requests' = {Request("first", d, d.pos)}
  BY <1>4, <1>6
<1>8. /\ Request("first", d, d.pos) \in Requests
      /\ Request("first", d, d.pos).ends = d.ends
      /\ Request("first", d, d.pos).pos = d.pos
  BY <1>1, <1>5, RequestFields
<1>9. RequestsOK'
  BY <1>1, <1>4, <1>5, <1>6, <1>7, <1>8 DEF RequestsOK
<1>10. SmoothOK'
  BY <1>1, <1>2, <1>3, <1>4, <1>7, <1>8 DEF SmoothOK, Smooth
<1>11. MarkerTyped'
  BY <1>1, <1>2, <1>4, <1>5 DEF DragOK, MarkerOK, MarkerTyped
<1>. QED
  BY <1>3, <1>9, <1>10, <1>11 DEF DragOK, MarkerOK

LEMMA MouseDownKeeps ==
    ASSUME DragOK, MouseDown
    PROVE  DragOK'
<1>1. ThrottleOK'
  BY DEF MouseDown, DragOK, ThrottleOK, boundVars
<1>2. MarkerTyped' /\ RequestsOK'
  BY DEF MouseDown, DragOK, MarkerOK, MarkerTyped, RequestsOK
<1>3. SmoothOK'
  BY DEF MouseDown, DragOK, MarkerOK, SmoothOK
<1>. QED
  BY <1>1, <1>2, <1>3 DEF DragOK, MarkerOK

LEMMA RerenderKeeps ==
    ASSUME DragOK, Rerender
    PROVE  DragOK'
<1>1. /\ Render(drag, requests, inflight, dragging)
      /\ drag # None
      /\ UNCHANGED <<pending, scheduled, timers, dragging, latest, strays, bound>>
  BY DEF Rerender, boundVars
<1>2. /\ drag \in Markers /\ dragging \in BOOLEAN
      /\ requests \subseteq Requests /\ requests \subseteq {inflight}
      /\ \A r \in requests : r.kind = "first" => drag.live = None /\ probed # None
      /\ \A r \in requests : r.ends = drag.ends
      /\ strays = {} => Smooth(drag, requests, latest, pending, probed)
  BY <1>1 DEF DragOK, MarkerOK, MarkerTyped, RequestsOK, SmoothOK, ThrottleOK
<1>3. strays' = {} => Smooth(drag, requests, latest', pending', probed)
  BY <1>1, <1>2
<1>4. drag' = drag /\ RequestsOK' /\ SmoothOK'
  BY <1>1, <1>2, <1>3, RenderKeeps
<1>5. MarkerTyped'
  BY <1>1, <1>4 DEF DragOK, MarkerOK, MarkerTyped
<1>6. ThrottleOK'
  BY <1>1 DEF DragOK, ThrottleOK
<1>. QED
  BY <1>4, <1>5, <1>6 DEF DragOK, MarkerOK

LEMMA MouseMoveKeeps ==
    ASSUME DragOK, NEW pos \in bound.positions, MouseMove(pos)
    PROVE  DragOK'
<1> DEFINE d == [drag EXCEPT !.pos = pos]
<1>1. /\ dragging /\ drag # None
      /\ scheduled \/ timers < MaxTimers
      /\ Render(d, requests, inflight, TRUE)
      /\ pending' = pos
      /\ Schedule
      /\ UNCHANGED <<dragging, latest, strays, bound>>
  BY DEF MouseMove, boundVars, DragOK, MarkerOK, MarkerTyped
<1>2. /\ drag \in Markers /\ pos \in Places /\ pos # None
  BY <1>1, BoundFields, NonePlace DEF DragOK, MarkerOK, MarkerTyped
<1>3. /\ d \in Markers /\ d.pos = pos /\ d.live = drag.live
      /\ d.ends = drag.ends /\ d.leg = drag.leg
  BY <1>2, MarkerFields DEF Markers
<1>. HIDE DEF d
<1>4. /\ requests \subseteq Requests /\ requests \subseteq {inflight}
      /\ \A r \in requests : r.kind = "first" => drag.live = None /\ probed # None
      /\ \A r \in requests : r.ends = drag.ends
      /\ strays = {} => Smooth(drag, requests, latest, pending, probed)
  BY <1>1 DEF DragOK, MarkerOK, RequestsOK, SmoothOK
<1>5. strays' = {} => Smooth(d, requests, latest', pending', probed)
  BY <1>1, <1>2, <1>3, <1>4 DEF Smooth
<1>6. drag' = d /\ RequestsOK' /\ SmoothOK'
  BY <1>1, <1>3, <1>4, <1>5, RenderKeeps
<1>7. MarkerTyped'
  BY <1>1, <1>3, <1>6, MarkerFields DEF DragOK, MarkerOK, MarkerTyped
<1>8. ThrottleOK'
  BY <1>1, <1>2, MaxTimersNat DEF DragOK, ThrottleOK, Schedule
<1>. QED
  BY <1>6, <1>7, <1>8 DEF DragOK, MarkerOK

\* The request for a place that was pending stands alone.
LEMMA FireKeeps ==
    ASSUME DragOK, NEW kind \in {"move", "final"}, NEW moving \in BOOLEAN,
           pending # None, drag # None, pending' = None, latest' = latest,
           strays' = {} => strays = {}, Fire(kind, pending, moving)
    PROVE  drag' = drag /\ RequestsOK' /\ SmoothOK'
<1> DEFINE r  == Request(kind, drag, pending)
           rs == Aborted(requests, inflight) \cup {r}
<1>1. drag \in Markers /\ pending \in Places
  BY BoundFields DEF DragOK, ThrottleOK, MarkerOK, MarkerTyped
<1>2. /\ r \in Requests /\ r.kind = kind /\ r.ends = drag.ends /\ r.pos = pending
  BY <1>1, RequestFields
<1>3. rs = {r}
  BY DEF DragOK, MarkerOK, RequestsOK, Aborted
<1>4. Render(drag, rs, r, moving)
  BY DEF Fire
<1>5. strays = {} => Smooth(drag, requests, latest, pending, probed)
  BY DEF DragOK, MarkerOK, SmoothOK
<1>. HIDE DEF r, rs
<1>6. strays' = {} => Smooth(drag, rs, latest', pending', probed)
  BY <1>2, <1>3, <1>5 DEF Smooth
<1>7. /\ rs \subseteq Requests /\ rs \subseteq {r}
      /\ \A x \in rs : (x.kind = "first" => probed # None) /\ x.ends = drag.ends
      /\ \A x \in rs : x.kind = "first" => drag.live = None
  BY <1>2, <1>3
<1>. QED
  BY <1>1, <1>4, <1>6, <1>7, RenderKeeps

LEMMA ThrottleKeeps ==
    ASSUME DragOK, Throttle
    PROVE  DragOK'
<1>1. /\ timers > 0 /\ timers' = timers - 1
      /\ pending' = None /\ scheduled' = FALSE
      /\ UNCHANGED <<dragging, latest, strays, bound>>
  BY DEF Throttle, boundVars
<1>2. ThrottleOK'
  <2>1. timers - 1 \in 0..MaxTimers
    BY <1>1, MaxTimersNat DEF DragOK, ThrottleOK
  <2>. QED
    BY <1>1, <2>1 DEF DragOK, ThrottleOK
<1>3. drag' = drag /\ RequestsOK' /\ SmoothOK'
  <2>1. CASE pending = None \/ drag = None
    <3>1. UNCHANGED <<drag, requests, inflight, probed, pending>>
      BY <1>1, <2>1 DEF Throttle, DragOK, ThrottleOK, MarkerOK, MarkerTyped
    <3>. QED
      BY <1>1, <3>1 DEF DragOK, MarkerOK, RequestsOK, SmoothOK, Smooth
  <2>2. CASE pending # None /\ drag # None
    <3>1. Fire("move", pending, dragging) /\ dragging \in BOOLEAN
      BY <2>2 DEF Throttle, DragOK, ThrottleOK
    <3>. QED
      BY <1>1, <2>2, <3>1, FireKeeps
  <2>. QED
    BY <2>1, <2>2
<1>4. MarkerTyped'
  BY <1>1, <1>3 DEF DragOK, MarkerOK, MarkerTyped
<1>. QED
  BY <1>2, <1>3, <1>4 DEF DragOK, MarkerOK

\* The last route of a marker that is released becomes its preview.
LEMMA CommitKeeps ==
    ASSUME NEW rs, NEW flying, NEW route \in ViaRoutes, NEW pos \in Places,
           NEW moving \in BOOLEAN, drag \in Markers,
           rs \subseteq Requests, rs \subseteq {flying},
           \A r \in rs : (r.kind = "first" => probed # None) /\ r.ends = drag.ends,
           strays' = {} => /\ Smooth([drag EXCEPT !.pos = pos, !.live = route],
                                rs, latest', pending', probed)
                      /\ \A r \in rs : r.kind # "first",
           Commit(rs, flying, route, pos, moving)
    PROVE  drag' \in Markers /\ RequestsOK' /\ SmoothOK'
<1> DEFINE d == [drag EXCEPT !.pos = pos, !.live = route]
<1>1. d \in Markers /\ d.ends = drag.ends
  BY MarkerFields DEF Markers
<1>2. Render(d, rs, flying, moving)
  BY DEF Commit
<1>4. \A r \in rs : (r.kind = "first" => probed # None) /\ r.ends = d.ends
  BY <1>1
<1>. HIDE DEF d
<1>3. strays' = {} => /\ Smooth(d, rs, latest', pending', probed)
                 /\ \A r \in rs : r.kind = "first" => d.live = None
  BY DEF d
<1>. QED
  BY <1>1, <1>2, <1>3, <1>4, RenderKeeps

LEMMA CommitAlone ==
    ASSUME NEW route \in ViaRoutes, NEW pos \in Places, NEW moving \in BOOLEAN,
           drag \in Markers,
           strays' = {} => Smooth([drag EXCEPT !.pos = pos, !.live = route],
                             {}, latest', pending', probed),
           Commit({}, inflight, route, pos, moving)
    PROVE  drag' \in Markers /\ RequestsOK' /\ SmoothOK'
<1> DEFINE d == [drag EXCEPT !.pos = pos, !.live = route]
<1>1. d \in Markers
  BY MarkerFields
<1>2. Render(d, {}, inflight, moving)
  BY DEF Commit
<1>3. strays' = {} => Smooth(d, {}, latest', pending', probed)
  OBVIOUS
<1>. HIDE DEF d
<1>. QED
  BY <1>1, <1>2, <1>3, RenderKeeps

LEMMA MouseUpKeeps ==
    ASSUME DragOK, MouseUp
    PROVE  DragOK'
<1>1. /\ dragging /\ drag # None
      /\ dragging' = FALSE
      /\ pending' = None
      /\ scheduled' = (scheduled /\ pending = None)
      /\ strays' = strays \cup StraysOfRelease
      /\ UNCHANGED <<timers, latest, bound>>
  BY DEF MouseUp, boundVars, DragOK, MarkerOK, MarkerTyped
<1>2. ThrottleOK'
  BY <1>1 DEF DragOK, ThrottleOK, StraysOfRelease, Strays
<1>3. /\ drag \in Markers /\ latest \in ViaRoutes \cup {None}
      /\ strays' = {} => strays = {}
  BY <1>1, <1>2 DEF DragOK, MarkerOK, MarkerTyped, ThrottleOK
<1>4. drag' \in Markers /\ RequestsOK' /\ SmoothOK'
  <2>1. CASE pending # None
    <3>1. Fire("final", pending, FALSE) /\ (strays' = {} => strays = {})
      BY <1>1, <2>1 DEF MouseUp
    <3>2. drag' = drag /\ RequestsOK' /\ SmoothOK'
      BY <1>1, <2>1, <3>1, FireKeeps
    <3>. QED
      BY <1>3, <3>2
  <2>2. CASE pending = None /\ latest # None
    <3>1. /\ Commit(requests, inflight, latest, drag.pos, FALSE)
          /\ latest \in ViaRoutes /\ drag.pos \in Places
          /\ strays' = {} => strays = {} /\ drag.live # None
      BY <1>1, <1>3, <2>2, MarkerFields DEF MouseUp, StraysOfRelease
    <3>2. /\ requests \subseteq Requests /\ requests \subseteq {inflight}
          /\ \A r \in requests : r.kind = "first" => drag.live = None /\ probed # None
          /\ \A r \in requests : r.ends = drag.ends
          /\ strays = {} => Smooth(drag, requests, latest, pending, probed)
      BY <1>1 DEF DragOK, MarkerOK, RequestsOK, SmoothOK
    <3>3. ASSUME strays' = {}
          PROVE  /\ Smooth([drag EXCEPT !.pos = drag.pos, !.live = latest],
                           requests, latest', pending', probed)
                 /\ \A r \in requests : r.kind # "first"
      <4>1. Smooth(drag, requests, latest, pending, probed) /\ drag.live # None
        BY <3>1, <3>2, <3>3
      <4>2. latest = drag.live
        BY <4>1 DEF Smooth
      <4>3. [drag EXCEPT !.pos = drag.pos, !.live = latest] = drag
        BY <4>2, <1>3 DEF Markers
      <4>4. latest' = latest /\ pending' = pending
        BY <1>1, <2>2
      <4>. QED
        BY <3>2, <4>1, <4>3, <4>4
    <3>. QED
      BY <1>3, <3>1, <3>2, <3>3, CommitKeeps
  <2>3. CASE pending = None /\ latest = None
    <3>1. UNCHANGED <<drag, requests, inflight, probed, pending, latest>> /\ (strays' = {} => strays = {})
      BY <1>1, <2>3 DEF MouseUp
    <3>. QED
      BY <1>3, <3>1 DEF DragOK, MarkerOK, RequestsOK, SmoothOK, Smooth
  <2>. QED
    BY <2>1, <2>2, <2>3
<1>5. MarkerTyped'
  BY <1>1, <1>3, <1>4 DEF MarkerTyped
<1>. QED
  BY <1>2, <1>4, <1>5 DEF DragOK, MarkerOK

\* A request is the only one, and its route is a route through its place.
LEMMA AnswerFacts ==
    ASSUME DragOK, NEW r \in requests, drag # None
    PROVE  /\ requests \ {r} = {} /\ r \in Requests
           /\ r.ends \in Ends /\ r.pos \in Places
           /\ Route(r.ends, r.pos) \in ViaRoutes /\ Route(r.ends, r.pos) # None
           /\ drag \in Markers /\ r.ends = drag.ends
           /\ strays = {} => Smooth(drag, requests, latest, pending, probed)
<1>1. requests \ {r} = {} /\ r \in Requests /\ r.ends = drag.ends
  BY DEF DragOK, MarkerOK, RequestsOK
<1>2. r.ends \in Ends /\ r.pos \in Places
  BY <1>1 DEF Requests
<1>3. Route(r.ends, r.pos) \in ViaRoutes
  BY <1>2 DEF ViaRoutes
<1>. QED
  BY <1>1, <1>2, <1>3, NonePlace DEF DragOK, MarkerOK, MarkerTyped, SmoothOK

\* The route found is the preview; without one the preview stays.
LEMMA PreviewKeeps ==
    ASSUME DragOK, NEW r \in requests, drag # None,
           NEW route \in {None, Route(r.ends, r.pos)},
           latest' = IF route # None THEN route ELSE latest,
           pending' = pending,
           strays' = {} => strays = {} /\ route # None,
           Render(IF route # None THEN [drag EXCEPT !.live = route] ELSE drag,
                  requests \ {r}, inflight, dragging)
    PROVE  drag' \in Markers /\ latest' \in ViaRoutes \cup {None} /\ RequestsOK' /\ SmoothOK'
<1>1. /\ requests \ {r} = {}
      /\ Route(r.ends, r.pos) \in ViaRoutes /\ Route(r.ends, r.pos) # None
      /\ drag \in Markers /\ r.ends = drag.ends
      /\ strays = {} => Smooth(drag, requests, latest, pending, probed)
      /\ dragging \in BOOLEAN /\ latest \in ViaRoutes \cup {None}
  BY AnswerFacts DEF DragOK, ThrottleOK, MarkerOK, MarkerTyped
<1>2. CASE route # None
  <2> DEFINE d == [drag EXCEPT !.live = route]
  <2>1. route = Route(r.ends, r.pos) /\ route \in ViaRoutes /\ route # None
    BY <1>1, <1>2
  <2>2. /\ d \in Markers /\ d.live = route /\ d.pos = drag.pos
        /\ d.ends = drag.ends /\ d.leg = drag.leg
    BY <1>1, <2>1, MarkerFields DEF Markers
  <2>3. Render(d, {}, inflight, dragging) /\ latest' = route
    BY <1>1, <2>1
  <2>. HIDE DEF d
  <2>4. strays' = {} => Smooth(d, {}, latest', pending', probed)
    BY <1>1, <2>1, <2>2, <2>3 DEF Smooth
  <2>5. drag' = d /\ RequestsOK' /\ SmoothOK'
    BY <1>1, <2>2, <2>3, <2>4, RenderKeeps
  <2>. QED
    BY <2>1, <2>2, <2>3, <2>5
<1>3. CASE route = None
  <2>1. Render(drag, {}, inflight, dragging) /\ latest' = latest /\ strays' # {}
    BY <1>1, <1>3
  <2>2. drag' = drag /\ RequestsOK' /\ SmoothOK'
    BY <1>1, <2>1, RenderKeeps
  <2>. QED
    BY <1>1, <2>1, <2>2
<1>. QED
  BY <1>2, <1>3

\* The route of the release is the preview, and so is the last route when there is none.
LEMMA FinalKeeps ==
    ASSUME DragOK, NEW r \in requests, drag # None,
           NEW route \in {None, Route(r.ends, r.pos)},
           pending' = pending,
           strays' = {} => route # None /\ pending = None,
           FinalAnswer(r, route)
    PROVE  drag' \in Markers /\ latest' \in ViaRoutes \cup {None} /\ RequestsOK' /\ SmoothOK'
<1>1. /\ requests \ {r} = {}
      /\ r.pos \in Places
      /\ Route(r.ends, r.pos) \in ViaRoutes /\ Route(r.ends, r.pos) # None
      /\ drag \in Markers /\ r.ends = drag.ends
      /\ strays = {} => Smooth(drag, requests, latest, pending, probed)
      /\ dragging \in BOOLEAN /\ latest \in ViaRoutes \cup {None}
      /\ pending # None => dragging
  BY AnswerFacts DEF DragOK, ThrottleOK, MarkerOK, MarkerTyped
<1>2. latest' = IF route # None THEN route ELSE latest
  BY DEF FinalAnswer
<1>3. CASE route # None
  <2> DEFINE d == [drag EXCEPT !.pos = r.pos, !.live = route]
  <2>1. route = Route(r.ends, r.pos) /\ route \in ViaRoutes /\ latest' = route /\ route # None
    BY <1>1, <1>2, <1>3
  <2>2. Commit({}, inflight, route, r.pos, dragging)
    BY <1>1, <2>1 DEF FinalAnswer
  <2>3. /\ d.live = route /\ d.pos = r.pos /\ d.ends = drag.ends /\ d.leg = drag.leg
    BY <1>1 DEF Markers
  <2>. HIDE DEF d
  <2>4. strays' = {} => Smooth(d, {}, latest', pending', probed)
    BY <1>1, <2>1, <2>3 DEF Smooth
  <2>5. strays' = {} => Smooth([drag EXCEPT !.pos = r.pos, !.live = route], {}, latest', pending', probed)
    BY <2>4 DEF d
  <2>6. drag' \in Markers /\ RequestsOK' /\ SmoothOK'
    BY <1>1, <2>1, <2>2, <2>5, CommitAlone
  <2>. QED
    BY <2>1, <2>6
<1>4. CASE route = None /\ latest # None
  <2>1. /\ latest' = latest /\ latest \in ViaRoutes /\ strays' # {} /\ drag.pos \in Places
    BY <1>1, <1>2, <1>4, MarkerFields
  <2>2. Commit({}, inflight, latest, drag.pos, dragging)
    BY <1>1, <1>4, <2>1 DEF FinalAnswer
  <2>3. drag' \in Markers /\ RequestsOK' /\ SmoothOK'
    BY <1>1, <2>1, <2>2, CommitAlone
  <2>. QED
    BY <2>1, <2>3
<1>5. CASE route = None /\ latest = None
  <2>1. Render(drag, {}, inflight, dragging) /\ latest' = latest /\ strays' # {}
    BY <1>1, <1>2, <1>5 DEF FinalAnswer
  <2>2. drag' = drag /\ RequestsOK' /\ SmoothOK'
    BY <1>1, <2>1, RenderKeeps
  <2>. QED
    BY <1>1, <2>1, <2>2
<1>. QED
  BY <1>3, <1>4, <1>5

LEMMA AnswerKeeps ==
    ASSUME DragOK, NEW r \in requests, NEW found \in BOOLEAN, Answer(r, found)
    PROVE  DragOK'
<1> DEFINE route == IF found THEN Route(r.ends, r.pos) ELSE None
<1>1. /\ drag # None
      /\ strays' = StraysOfAnswer(r, found)
      /\ UNCHANGED <<dragging, bound>>
      /\ \/ r.kind = "first" /\ FirstAnswer(r, route)
         \/ r.kind = "move"  /\ MoveAnswer(r, route)
         \/ r.kind = "final" /\ FinalAnswer(r, route)
  BY DEF Answer, boundVars
<1>0. route \in {None, Route(r.ends, r.pos)} /\ (found => route # None)
  BY <1>1, AnswerFacts
<1>. HIDE DEF route
<1>2. /\ strays \subseteq Strays /\ dragging \in BOOLEAN
      /\ strays' = {} => route # None
      /\ strays' = {} /\ r.kind # "final" => strays = {}
      /\ strays' = {} /\ r.kind = "final" => pending = None
  BY <1>0, <1>1 DEF DragOK, ThrottleOK, StraysOfAnswer
<1>3. pending' = pending
  BY <1>1 DEF FirstAnswer, MoveAnswer, FinalAnswer
<1>4. drag' \in Markers /\ latest' \in ViaRoutes \cup {None} /\ RequestsOK' /\ SmoothOK'
  <2>1. CASE r.kind # "final" /\ (FirstAnswer(r, route) \/ MoveAnswer(r, route))
    <3>1. /\ latest' = IF route # None THEN route ELSE latest
          /\ Render(IF route # None THEN [drag EXCEPT !.live = route] ELSE drag,
                    requests \ {r}, inflight, dragging)
      BY <2>1 DEF FirstAnswer, MoveAnswer
    <3>2. strays' = {} => strays = {} /\ route # None
      BY <1>2, <2>1
    <3>. QED
      BY <1>0, <1>1, <1>3, <3>1, <3>2, PreviewKeeps
  <2>2. CASE r.kind = "final" /\ FinalAnswer(r, route)
    BY <1>0, <1>1, <1>2, <1>3, <2>2, FinalKeeps
  <2>. QED
    BY <1>1, <2>1, <2>2
<1>5. MarkerTyped'
  BY <1>4, MarkerFields DEF MarkerTyped
<1>6. ThrottleOK'
  <2>1. /\ timers' \in 0..MaxTimers /\ scheduled' \in BOOLEAN
        /\ scheduled' => timers' > 0
        /\ scheduled => scheduled'
    <3>1. CASE UNCHANGED <<scheduled, timers>>
      BY <3>1 DEF DragOK, ThrottleOK
    <3>2. CASE (scheduled \/ timers < MaxTimers) /\ Schedule
      BY <3>2, MaxTimersNat DEF DragOK, ThrottleOK, Schedule
    <3>. QED
      BY <1>1, <3>1, <3>2 DEF FirstAnswer, MoveAnswer, FinalAnswer
  <2>2. strays' \subseteq Strays
    BY <1>1, <1>2 DEF StraysOfAnswer, Strays
  <2>. QED
    BY <1>1, <1>3, <2>1, <2>2 DEF DragOK, ThrottleOK
<1>. QED
  BY <1>4, <1>5, <1>6 DEF DragOK, MarkerOK

LEMMA LostKeeps ==
    ASSUME DragOK, NEW r \in requests, Lost(r)
    PROVE  DragOK'
<1>1. /\ requests' = {}
      /\ strays' = strays \cup {"noroute"}
      /\ UNCHANGED <<drag, pending, scheduled, timers, dragging, latest, probed, bound>>
  BY DEF Lost, boundVars, DragOK, MarkerOK, RequestsOK
<1>2. ThrottleOK'
  BY <1>1 DEF DragOK, ThrottleOK, Strays
<1>3. MarkerOK'
  BY <1>1 DEF DragOK, MarkerOK, MarkerTyped, RequestsOK, SmoothOK
<1>. QED
  BY <1>2, <1>3 DEF DragOK

\* A mount starts without a marker.
LEMMA MountDrags ==
    ASSUME DragOK, NEW opened, NEW reload, Mount(opened, reload)
    PROVE  DragOK'
<1>1. MarkerOK'
  BY ForgottenKeeps DEF Mount
<1>2. ThrottleOK'
  <2>1. 0 \in 0..MaxTimers
    BY MaxTimersNat
  <2>2. /\ pending' = None /\ scheduled' = FALSE /\ timers' = 0
        /\ dragging' = FALSE /\ strays' = {} /\ bound' = bound
    BY DEF Mount, Turn
  <2>. QED
    BY <2>1, <2>2 DEF DragOK, ThrottleOK
<1>. QED
  BY <1>1, <1>2 DEF DragOK

----------------------------------------------------------------------------
(* Legs with their picks baked in. *)

LegPicked == AltPicks \cup ViaPicks \cup {None}

LEMMA LegFields ==
    ASSUME NEW leg \in Legs
    PROVE  /\ leg.own \in Routes /\ leg.alts \in Seq(Routes) /\ leg.sel \in Nat
           /\ Len(leg.alts) \in Nat
           /\ \A i \in 1..Len(leg.alts) : leg.alts[i] \in Routes
           /\ leg.alts # <<>> => 1 \in 1..Len(leg.alts)
<1>. HIDE DEF Routes
<1>1. leg.own \in Routes /\ leg.alts \in Seq(Routes) /\ leg.sel \in Nat
  BY DEF Legs
<1>2. /\ Len(leg.alts) \in Nat
      /\ \A i \in 1..Len(leg.alts) : leg.alts[i] \in Routes
  BY <1>1, LenProperties, ElementOfSeq
<1>3. leg.alts # <<>> => 1 \in 1..Len(leg.alts)
  BY <1>1, <1>2, EmptySeq
<1>. QED
  BY <1>1, <1>2, <1>3

LEMMA ResolveTyped ==
    ASSUME NEW leg \in Legs, NEW pick \in LegPicked
    PROVE  /\ Resolve(leg, pick) \in Routes
           /\ IsVia(pick) => pick.route \in Routes
<1>. HIDE DEF Legs
<1>1. IsVia(pick) => pick.route \in ViaRoutes
  <2>. HIDE DEF ViaRoutes, Places, Signatures
  <2>. QED
    BY DEF IsVia, LegPicked, AltPicks, ViaPicks
<1>2. IsVia(pick) => pick.route \in Routes
  BY <1>1 DEF Routes
<1>. QED
  BY <1>2, LegFields DEF Resolve

\* A via route is one more alternative, the last one, and selected.
LEMMA BakedVia ==
    ASSUME NEW leg \in Legs, NEW pick \in LegPicked, IsVia(pick)
    PROVE  /\ BakedLeg(leg, pick) \in Legs
           /\ Resolve(BakedLeg(leg, pick), None) = Resolve(leg, pick)
<1> DEFINE r    == Resolve(leg, pick)
           alts == Append(leg.alts, r)
           b    == BakedLeg(leg, pick)
<1>1. r \in Routes /\ r = pick.route
  BY ResolveTyped DEF Resolve
<1>2. leg.alts \in Seq(Routes) /\ Len(leg.alts) \in Nat
  BY LegFields
<1>3. /\ alts \in Seq(Routes)
      /\ Len(alts) = Len(leg.alts) + 1
      /\ alts[Len(leg.alts) + 1] = r
  BY <1>1, <1>2, AppendProperties
<1>4. b = [leg EXCEPT !.own = r, !.alts = alts, !.sel = Len(leg.alts) + 1]
  BY DEF BakedLeg, Legs
<1>. HIDE DEF r, alts
<1>5. /\ b \in Legs /\ b.alts = alts /\ b.sel = Len(leg.alts) + 1
  <2> DEFINE x == [leg EXCEPT !.own = r]
             y == [x EXCEPT !.alts = alts]
  <2>1. x \in Legs
    BY <1>1 DEF Legs
  <2>2. b = [y EXCEPT !.sel = Len(leg.alts) + 1]
    BY <1>4
  <2>. HIDE DEF x
  <2>3. y \in Legs /\ y.alts = alts
    BY <2>1, <1>3 DEF Legs
  <2>. HIDE DEF y, b
  <2>. QED
    BY <2>2, <2>3, <1>2 DEF Legs
<1>. HIDE DEF b
<1>6. ~IsVia(None) /\ AskedIndex(b, None) = b.sel
  BY DEF IsVia, AskedIndex
<1>7. AskedIndex(b, None) \in 1..Len(b.alts)
  BY <1>2, <1>3, <1>5, <1>6
<1>8. Resolve(b, None) = r
  BY <1>3, <1>5, <1>6, <1>7 DEF Resolve
<1>. QED
  BY <1>5, <1>8 DEF b, r

\* An alternative the leg has is selected; without a pick the leg draws what it drew.
LEMMA BakedAlt ==
    ASSUME NEW leg \in Legs, NEW pick \in LegPicked, ~IsVia(pick)
    PROVE  /\ BakedLeg(leg, pick) \in Legs
           /\ FitsLeg(leg, pick) => Resolve(BakedLeg(leg, pick), None) = Resolve(leg, pick)
<1> DEFINE r    == Resolve(leg, pick)
           i    == AskedIndex(leg, pick)
           sel  == IF i \in 1..Len(leg.alts) THEN i ELSE leg.sel
           b    == BakedLeg(leg, pick)
<1>1. r \in Routes
  BY ResolveTyped
<1>2. leg.alts \in Seq(Routes) /\ Len(leg.alts) \in Nat /\ leg.sel \in Nat
  BY LegFields
<1>3. sel \in Nat
  BY <1>2
<1>4. b = [leg EXCEPT !.own = r, !.sel = sel]
  BY DEF BakedLeg, Legs
<1>5. i \in 1..Len(leg.alts) => sel = i
  OBVIOUS
<1>6. i \notin 1..Len(leg.alts) => sel = leg.sel
  OBVIOUS
<1>7. r = IF i \in 1..Len(leg.alts) THEN leg.alts[i]
          ELSE IF leg.alts # <<>> THEN leg.alts[1] ELSE leg.own
  BY DEF Resolve
<1>8. FitsLeg(leg, pick) => i \in 1..Len(leg.alts) \/ i = leg.sel
  BY DEF FitsLeg, AskedIndex
<1>. HIDE DEF r, i, sel
<1>9. /\ b \in Legs /\ b.own = r /\ b.alts = leg.alts /\ b.sel = sel
  BY <1>1, <1>2, <1>3, <1>4 DEF Legs
<1>. HIDE DEF b
<1>10. ~IsVia(None) /\ AskedIndex(b, None) = b.sel
  BY DEF IsVia, AskedIndex
<1>11. Resolve(b, None) = IF b.sel \in 1..Len(b.alts) THEN b.alts[b.sel]
                          ELSE IF b.alts # <<>> THEN b.alts[1] ELSE b.own
  BY <1>10 DEF Resolve
<1>12. FitsLeg(leg, pick) => Resolve(b, None) = r
  BY <1>5, <1>6, <1>7, <1>8, <1>9, <1>11
<1>. QED
  BY <1>9, <1>12 DEF b, r

LEMMA Baked ==
    ASSUME NEW leg \in Legs, NEW pick \in LegPicked
    PROVE  /\ BakedLeg(leg, pick) \in Legs
           /\ FitsLeg(leg, pick) => Resolve(BakedLeg(leg, pick), None) = Resolve(leg, pick)
  BY BakedVia, BakedAlt

----------------------------------------------------------------------------
(* Saving. *)

LEMMA PlanFields ==
    ASSUME NEW plan \in GoodPlans
    PROVE  /\ plan.sig \in Signatures /\ plan.legs \in Seq(Legs) /\ plan.line \in Lines
           /\ DOMAIN plan.legs = 1..Len(plan.legs) /\ Len(plan.legs) \in Nat
           /\ DOMAIN plan.legs \subseteq LegNumbers
           /\ \A l \in DOMAIN plan.legs : plan.legs[l] \in Legs
           /\ plan # None /\ plan # Loading /\ plan.sig # "none"
<1>. HIDE DEF Legs, Lines, Signatures
<1>1. plan \in Plans /\ DOMAIN plan.legs \subseteq LegNumbers
  BY DEF GoodPlans
<1>2. plan.sig \in Signatures /\ plan.legs \in Seq(Legs) /\ plan.line \in Lines
  BY <1>1 DEF Plans
<1>3. DOMAIN plan.legs = 1..Len(plan.legs) /\ Len(plan.legs) \in Nat
  BY <1>2, LenProperties
<1>4. \A l \in DOMAIN plan.legs : plan.legs[l] \in Legs
  BY <1>2, <1>3, ElementOfSeq
<1>5. plan # None /\ plan # Loading /\ plan.sig # "none"
  BY <1>1, <1>2, EditsAssumption
<1>. QED
  BY <1>1, <1>2, <1>3, <1>4, <1>5

LEMMA PicksFields ==
    /\ NoPicks \in AllPicks /\ ~HasEdits(NoPicks)
    /\ \A ps \in AllPicks : \A l \in LegNumbers : ps[l] \in LegPicked
    /\ \A ps \in AllPicks : ~HasEdits(ps) => \A l \in LegNumbers : ps[l] = None
    /\ \A l \in LegNumbers : NoPicks[l] = None
<1>. HIDE DEF AltPicks, ViaPicks, LegNumbers
<1>. QED
  BY DEF AllPicks, NoPicks, HasEdits, LegPicked

LEMMA DrawnTyped ==
    ASSUME NEW plan \in GoodPlans, NEW ps \in AllPicks
    PROVE  Drawn(plan, ps) \in Lines
<1>1. \A l \in DOMAIN plan.legs : Resolve(plan.legs[l], ps[l]) \in Routes
  BY PlanFields, PicksFields, ResolveTyped
<1>. HIDE DEF Routes
<1>2. Drawn(plan, ps) \in [DOMAIN plan.legs -> Routes]
  BY <1>1 DEF Drawn
<1>3. DOMAIN plan.legs \in SUBSET LegNumbers
  BY PlanFields
<1>. QED
  BY <1>2, <1>3 DEF Lines

LEMMA SaveKeeps ==
    ASSUME NEW plan \in GoodPlans, NEW ps \in AllPicks
    PROVE  /\ ApplyLegEdits(plan, ps) \in GoodPlans
           /\ Fits(plan, ps) /\ Faithful(plan) =>
                /\ Drawn(ApplyLegEdits(plan, ps), NoPicks) = Drawn(plan, ps)
                /\ EditedPolyline(ApplyLegEdits(plan, ps), NoPicks) = Drawn(plan, ps)
<1>1. /\ plan.sig \in Signatures /\ plan.legs \in Seq(Legs) /\ plan.line \in Lines
      /\ DOMAIN plan.legs = 1..Len(plan.legs) /\ Len(plan.legs) \in Nat
      /\ DOMAIN plan.legs \subseteq LegNumbers
      /\ \A l \in DOMAIN plan.legs : plan.legs[l] \in Legs
  BY PlanFields
<1>2. \A p : EditedPolyline(p, NoPicks) = p.line
  BY PicksFields DEF EditedPolyline
<1>3. CASE ~HasEdits(ps) \/ plan.legs = <<>>
  <2>1. ApplyLegEdits(plan, ps) = plan
    BY <1>3 DEF ApplyLegEdits
  <2>2. \A l \in DOMAIN plan.legs : ps[l] = NoPicks[l]
    <3>1. CASE ~HasEdits(ps)
      BY <3>1, <1>1, PicksFields
    <3>2. CASE plan.legs = <<>>
      BY <3>2, <1>1, EmptySeq
    <3>. QED
      BY <1>3, <3>1, <3>2
  <2>3. Drawn(plan, ps) = Drawn(plan, NoPicks)
    BY <2>2 DEF Drawn
  <2>. QED
    BY <1>2, <2>1, <2>3 DEF Faithful
<1>4. CASE HasEdits(ps) /\ plan.legs # <<>>
  <2> DEFINE legs  == [l \in DOMAIN plan.legs |-> BakedLeg(plan.legs[l], ps[l])]
             drawn == Drawn(plan, ps)
             new   == [plan EXCEPT !.legs = legs, !.line = drawn]
  <2>1. ApplyLegEdits(plan, ps) = new
    BY <1>4 DEF ApplyLegEdits, EditedPolyline
  <2>2. \A l \in DOMAIN plan.legs :
          /\ BakedLeg(plan.legs[l], ps[l]) \in Legs
          /\ FitsLeg(plan.legs[l], ps[l]) =>
               Resolve(BakedLeg(plan.legs[l], ps[l]), None) = Resolve(plan.legs[l], ps[l])
    BY <1>1, PicksFields, Baked
  <2>3. legs \in Seq(Legs) /\ DOMAIN legs = DOMAIN plan.legs
    <3>. HIDE DEF Legs
    <3>1. legs \in [1..Len(plan.legs) -> Legs]
      BY <1>1, <2>2
    <3>. HIDE DEF legs
    <3>. QED
      BY <1>1, <3>1, IsASeq
  <2>4. drawn \in Lines
    BY DrawnTyped
  <2>5. \A l \in DOMAIN legs : legs[l] = BakedLeg(plan.legs[l], ps[l])
    BY <2>3
  <2>. HIDE DEF legs, drawn, Signatures, Legs, Lines
  <2>6. /\ new \in Plans /\ new.legs = legs /\ new.line = drawn
    <3> DEFINE x == [plan EXCEPT !.legs = legs]
    <3>1. x \in Plans /\ x.legs = legs
      BY <2>3 DEF GoodPlans, Plans
    <3>2. new = [x EXCEPT !.line = drawn]
      OBVIOUS
    <3>. HIDE DEF x, new
    <3>. QED
      BY <2>4, <3>1, <3>2 DEF Plans
  <2>. HIDE DEF new
  <2>7. new \in GoodPlans
    BY <1>1, <2>3, <2>6 DEF GoodPlans
  <2>8. Fits(plan, ps) => Drawn(new, NoPicks) = drawn
    <3>. SUFFICES ASSUME Fits(plan, ps) PROVE Drawn(new, NoPicks) = drawn
      OBVIOUS
    <3>1. \A l \in DOMAIN plan.legs : Resolve(legs[l], NoPicks[l]) = Resolve(plan.legs[l], ps[l])
      BY <1>1, <2>2, <2>3, <2>5, PicksFields DEF Fits
    <3>. QED
      BY <2>3, <2>6, <3>1 DEF Drawn, drawn
  <2>. QED
    BY <1>2, <2>1, <2>6, <2>7, <2>8 DEF drawn
<1>. QED
  BY <1>3, <1>4

----------------------------------------------------------------------------
(* The picks that are kept. *)

LEMMA PlannedAreGood == Planned \subseteq GoodPlans
  BY EditsAssumption DEF GoodPlans

LEMMA ShownIsGood ==
    ASSUME NEW planned \in GoodPlans \cup {None}, NEW opened \in GoodPlans \cup {None, Loading}
    PROVE  Shown(planned, opened) \in GoodPlans \cup {None}
  BY DEF Shown

LEMMA PlanIsGood == PlansOK => Plan \in GoodPlans \cup {None}
  BY PlannedAreGood, ShownIsGood DEF PlansOK, Plan

LEMMA KeyFields ==
    ASSUME NEW plan \in GoodPlans \cup {None}
    PROVE  /\ Key(plan) \in Signatures \cup {"none"}
           /\ plan = None => Key(plan) \notin Signatures
           /\ plan # None => Key(plan) = plan.sig /\ plan.sig \in Signatures
  BY PlanFields, EditsAssumption DEF Key

LEMMA PrunedFields ==
    ASSUME NEW s \in Stores, NEW sig
    PROVE  /\ Pruned(s, sig) \in Stores
           /\ Kept(Pruned(s, sig)) \subseteq Kept(s) \cap {sig}
<1>. HIDE DEF AllPicks, Signatures
<1>1. DOMAIN s = Signatures \cup {"none"}
  BY DEF Stores
<1>2. Pruned(s, sig) \in Stores
  BY <1>1 DEF Stores, Pruned
<1>3. \A k \in Signatures : Pruned(s, sig)[k] = IF k = sig THEN s[k] ELSE Absent
  BY <1>1 DEF Pruned
<1>. QED
  BY <1>2, <1>3 DEF Kept

LEMMA WrittenFields ==
    ASSUME NEW s \in Stores, NEW ps \in AllPicks, NEW k \in Signatures \cup {"none"}
    PROVE  /\ [s EXCEPT ![k] = ps] \in Stores
           /\ Kept([s EXCEPT ![k] = ps]) \subseteq Kept(s) \cup {k}
<1>. HIDE DEF AllPicks, Signatures
<1>. QED
  BY DEF Stores, Kept

\* What a render writes and drops leaves the picks of one plan.
LEMMA KeepKeeps ==
    ASSUME PlansOK, PicksOK, NEW plan \in GoodPlans \cup {None}, Plan' = plan,
           NEW ps \in AllPicks, plan = Plan \/ ps = picks,
           Keep(plan, ps)
    PROVE  PicksOK'
<1> DEFINE s == IF ps = picks THEN store ELSE [store EXCEPT ![Key(plan)] = ps]
<1>1. /\ picks' = ps /\ store' = PrunedOnSwitch(s, plan)
      /\ store \in Stores /\ KeptOK(store, Plan)
  BY DEF Keep, PicksOK
<1>2. /\ Key(plan) \in Signatures \cup {"none"}
      /\ plan = None => Key(plan) \notin Signatures
      /\ plan # None => Key(plan) = plan.sig /\ plan.sig \in Signatures
  BY KeyFields
<1>3. /\ Key(Plan) \in Signatures \cup {"none"}
      /\ Plan = None => Key(Plan) \notin Signatures
      /\ Plan # None => Key(Plan) = Plan.sig
  BY PlanIsGood, KeyFields
<1>4. /\ s \in Stores
      /\ Kept(s) \subseteq Kept(store) \cup {Key(plan)}
      /\ ps = picks => s = store
  BY <1>1, <1>2, WrittenFields
<1>. HIDE DEF s, Key
<1>5. CASE plan # None /\ Key(plan) # Key(Plan)
  <2>1. store' = Pruned(s, plan.sig)
    BY <1>1, <1>5 DEF PrunedOnSwitch
  <2>2. store' \in Stores /\ Kept(store') \subseteq {plan.sig}
    BY <1>4, <2>1, PrunedFields
  <2>. QED
    BY <1>1, <2>2 DEF PicksOK, KeptOK
<1>6. CASE plan = None \/ Key(plan) = Key(Plan)
  <2>1. store' = s
    BY <1>1, <1>6 DEF PrunedOnSwitch
  <2>2. Kept(s) \subseteq Signatures
    BY DEF Kept
  <2>3. KeptOK(s, plan)
    <3>1. CASE plan = Plan
      BY <3>1, <1>1, <1>2, <1>4, <2>2 DEF KeptOK
    <3>2. CASE ps = picks
      BY <3>2, <1>1, <1>2, <1>3, <1>4, <1>6 DEF KeptOK
    <3>. QED
      BY <3>1, <3>2
  <2>. QED
    BY <1>1, <1>4, <2>1, <2>3 DEF PicksOK
<1>. QED
  BY <1>5, <1>6

LEMMA PicksUnchanged ==
    ASSUME PicksOK, UNCHANGED pickVars, UNCHANGED <<raw, tour>>
    PROVE  PicksOK'
  BY DEF PicksOK, pickVars, Plan

\* A handler that leaves the plan alone.
LEMMA EditKeeps ==
    ASSUME PlansOK, PicksOK, UNCHANGED planVars, NEW ps \in AllPicks, Keep(Plan, ps)
    PROVE  PicksOK'
<1>1. Plan' = Plan
  BY DEF planVars, Plan
<1>. QED
  BY <1>1, PlanIsGood, KeepKeeps

LEMMA ShowKeeps ==
    ASSUME PlansOK, PicksOK, NEW planned \in Planned \cup {None},
           NEW opened \in GoodPlans \cup {None, Loading}, Show(planned, opened)
    PROVE  PicksOK' /\ raw' = planned /\ tour' = opened
<1>1. raw' = planned /\ tour' = opened /\ Keep(Shown(planned, opened), picks)
  BY DEF Show
<1>2. Plan' = Shown(planned, opened)
  BY <1>1 DEF Plan
<1>3. Shown(planned, opened) \in GoodPlans \cup {None}
  BY PlannedAreGood, ShownIsGood
<1>4. picks \in AllPicks
  BY DEF PicksOK
<1>. QED
  BY <1>1, <1>2, <1>3, <1>4, KeepKeeps

\* A mount reads the picks of the plan it shows and drops the others.
LEMMA MountKeeps ==
    ASSUME PlansOK, PicksOK, NEW opened, NEW reload \in BOOLEAN, Mount(opened, reload)
    PROVE  PlansOK' /\ PicksOK'
<1> DEFINE plan == Shown(None, opened)
           read == IF store[Key(plan)] = Absent THEN NoPicks ELSE store[Key(plan)]
           kept == [store EXCEPT ![Key(plan)] = read]
<1>1. /\ opened \in {None} \cup (IF saved = None THEN {} ELSE {Loading, saved.plan})
      /\ raw' = None /\ tour' = opened /\ saved' = saved
      /\ save' = IF reload THEN None ELSE save
      /\ picks' = read
      /\ store' = IF plan = None THEN kept ELSE Pruned(kept, plan.sig)
  BY DEF Mount
<1>2. /\ opened \in GoodPlans \cup {None, Loading}
      /\ opened = Loading => saved # None
  BY <1>1, EditsAssumption DEF PlansOK, SaveOK
<1>3. PlansOK'
  BY <1>1, <1>2 DEF PlansOK, SaveOK, Faithfully
<1>4. plan \in GoodPlans \cup {None} /\ Plan' = plan
  BY <1>1, <1>2, ShownIsGood DEF Plan
<1>5. store \in Stores /\ KeptOK(store, Plan)
  BY DEF PicksOK
<1>. HIDE DEF plan
<1>6. /\ Key(plan) \in Signatures \cup {"none"}
      /\ plan = None => Key(plan) \notin Signatures
  BY <1>4, KeyFields
<1>7. read \in AllPicks
  <2>1. store[Key(plan)] \in AllPicks \cup {Absent}
    BY <1>5, <1>6 DEF Stores
  <2>. QED
    BY <2>1, PicksFields
<1>. HIDE DEF read
<1>8. kept \in Stores /\ Kept(kept) \subseteq Kept(store) \cup {Key(plan)}
  BY <1>5, <1>6, <1>7, WrittenFields
<1>. HIDE DEF kept
<1>9. store' \in Stores /\ KeptOK(store', plan)
  <2>1. CASE plan = None
    <3>1. Kept(kept) \subseteq Signatures
      BY DEF Kept
    <3>. QED
      BY <2>1, <3>1, <1>1, <1>5, <1>6, <1>8 DEF KeptOK
  <2>2. CASE plan # None
    BY <2>2, <1>1, <1>8, PrunedFields DEF KeptOK
  <2>. QED
    BY <2>1, <2>2
<1>10. PicksOK'
  BY <1>1, <1>4, <1>7, <1>9 DEF PicksOK
<1>. QED
  BY <1>3, <1>10

----------------------------------------------------------------------------
(* The invariant. *)

LEMMA PlansUnchanged ==
    ASSUME PlansOK, UNCHANGED planVars
    PROVE  PlansOK'
  BY DEF PlansOK, planVars, SaveOK, Faithfully

LEMMA PickMade ==
    ASSUME PicksOK, NEW l \in LegNumbers, NEW pick \in LegPicked
    PROVE  [picks EXCEPT ![l] = pick] \in AllPicks
<1>. HIDE DEF AltPicks, ViaPicks, LegNumbers
<1>. QED
  BY DEF PicksOK, AllPicks, LegPicked

\* A route that is committed is a pick.
LEMMA CommitPicks ==
    ASSUME PlansOK, PicksOK, UNCHANGED planVars, NEW rs, NEW flying,
           NEW route \in ViaRoutes, NEW pos \in Places, NEW moving,
           drag \in Markers, Commit(rs, flying, route, pos, moving)
    PROVE  PicksOK'
<1>1. drag.leg \in LegNumbers /\ drag.ends \in Ends
  BY MarkerFields
<1>2. drag.ends[1] \in Signatures
  BY <1>1 DEF Ends
<1>3. ViaPick(pos, route, drag.ends[1]) \in LegPicked
  <2>. HIDE DEF ViaRoutes, Places, Signatures
  <2>. QED
    BY <1>2 DEF ViaPick, LegPicked, ViaPicks
<1>. QED
  BY <1>1, <1>3, PickMade, EditKeeps DEF Commit

LEMMA DragsKeep ==
    ASSUME IInv, Drags
    PROVE  IInv'
<1>1. PlansOK /\ PicksOK /\ DragOK
  BY DEF IInv, DragOK
<1>2. Plan # None => Plan \in GoodPlans
  BY <1>1, PlanIsGood
<1>. SUFFICES PlansOK' /\ PicksOK' /\ DragOK'
  BY DEF IInv, DragOK
<1>3. ASSUME NEW l \in LegNumbers, StartViaDrag(l) PROVE PlansOK' /\ PicksOK' /\ DragOK'
  <2>1. UNCHANGED planVars /\ UNCHANGED pickVars /\ UNCHANGED <<raw, tour>>
    BY <1>3 DEF StartViaDrag, planVars
  <2>. QED
    BY <1>1, <1>2, <1>3, <2>1, StartViaDragKeeps, PlansUnchanged, PicksUnchanged
<1>4. ASSUME CancelViaDrag PROVE PlansOK' /\ PicksOK' /\ DragOK'
  <2>1. /\ UNCHANGED planVars /\ UNCHANGED pickVars /\ UNCHANGED <<raw, tour>>
        /\ MarkerGone /\ UNCHANGED bound
    BY <1>4 DEF CancelViaDrag, planVars, boundVars
  <2>. QED
    BY <1>1, <2>1, MarkerGoneKeeps, PlansUnchanged, PicksUnchanged
<1>5. ASSUME MouseDown PROVE PlansOK' /\ PicksOK' /\ DragOK'
  <2>1. UNCHANGED planVars /\ UNCHANGED pickVars /\ UNCHANGED <<raw, tour>>
    BY <1>5 DEF MouseDown, planVars
  <2>. QED
    BY <1>1, <1>5, <2>1, MouseDownKeeps, PlansUnchanged, PicksUnchanged
<1>6. ASSUME NEW pos \in bound.positions, MouseMove(pos)
      PROVE  PlansOK' /\ PicksOK' /\ DragOK'
  <2>1. UNCHANGED planVars /\ UNCHANGED pickVars /\ UNCHANGED <<raw, tour>>
    BY <1>6 DEF MouseMove, planVars
  <2>. QED
    BY <1>1, <1>6, <2>1, MouseMoveKeeps, PlansUnchanged, PicksUnchanged
<1>7. ASSUME MouseUp PROVE PlansOK' /\ PicksOK' /\ DragOK'
  <2>1. UNCHANGED planVars /\ UNCHANGED <<raw, tour>>
    BY <1>7 DEF MouseUp, planVars
  <2>2. PicksOK'
    <3>1. CASE UNCHANGED pickVars
      BY <1>1, <2>1, <3>1, PicksUnchanged
    <3>2. CASE pending = None /\ latest # None /\ Commit(requests, inflight, latest, drag.pos, FALSE)
      <4>1. drag \in Markers /\ latest \in ViaRoutes
        BY <1>1, <1>7, <3>2 DEF MouseUp, DragOK, MarkerOK, MarkerTyped
      <4>2. drag.pos \in Places
        BY <4>1, MarkerFields
      <4>. QED
        BY <1>1, <2>1, <3>2, <4>1, <4>2, CommitPicks
    <3>. QED
      BY <1>7, <3>1, <3>2 DEF MouseUp, pickVars
  <2>. QED
    BY <1>1, <1>7, <2>1, <2>2, MouseUpKeeps, PlansUnchanged
<1>8. ASSUME Throttle PROVE PlansOK' /\ PicksOK' /\ DragOK'
  <2>1. UNCHANGED planVars /\ UNCHANGED pickVars /\ UNCHANGED <<raw, tour>>
    BY <1>8 DEF Throttle, planVars
  <2>. QED
    BY <1>1, <1>8, <2>1, ThrottleKeeps, PlansUnchanged, PicksUnchanged
<1>9. ASSUME NEW r \in requests, NEW found \in BOOLEAN, Answer(r, found)
      PROVE  PlansOK' /\ PicksOK' /\ DragOK'
  <2>1. UNCHANGED planVars /\ UNCHANGED <<raw, tour>> /\ drag # None
    BY <1>9 DEF Answer, planVars
  <2>2. PicksOK'
    <3> DEFINE route == IF found THEN Route(r.ends, r.pos) ELSE None
    <3>1. /\ drag \in Markers /\ drag.pos \in Places /\ r.pos \in Places
          /\ Route(r.ends, r.pos) \in ViaRoutes
          /\ latest \in ViaRoutes \cup {None}
      BY <1>1, <2>1, AnswerFacts, MarkerFields DEF DragOK, MarkerOK, MarkerTyped
    <3>2. route \in ViaRoutes \cup {None}
      BY <3>1
    <3>3. UNCHANGED pickVars \/ FinalAnswer(r, route)
      BY <1>9 DEF Answer, FirstAnswer, MoveAnswer
    <3>. HIDE DEF route
    <3>4. CASE UNCHANGED pickVars
      BY <1>1, <2>1, <3>4, PicksUnchanged
    <3>5. CASE FinalAnswer(r, route) /\ latest' # None
      <4>1. /\ latest' \in ViaRoutes
            /\ Commit(requests \ {r}, inflight, latest',
                      IF route # None THEN r.pos ELSE drag.pos, dragging)
        BY <3>1, <3>2, <3>5 DEF FinalAnswer
      <4>2. (IF route # None THEN r.pos ELSE drag.pos) \in Places
        BY <3>1
      <4>. QED
        BY <1>1, <2>1, <3>1, <4>1, <4>2, CommitPicks
    <3>6. CASE FinalAnswer(r, route) /\ latest' = None
      BY <1>1, <2>1, <3>6, PicksUnchanged DEF FinalAnswer
    <3>. QED
      BY <3>3, <3>4, <3>5, <3>6
  <2>. QED
    BY <1>1, <1>9, <2>1, <2>2, AnswerKeeps, PlansUnchanged
<1>10. ASSUME NEW r \in requests, Lost(r) PROVE PlansOK' /\ PicksOK' /\ DragOK'
  <2>1. UNCHANGED planVars /\ UNCHANGED pickVars /\ UNCHANGED <<raw, tour>>
    BY <1>10 DEF Lost, planVars
  <2>. QED
    BY <1>1, <1>10, <2>1, LostKeeps, PlansUnchanged, PicksUnchanged
<1>11. ASSUME Rerender PROVE PlansOK' /\ PicksOK' /\ DragOK'
  <2>1. UNCHANGED planVars /\ UNCHANGED pickVars /\ UNCHANGED <<raw, tour>>
    BY <1>11 DEF Rerender, planVars
  <2>. QED
    BY <1>1, <1>11, <2>1, RerenderKeeps, PlansUnchanged, PicksUnchanged
<1>. QED
  BY <1>3, <1>4, <1>5, <1>6, <1>7, <1>8, <1>9, <1>10, <1>11 DEF Drags

LEMMA PickingKeeps ==
    ASSUME IInv, Picking
    PROVE  IInv'
<1>1. PlansOK /\ PicksOK /\ DragOK
  BY DEF IInv, DragOK
<1>2. Plan # None => Plan.sig \in Signatures
  BY <1>1, PlanIsGood, PlanFields
<1>. SUFFICES PlansOK' /\ PicksOK' /\ DragOK'
  BY DEF IInv, DragOK
<1>3. ASSUME NEW l \in LegNumbers, NEW i \in 1..MaxAlternatives + 1, ApplyAlt(l, i)
      PROVE  PlansOK' /\ PicksOK' /\ DragOK'
  <2>1. /\ Keep(Plan, [picks EXCEPT ![l] = AltPick(i, Plan.sig)]) /\ Plan # None
        /\ UNCHANGED planVars /\ UNCHANGED bound
        /\ (MarkerGone \/ UNCHANGED dragVars)
    BY <1>3 DEF ApplyAlt, boundVars
  <2>2. AltPick(i, Plan.sig) \in LegPicked
    <3>1. i \in Nat
      OBVIOUS
    <3>. HIDE DEF Signatures
    <3>. QED
      BY <1>2, <2>1, <3>1 DEF AltPick, LegPicked, AltPicks
  <2>3. [picks EXCEPT ![l] = AltPick(i, Plan.sig)] \in AllPicks
    BY <1>1, <2>2, PickMade
  <2>. QED
    BY <1>1, <2>1, <2>3, EditKeeps, PlansUnchanged, MarkerGoneKeeps, DragUnchanged
<1>4. ASSUME NEW l \in LegNumbers, ResetLeg(l) PROVE PlansOK' /\ PicksOK' /\ DragOK'
  <2>1. /\ Keep(Plan, [picks EXCEPT ![l] = None])
        /\ UNCHANGED planVars /\ UNCHANGED bound
        /\ (MarkerGone \/ UNCHANGED dragVars)
    BY <1>4 DEF ResetLeg, boundVars
  <2>2. [picks EXCEPT ![l] = None] \in AllPicks
    BY <1>1, PickMade DEF LegPicked
  <2>. QED
    BY <1>1, <2>1, <2>2, EditKeeps, PlansUnchanged, MarkerGoneKeeps, DragUnchanged
<1>5. ASSUME ResetEdits PROVE PlansOK' /\ PicksOK' /\ DragOK'
  <2>1. /\ Keep(Plan, NoPicks)
        /\ UNCHANGED planVars /\ UNCHANGED bound /\ UNCHANGED dragVars
    BY <1>5 DEF ResetEdits, boundVars
  <2>. QED
    BY <1>1, <2>1, PicksFields, EditKeeps, PlansUnchanged, DragUnchanged
<1>. QED
  BY <1>3, <1>4, <1>5 DEF Picking

LEMMA PlanningKeeps ==
    ASSUME IInv, Planning
    PROVE  IInv'
<1>1. PlansOK /\ PicksOK /\ DragOK
  BY DEF IInv, DragOK
<1>2. /\ raw \in Planned \cup {None} /\ tour \in GoodPlans \cup {None, Loading}
      /\ SaveOK(saved) /\ SaveOK(save)
      /\ tour = Loading => saved # None
  BY <1>1 DEF PlansOK
<1>. SUFFICES PlansOK' /\ PicksOK' /\ DragOK'
  BY DEF IInv, DragOK
<1>3. ASSUME NEW planned \in Planned \cup {None}, NEW opened \in GoodPlans \cup {None, Loading},
             Show(planned, opened), UNCHANGED <<saved, save>>,
             opened = Loading => saved # None,
             UNCHANGED bound, MarkerGone \/ UNCHANGED dragVars
      PROVE  PlansOK' /\ PicksOK' /\ DragOK'
  <2>1. PicksOK' /\ raw' = planned /\ tour' = opened
    BY <1>1, <1>3, ShowKeeps
  <2>2. PlansOK'
    BY <1>2, <1>3, <2>1 DEF PlansOK, SaveOK, Faithfully
  <2>. QED
    BY <1>1, <1>3, <2>1, <2>2, MarkerGoneKeeps, DragUnchanged
<1>4. ASSUME NEW p \in Planned, PlanArrives(p) PROVE PlansOK' /\ PicksOK' /\ DragOK'
  BY <1>3, <1>4, EditsAssumption DEF PlanArrives, Turn
<1>5. ASSUME StartOver PROVE PlansOK' /\ PicksOK' /\ DragOK'
  BY <1>2, <1>3, <1>5 DEF StartOver, boundVars
<1>6. ASSUME LeavePlan PROVE PlansOK' /\ PicksOK' /\ DragOK'
  BY <1>2, <1>3, <1>6 DEF LeavePlan, boundVars
<1>7. ASSUME CloseTour PROVE PlansOK' /\ PicksOK' /\ DragOK'
  BY <1>2, <1>3, <1>7, EditsAssumption DEF CloseTour, boundVars
<1>8. ASSUME TourLoads PROVE PlansOK' /\ PicksOK' /\ DragOK'
  <2>1. saved.plan \in GoodPlans
    BY <1>2, <1>8 DEF TourLoads, SaveOK
  <2>2. saved.plan # Loading
    BY <2>1, PlanFields
  <2>. QED
    BY <1>3, <1>8, <2>1, <2>2 DEF TourLoads, boundVars
<1>9. ASSUME NEW opened, NEW reload \in BOOLEAN, Mount(opened, reload)
      PROVE  PlansOK' /\ PicksOK' /\ DragOK'
  BY <1>1, <1>9, MountKeeps, MountDrags
<1>. QED
  BY <1>4, <1>5, <1>6, <1>7, <1>8, <1>9 DEF Planning

LEMMA SavingKeeps ==
    ASSUME IInv, Saving
    PROVE  IInv'
<1>1. PlansOK /\ PicksOK /\ DragOK
  BY DEF IInv, DragOK
<1>2. /\ raw \in Planned \cup {None} /\ tour \in GoodPlans \cup {None, Loading}
      /\ SaveOK(saved) /\ SaveOK(save)
      /\ tour = Loading => saved # None
  BY <1>1 DEF PlansOK
<1>. SUFFICES PlansOK' /\ PicksOK' /\ DragOK'
  BY DEF IInv, DragOK
<1>3. ASSUME PersistTour PROVE PlansOK' /\ PicksOK' /\ DragOK'
  <2> DEFINE new == [plan |-> ApplyLegEdits(Plan, picks), drew |-> Drawn(Plan, picks),
                     fit |-> Fits(Plan, picks) /\ Faithful(Plan), stored |-> FALSE]
  <2>1. /\ save' = new /\ Plan # None
        /\ UNCHANGED <<raw, tour, saved>>
        /\ UNCHANGED pickVars /\ UNCHANGED dragVars /\ UNCHANGED bound
    BY <1>3 DEF PersistTour, Turn
  <2>2. Plan \in GoodPlans /\ picks \in AllPicks
    BY <1>1, <2>1, PlanIsGood DEF PicksOK
  <2>3. SaveOK(new)
    <3>1. /\ new.plan \in GoodPlans
          /\ new.fit => /\ Drawn(new.plan, NoPicks) = new.drew
                        /\ EditedPolyline(new.plan, NoPicks) = new.drew
      BY <2>2, SaveKeeps
    <3>2. new \in Saves
      <4>1. ApplyLegEdits(Plan, picks) \in Plans /\ Drawn(Plan, picks) \in Lines
        BY <2>2, SaveKeeps, DrawnTyped DEF GoodPlans
      <4>2. (Fits(Plan, picks) /\ Faithful(Plan)) \in BOOLEAN
        BY DEF Fits, Faithful
      <4>. HIDE DEF Plans, Lines, Fits, Faithful, Drawn, ApplyLegEdits
      <4>. QED
        BY <4>1, <4>2 DEF Saves
    <3>. QED
      BY <3>1, <3>2 DEF SaveOK, Faithfully
  <2>. HIDE DEF new
  <2>4. PlansOK'
    BY <1>2, <2>1, <2>3 DEF PlansOK, SaveOK, Faithfully
  <2>. QED
    BY <1>1, <2>1, <2>4, PicksUnchanged, DragUnchanged
<1>4. ASSUME Stored PROVE PlansOK' /\ PicksOK' /\ DragOK'
  <2>1. /\ save # None /\ saved' = save /\ save' = [save EXCEPT !.stored = TRUE]
        /\ UNCHANGED dragVars /\ UNCHANGED bound
    BY <1>4 DEF Stored, boundVars
  <2>2. PICK opened \in {tour} \cup (IF tour \in {None, Loading} THEN {} ELSE {save.plan}) :
          Show(raw, opened)
    BY <1>4 DEF Stored
  <2>3. save \in Saves /\ save.plan \in GoodPlans /\ Faithfully(save)
    BY <1>2, <2>1 DEF SaveOK
  <2>4. opened \in GoodPlans \cup {None, Loading}
    BY <1>2, <2>3
  <2>5. PicksOK' /\ raw' = raw /\ tour' = opened
    BY <1>1, <1>2, <2>2, <2>4, ShowKeeps
  <2>6. SaveOK(saved') /\ saved' # None
    BY <1>2, <2>1
  <2>7. SaveOK(save')
    <3> DEFINE kept == [save EXCEPT !.stored = TRUE]
    <3>1. kept \in Saves /\ kept.plan = save.plan /\ kept.drew = save.drew /\ kept.fit = save.fit
      <4>. HIDE DEF Plans, Lines
      <4>. QED
        BY <2>3 DEF Saves
    <3>. HIDE DEF kept
    <3>2. SaveOK(kept)
      BY <2>3, <3>1 DEF SaveOK, Faithfully
    <3>. QED
      BY <2>1, <3>2 DEF kept
  <2>8. PlansOK'
    <3>. HIDE DEF SaveOK
    <3>1. raw' \in Planned \cup {None} /\ tour' \in GoodPlans \cup {None, Loading}
      BY <1>2, <2>4, <2>5
    <3>. QED
      BY <2>6, <2>7, <3>1 DEF PlansOK, SaveOK, Faithfully
  <2>. QED
    BY <1>1, <2>1, <2>5, <2>8, DragUnchanged
<1>5. ASSUME SaveFails PROVE PlansOK' /\ PicksOK' /\ DragOK'
  <2>1. /\ save' = None /\ UNCHANGED <<raw, tour, saved>>
        /\ UNCHANGED pickVars /\ UNCHANGED dragVars /\ UNCHANGED bound
    BY <1>5 DEF SaveFails, boundVars
  <2>2. PlansOK'
    BY <1>2, <2>1 DEF PlansOK, SaveOK, Faithfully
  <2>. QED
    BY <1>1, <2>1, <2>2, PicksUnchanged, DragUnchanged
<1>6. ASSUME SaveEnds PROVE PlansOK' /\ PicksOK' /\ DragOK'
  <2>1. /\ save' = None /\ UNCHANGED <<raw, tour, saved, picks>>
        /\ store' = Pruned(store, save.plan.sig)
        /\ UNCHANGED dragVars /\ UNCHANGED bound
    BY <1>6 DEF SaveEnds, boundVars
  <2>2. PlansOK'
    BY <1>2, <2>1 DEF PlansOK, SaveOK, Faithfully
  <2>3. /\ store \in Stores /\ KeptOK(store, Plan) /\ picks \in AllPicks
    BY <1>1 DEF PicksOK
  <2>4. store' \in Stores /\ Kept(store') \subseteq Kept(store)
    BY <2>1, <2>3, PrunedFields
  <2>5. Plan' = Plan
    BY <2>1 DEF Plan
  <2>6. KeptOK(store', Plan)
    BY <2>3, <2>4 DEF KeptOK
  <2>7. PicksOK'
    BY <2>1, <2>3, <2>4, <2>5, <2>6 DEF PicksOK
  <2>. QED
    BY <1>1, <2>1, <2>2, <2>7, DragUnchanged
<1>. QED
  BY <1>3, <1>4, <1>5, <1>6 DEF Saving

----------------------------------------------------------------------------
(* The theorems. *)

LEMMA EditsInit == InitEdits => IInv
<1>. SUFFICES ASSUME InitEdits PROVE IInv
  OBVIOUS
<1>1. PlansOK
  BY EditsAssumption DEF InitEdits, PlansOK, SaveOK
<1>2. Plan = None
  BY DEF InitEdits, Plan, Shown
<1>3. NoPicks \in AllPicks
  BY PicksFields
<1>4. store \in Stores /\ Kept(store) = {}
  <2>1. "none" \notin Signatures
    BY EditsAssumption
  <2>. HIDE DEF AllPicks, Signatures, NoPicks
  <2>. QED
    BY <1>3, <2>1 DEF InitEdits, Stores, Kept
<1>5. PicksOK
  BY <1>2, <1>3, <1>4 DEF InitEdits, PicksOK, KeptOK
<1>6. ThrottleOK
  <2>1. 0 \in 0..MaxTimers
    BY MaxTimersNat
  <2>. QED
    BY <2>1 DEF InitEdits, ThrottleOK
<1>7. MarkerOK
  BY DEF InitEdits, MarkerOK, MarkerTyped, RequestsOK, SmoothOK
<1>. QED
  BY <1>1, <1>5, <1>6, <1>7 DEF IInv

\* The facts above hold in every reachable state of the editor.
THEOREM EditsInvariance == SpecEdits => []IInv
<1>1. IInv /\ [NextEdits]_editVars => IInv'
  <2>. SUFFICES ASSUME IInv, [NextEdits]_editVars PROVE IInv'
    OBVIOUS
  <2>1. CASE UNCHANGED editVars
    <3>1. UNCHANGED planVars /\ UNCHANGED pickVars /\ UNCHANGED dragVars
          /\ UNCHANGED bound /\ UNCHANGED <<raw, tour>>
      BY <2>1 DEF editVars, boundVars, planVars
    <3>. QED
      BY <3>1, PlansUnchanged, PicksUnchanged, DragUnchanged DEF IInv, DragOK
  <2>2. CASE NextEdits
    BY <2>2, DragsKeep, PickingKeeps, PlanningKeeps, SavingKeeps DEF NextEdits
  <2>. QED
    BY <2>1, <2>2
<1>. QED
  BY <1>1, EditsInit, PTL DEF SpecEdits

\* Types: the editor's state is what its names say; nothing is dragged
\* without a marker, and a place that is pending has a timer to send it
\* (LegViaPointLayer.tsx, the throttle of scheduleFire).
THEOREM EditsAreTyped == SpecEdits => []EditsTypeOK
<1>1. IInv => EditsTypeOK
  <2>. SUFFICES ASSUME IInv PROVE EditsTypeOK
    OBVIOUS
  <2>1. DOMAIN picks = LegNumbers
    BY DEF IInv, PicksOK, AllPicks
  <2>2. \A k \in DOMAIN store : store[k] = Absent \/ DOMAIN store[k] = LegNumbers
    BY DEF IInv, PicksOK, Stores, AllPicks
  <2>. QED
    BY <2>1, <2>2 DEF IInv, PlansOK, ThrottleOK, MarkerOK, MarkerTyped, EditsTypeOK
<1>. QED
  BY <1>1, EditsInvariance, PTL

\* "At most one request in flight" holds however the marker is dragged,
\* dropped and moved to another leg (LegViaPointLayer.tsx:39).
THEOREM OneRequestInFlight == SpecEdits => []NoBacklog
<1>1. IInv => NoBacklog
  <2>. SUFFICES ASSUME IInv PROVE NoBacklog
    OBVIOUS
  <2>1. requests \subseteq {inflight}
    BY DEF IInv, MarkerOK, RequestsOK
  <2>2. IsFiniteSet({inflight}) /\ Cardinality({inflight}) = 1
    BY FS_Singleton
  <2>3. Cardinality(requests) <= Cardinality({inflight})
    BY <2>1, <2>2, FS_Subset
  <2>. QED
    BY <2>2, <2>3 DEF NoBacklog
<1>. QED
  BY <1>1, EditsInvariance, PTL

\* "The latest position always wins" fails in the three cases Strays names
\* and in no other: when all answers are in, the preview is the route through
\* the place of the marker, unless a request found no route, a marker that was
\* moved to another leg was released before its route, or the answer of a
\* release came during the next drag, and no release has been answered in
\* time since (LegViaPointLayer.tsx:39).
THEOREM TheLatestPositionWins == SpecEdits => []LatestPositionWins
<1>1. IInv => LatestPositionWins
  <2>. SUFFICES ASSUME IInv, drag # None, requests = {}, ~dragging, strays = {},
                       probed = (IF drag.live = None THEN <<drag.leg, drag.pos>> ELSE None)
                PROVE  drag.live = Route(drag.ends, drag.pos)
    BY DEF LatestPositionWins
  <2>1. pending = None
    BY DEF IInv, ThrottleOK
  <2>2. \/ drag.live = Route(drag.ends, drag.pos)
        \/ drag.live = None /\ probed # <<drag.leg, drag.pos>>
    BY <2>1 DEF IInv, MarkerOK, SmoothOK, Smooth
  <2>. QED
    BY <2>2
<1>. QED
  BY <1>1, EditsInvariance, PTL

\* The picks of at most one plan are kept in localStorage, through every
\* replanning, opening, saving and mount (persistent-state.ts:105-113).
THEOREM OnlyOnePlanIsKept == SpecEdits => []OnePlanIsKept
<1>1. IInv => OnePlanIsKept
  <2>. SUFFICES ASSUME IInv PROVE OnePlanIsKept
    OBVIOUS
  <2> DEFINE K == {k \in DOMAIN store \ {"none"} : store[k] # Absent}
  <2>1. K \subseteq Kept(store) /\ \A j, k \in Kept(store) : j = k
    BY DEF IInv, PicksOK, Stores, Kept, KeptOK
  <2>. HIDE DEF K
  <2>2. CASE K = {}
    BY <2>2, FS_EmptySet DEF OnePlanIsKept, K
  <2>3. CASE K # {}
    <3>1. PICK k \in K : K = {k}
      BY <2>1, <2>3
    <3>2. Cardinality(K) = 1
      BY <3>1, FS_Singleton
    <3>. QED
      BY <3>2 DEF OnePlanIsKept, K
  <2>. QED
    BY <2>2, <2>3
<1>. QED
  BY <1>1, EditsInvariance, PTL

\* A tour that is saved with its edits baked in is drawn and downloaded,
\* without picks, as it was shown with them (persistent-state.ts:231-241).
THEOREM SavedToursShowWhatWasShown == SpecEdits => []SavedShowsWhatWasShown
<1>1. IInv => SavedShowsWhatWasShown
  BY DEF IInv, PlansOK, SaveOK, Faithfully, SavedShowsWhatWasShown
<1>. QED
  BY <1>1, EditsInvariance, PTL

=============================================================================

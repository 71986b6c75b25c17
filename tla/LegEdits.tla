------------------------------ MODULE LegEdits ------------------------------
(***************************************************************************)
(* Editing a planned tour in App: the plan that is shown, the picks that   *)
(* useLocalStorageState keeps under its signature, the marker a via point  *)
(* is dragged with, and saving.  A handler is one step with the render and *)
(* the effects it causes.  Requests for a route are answered in any order. *)
(* The leg the panel is open for is any leg; the colour of the marker,    *)
(* which nothing reads, is left out.                                       *)
(***************************************************************************)
EXTENDS LegPicks, FiniteSets

CONSTANTS Absent, Loading,  \* no entry in localStorage; a tour that is still loading
          Planned,          \* what the planner may answer
          Middle,           \* where the marker is dropped
          Bounds,           \* bounds of a behaviour: [positions: where the marker
                            \* is dragged to, saving: whether tours are saved,
                            \* turns: how many markers, plans, mounts and saves]
          MaxTimers,        \* bound: throttle timers that are pending
          MaxAlternatives   \* bound: alternatives of a leg that is edited further

VARIABLES raw,        \* plannedResult: a plan or None
          tour,       \* the plan of the saved tour that is open, Loading or None
          saved,      \* the tour on the server: [plan, drew, fit] or None
          save,       \* the save under way: [plan, drew, fit, stored] or None
          picks,      \* legPicks
          store,      \* localStorage: [signature or "none" -> picks or Absent]
          drag,       \* viaDrag: [leg, ends, pos, live] or None
          requests,   \* the via-route requests that were not aborted
          inflight,   \* inflightRef, while its request is not answered, or None
          pending,    \* pendingPosRef
          scheduled,  \* scheduledRef
          timers,     \* the timeouts of scheduleFire
          dragging,   \* isDraggingRef
          latest,     \* latestRouteRef
          probed,     \* initialFetchKey at the last render: <<leg, pos>> or None
          bound,      \* a member of Bounds
          turns,      \* the markers, plans, mounts and saves so far
          strays      \* history: what has gone wrong since the marker was dropped, or
                      \* since the last release that was answered with a route

planVars == <<raw, tour, saved, save>>
pickVars == <<picks, store>>
dragVars == <<drag, requests, inflight, pending, scheduled, timers, dragging, latest, probed, strays>>
boundVars == <<bound, turns>>
editVars == <<planVars, pickVars, dragVars, boundVars>>

Signatures == {p.sig : p \in Planned}
MaxLegs    == CHOOSE n \in {Len(p.legs) : p \in Planned} : \A p \in Planned : Len(p.legs) <= n
LegNumbers == 1..MaxLegs
NoPicks    == [l \in LegNumbers |-> None]

\* "A freshly planned cluster wins over an opened tour."
Shown(planned, opened) ==
    IF planned # None THEN planned ELSE IF opened = Loading THEN None ELSE opened

Plan == Shown(raw, tour)

Route(ends, pos) == <<"via", ends, pos>>

Turn == turns < bound.turns /\ turns' = turns + 1 /\ UNCHANGED bound

Key(plan) == IF plan = None THEN "none" ELSE plan.sig

----------------------------------------------------------------------------
(* What the values are *)

Places    == {Middle} \cup UNION {b.positions : b \in Bounds}
Ends      == Signatures \X LegNumbers
ViaRoutes == {Route(e, pos) : e \in Ends, pos \in Places}
Markers   == [leg : LegNumbers, ends : Ends, pos : Places, live : ViaRoutes \cup {None}]
Requests  == [kind : {"first", "move", "final"}, leg : LegNumbers, ends : Ends, pos : Places]

AltPicks == [kind : {"alt"}, alt : Nat, on : Signatures]
ViaPicks == [kind : {"via"}, via : Places, route : ViaRoutes, on : Signatures]
AllPicks == [LegNumbers -> AltPicks \cup ViaPicks \cup {None}]

\* The routes of a plan: those the planner may answer and those via a point.
PlannedRoutes ==
    UNION {UNION {{p.legs[l].own} \cup {p.legs[l].alts[i] : i \in DOMAIN p.legs[l].alts}
                    : l \in DOMAIN p.legs} : p \in Planned}
Routes == PlannedRoutes \cup ViaRoutes
Legs   == [own : Routes, alts : Seq(Routes), sel : Nat]
Lines  == {p.line : p \in Planned} \cup UNION {[D -> Routes] : D \in SUBSET LegNumbers}
Plans  == [sig : Signatures, legs : Seq(Legs), line : Lines]
Saves  == [plan : Plans, drew : Lines, fit : BOOLEAN, stored : BOOLEAN]

\* What is absent is not a value; a signature is eight hexadecimal digits, and
\* so never the key of no plan.
ASSUME EditsAssumption ==
    /\ MaxTimers \in Nat
    /\ Planned \subseteq Plans
    /\ \A p \in Planned : DOMAIN p.legs \subseteq LegNumbers
    /\ "none" \notin Signatures
    /\ None \notin Places /\ None \notin ViaRoutes /\ None \notin LegNumbers \X Places
    /\ None \notin Markers /\ None \notin Plans
    /\ Loading \notin Plans /\ Loading # None
    /\ Absent \notin AllPicks

----------------------------------------------------------------------------
(* localStorage *)

\* prunePlanEditKeys
Pruned(s, sig) == [k \in DOMAIN s |-> IF k = sig THEN s[k] ELSE Absent]

PrunedOnSwitch(s, plan) ==
    IF plan # None /\ Key(plan) # Key(Plan) THEN Pruned(s, plan.sig) ELSE s

\* The effects of a render that shows this plan with these picks: what has
\* changed since the last write is written under the key of now, then the
\* keys of other plans are dropped.
Keep(plan, ps) ==
    /\ picks' = ps
    /\ store' = PrunedOnSwitch(IF ps = picks THEN store ELSE [store EXCEPT ![Key(plan)] = ps], plan)

----------------------------------------------------------------------------
(* The marker *)

Request(kind, d, pos) == [kind |-> kind, leg |-> d.leg, ends |-> d.ends, pos |-> pos]

\* Mutant: the request under way goes on.
GoesOn(rs, r) == rs

\* A request that is aborted is not answered.
Aborted(rs, r) == rs \ {r}

\* No marker any more: everything is aborted and forgotten.
MarkerGone ==
    /\ drag' = None
    /\ requests' = {r \in Aborted(requests, inflight) : r.kind # "first"}
    /\ inflight' = None /\ pending' = None /\ scheduled' = FALSE /\ dragging' = FALSE
    /\ latest' = None /\ probed' = None
    /\ UNCHANGED <<timers, strays>>

\* A render with marker d: one without a preview that is not being dragged
\* asks for it, once for each place; what a render before asked for is
\* aborted when the place is another or there is a preview.
Render(d, rs, flying, moving) ==
    LET key   == IF d.live = None /\ ~moving THEN <<d.leg, d.pos>> ELSE None
        first == Request("first", d, d.pos)
        kept  == IF key = probed THEN rs ELSE {r \in rs : r.kind # "first"}
        asks  == key # None /\ key # probed
    IN  /\ drag' = d
        /\ requests' = IF asks THEN Aborted(kept, flying) \cup {first} ELSE kept
        /\ inflight' = IF asks THEN first ELSE IF flying \in kept THEN flying ELSE None
        /\ probed' = key

\* A request for the place the marker was dragged to, instead of the one
\* under way.
Fire(kind, pos, moving) ==
    LET r == Request(kind, drag, pos)
    IN  Render(drag, Aborted(requests, inflight) \cup {r}, r, moving)

Schedule == timers' = (IF scheduled THEN timers ELSE timers + 1) /\ scheduled' = TRUE

\* onCommit: the route becomes the pick of the leg, and the preview.
Commit(rs, flying, route, pos, moving) ==
    /\ Render([drag EXCEPT !.pos = pos, !.live = route], rs, flying, moving)
    /\ Keep(Plan, [picks EXCEPT ![drag.leg] = ViaPick(pos, route, drag.ends[1])])

----------------------------------------------------------------------------
(* Dragging *)

StartViaDrag(l) ==
    /\ Turn
    /\ Plan # None /\ l \in DOMAIN Plan.legs
    /\ ~dragging /\ (drag # None => drag.leg # l)
    /\ Render([leg |-> l, ends |-> <<Plan.sig, l>>, pos |-> Middle, live |-> None],
              requests, inflight, FALSE)
    /\ strays' = {}
    /\ UNCHANGED <<planVars, pickVars, pending, scheduled, timers, dragging, latest>>

CancelViaDrag ==
    /\ drag # None /\ ~dragging
    /\ MarkerGone
    /\ UNCHANGED <<planVars, pickVars, boundVars>>

MouseDown ==
    /\ drag # None /\ ~dragging
    /\ dragging' = TRUE
    /\ UNCHANGED <<planVars, pickVars, drag, requests, inflight, pending, scheduled, timers,
                   latest, probed, strays, boundVars>>

MouseMove(pos) ==
    /\ dragging /\ pos # drag.pos
    /\ scheduled \/ timers < MaxTimers
    /\ Render([drag EXCEPT !.pos = pos], requests, inflight, TRUE)
    /\ pending' = pos
    /\ Schedule
    /\ UNCHANGED <<planVars, pickVars, dragging, latest, strays, boundVars>>

\* fireForLatest
Throttle ==
    /\ timers > 0
    /\ timers' = timers - 1
    /\ pending' = None /\ scheduled' = FALSE
    /\ IF pending = None \/ drag = None THEN UNCHANGED <<drag, requests, inflight, probed>>
       ELSE Fire("move", pending, dragging)
    /\ UNCHANGED <<planVars, pickVars, dragging, latest, strays, boundVars>>

\* What can go wrong.  "noroute": OSRM found no route, or a request failed.
\* "moved": the marker is moved to another leg, and pressed and released
\* before a route for it has come: the route of the marker before, which was
\* not forgotten, becomes the pick of the leg.  "late": the answer to a
\* release comes when the marker has been dragged on, and puts it back to
\* the place of the release; the next release commits the last route there.
Strays == {"noroute", "moved", "late"}

StraysOfRelease ==
    IF pending = None /\ latest # None /\ drag.live = None THEN {"moved"} ELSE {}

\* A release that is answered with a route puts all right.
StraysOfAnswer(r, found) ==
    IF ~found THEN strays \cup {"noroute"}
    ELSE IF r.kind # "final" THEN strays
    ELSE IF pending # None THEN strays \cup {"late"} ELSE {}

\* Mutant: the last place is left to the timer, which finds nothing.
MouseUpForgets ==
    /\ dragging
    /\ dragging' = FALSE
    /\ pending' = None
    /\ scheduled' = FALSE
    /\ IF latest # None THEN Commit(requests, inflight, latest, drag.pos, FALSE)
       ELSE UNCHANGED <<drag, requests, inflight, probed, pickVars>>
    /\ strays' = strays \cup StraysOfRelease
    /\ UNCHANGED <<planVars, timers, latest, boundVars>>

\* The last place is asked for at once; without one the last route is
\* committed for the place the marker is at.
MouseUp ==
    /\ dragging
    /\ dragging' = FALSE
    /\ pending' = None
    /\ scheduled' = (scheduled /\ pending = None)
    /\ IF pending # None THEN Fire("final", pending, FALSE) /\ UNCHANGED pickVars
       ELSE IF latest # None THEN Commit(requests, inflight, latest, drag.pos, FALSE)
       ELSE UNCHANGED <<drag, requests, inflight, probed, pickVars>>
    /\ strays' = strays \cup StraysOfRelease
    /\ UNCHANGED <<planVars, timers, latest, boundVars>>

\* The first request: its route is the preview.
FirstAnswer(r, route) ==
    /\ latest' = IF route # None THEN route ELSE latest
    /\ Render(IF route # None THEN [drag EXCEPT !.live = route]
              ELSE drag, requests \ {r}, inflight, dragging)
    /\ UNCHANGED <<pickVars, pending, scheduled, timers>>

\* A request of a drag: a place that has come in since is asked for next.
MoveAnswer(r, route) ==
    /\ latest' = IF route # None THEN route ELSE latest
    /\ Render(IF route # None THEN [drag EXCEPT !.live = route]
              ELSE drag,
              requests \ {r}, inflight, dragging)
    /\ IF pending # None THEN (scheduled \/ timers < MaxTimers) /\ Schedule
       ELSE UNCHANGED <<scheduled, timers>>
    /\ UNCHANGED <<pickVars, pending>>

\* The request of the release: without a route the last one is committed.
FinalAnswer(r, route) ==
    /\ latest' = IF route # None THEN route ELSE latest
    /\ IF latest' # None
       THEN Commit(requests \ {r}, inflight, latest', IF route # None THEN r.pos ELSE drag.pos, dragging)
       ELSE /\ Render(drag, requests \ {r}, inflight, dragging)
            /\ UNCHANGED pickVars
    /\ UNCHANGED <<pending, scheduled, timers>>

\* OSRM finds a route, or none.
Answer(r, found) ==
    LET route == IF found THEN Route(r.ends, r.pos) ELSE None
    IN  /\ drag # None
        /\ strays' = StraysOfAnswer(r, found)
        /\ \/ r.kind = "first" /\ FirstAnswer(r, route)
           \/ r.kind = "move"  /\ MoveAnswer(r, route)
           \/ r.kind = "final" /\ FinalAnswer(r, route)
        /\ UNCHANGED <<planVars, dragging, boundVars>>

\* The first request fails: it is forgotten.  Another fails like one that
\* finds no route, but for the colour of the marker.
Lost(r) ==
    /\ r.kind = "first"
    /\ requests' = requests \ {r}
    /\ inflight' = IF inflight = r THEN None ELSE inflight
    /\ strays' = strays \cup {"noroute"}
    /\ UNCHANGED <<planVars, pickVars, drag, pending, scheduled, timers, dragging,
                   latest, probed, boundVars>>

\* App renders for another reason.
Rerender ==
    /\ drag # None
    /\ Render(drag, requests, inflight, dragging)
    /\ UNCHANGED <<planVars, pickVars, pending, scheduled, timers, dragging, latest, strays, boundVars>>

----------------------------------------------------------------------------
(* The panel of a leg *)

\* Applying an alternative retires the marker of the leg.
ApplyAlt(l, i) ==
    /\ Plan # None /\ l \in DOMAIN Plan.legs /\ ~dragging
    /\ Len(Plan.legs[l].alts) > 1 /\ i \in DOMAIN Plan.legs[l].alts
    /\ IsVia(picks[l]) \/ AskedIndex(Plan.legs[l], picks[l]) # i
    /\ Keep(Plan, [picks EXCEPT ![l] = AltPick(i, Plan.sig)])
    /\ IF drag # None /\ drag.leg = l THEN MarkerGone ELSE UNCHANGED dragVars
    /\ UNCHANGED <<planVars, boundVars>>

ResetLeg(l) ==
    /\ Plan # None /\ l \in DOMAIN Plan.legs /\ ~dragging
    /\ IsVia(picks[l]) \/ AskedIndex(Plan.legs[l], picks[l]) # Plan.legs[l].sel
    /\ Keep(Plan, [picks EXCEPT ![l] = None])
    /\ IF drag # None /\ drag.leg = l THEN MarkerGone ELSE UNCHANGED dragVars
    /\ UNCHANGED <<planVars, boundVars>>

ResetEdits ==
    /\ Plan # None /\ ~dragging /\ HasEdits(picks)
    /\ Keep(Plan, NoPicks)
    /\ UNCHANGED <<planVars, dragVars, boundVars>>

----------------------------------------------------------------------------
(* The plan that is shown *)

Show(planned, opened) ==
    /\ raw' = planned /\ tour' = opened
    /\ Keep(Shown(planned, opened), picks)

\* setPlannedResult
PlanArrives(p) == Turn /\ Show(p, None) /\ MarkerGone /\ UNCHANGED <<saved, save>>

StartOver == raw # None /\ Show(None, tour) /\ MarkerGone /\ UNCHANGED <<saved, save, boundVars>>

\* Another cluster is picked, or clusters are discovered: the marker stays.
LeavePlan == raw # None /\ Show(None, tour) /\ UNCHANGED <<saved, save, dragVars, boundVars>>

\* The search changes.
CloseTour == tour # None /\ Show(raw, None) /\ UNCHANGED <<saved, save, dragVars, boundVars>>

TourLoads ==
    /\ tour = Loading
    /\ Show(None, saved.plan)
    /\ UNCHANGED <<saved, save, dragVars, boundVars>>

\* App mounts anew, after a visit to My Tours or a reload: the state is read
\* for the key of the first render.  A reload ends the save under way.
Mount(opened, reload) ==
    LET plan == Shown(None, opened)
        read == IF store[Key(plan)] = Absent THEN NoPicks ELSE store[Key(plan)]
        kept == [store EXCEPT ![Key(plan)] = read]
    IN  /\ Turn
        /\ opened \in {None} \cup (IF saved = None THEN {} ELSE {Loading, saved.plan})
        /\ raw' = None /\ tour' = opened
        /\ save' = IF reload THEN None ELSE save
        /\ picks' = read
        /\ store' = IF plan = None THEN kept ELSE Pruned(kept, plan.sig)
        /\ drag' = None /\ requests' = {} /\ inflight' = None /\ pending' = None
        /\ scheduled' = FALSE /\ timers' = 0 /\ dragging' = FALSE
        /\ latest' = None /\ probed' = None /\ strays' = {}
        /\ UNCHANGED saved

----------------------------------------------------------------------------
(* Saving *)

Faithful(plan) == plan.line = Drawn(plan, NoPicks)

PersistTour ==
    /\ Turn /\ bound.saving
    /\ save = None /\ Plan # None /\ ~dragging
    /\ \A l \in DOMAIN Plan.legs : Len(Plan.legs[l].alts) <= MaxAlternatives
    /\ save' = [plan |-> ApplyLegEdits(Plan, picks), drew |-> Drawn(Plan, picks),
                fit |-> Fits(Plan, picks) /\ Faithful(Plan), stored |-> FALSE]
    /\ UNCHANGED <<raw, tour, saved, pickVars, dragVars>>

\* The tour that is open is replaced if it is the one that was saved.
Stored ==
    /\ save # None /\ ~save.stored
    /\ saved' = save
    /\ save' = [save EXCEPT !.stored = TRUE]
    /\ \E opened \in {tour} \cup (IF tour \in {None, Loading} THEN {} ELSE {save.plan}) :
         Show(raw, opened)
    /\ UNCHANGED <<dragVars, boundVars>>

SaveFails ==
    /\ save # None /\ ~save.stored
    /\ save' = None
    /\ UNCHANGED <<raw, tour, saved, pickVars, dragVars, boundVars>>

\* The list is read again; the picks of every other plan are dropped.
SaveEnds ==
    /\ save # None /\ save.stored
    /\ save' = None
    /\ store' = Pruned(store, save.plan.sig)
    /\ UNCHANGED <<raw, tour, saved, picks, dragVars, boundVars>>

----------------------------------------------------------------------------

InitEdits ==
    /\ raw = None /\ tour = None /\ saved = None /\ save = None
    /\ picks = NoPicks
    /\ store = [k \in Signatures \cup {"none"} |-> IF k = "none" THEN NoPicks ELSE Absent]
    /\ drag = None /\ requests = {} /\ inflight = None /\ pending = None
    /\ scheduled = FALSE /\ timers = 0 /\ dragging = FALSE
    /\ latest = None /\ probed = None /\ strays = {}
    /\ turns = 0 /\ bound \in Bounds

Drags ==
    \/ \E l \in LegNumbers : StartViaDrag(l)
    \/ CancelViaDrag
    \/ MouseDown
    \/ \E pos \in bound.positions : MouseMove(pos)
    \/ MouseUp
    \/ Throttle
    \/ \E r \in requests : \E found \in BOOLEAN : Answer(r, found)
    \/ \E r \in requests : Lost(r)
    \/ Rerender

Picking ==
    \/ \E l \in LegNumbers : \E i \in 1..MaxAlternatives + 1 : ApplyAlt(l, i)
    \/ \E l \in LegNumbers : ResetLeg(l)
    \/ ResetEdits

Planning ==
    \/ \E p \in Planned : PlanArrives(p)
    \/ StartOver \/ LeavePlan \/ CloseTour \/ TourLoads
    \/ \E opened \in {None, Loading} \cup (IF saved = None THEN {} ELSE {saved.plan}) :
         \E reload \in BOOLEAN : Mount(opened, reload)

Saving == PersistTour \/ Stored \/ SaveFails \/ SaveEnds

NextEdits == Drags \/ Picking \/ Planning \/ Saving

SpecEdits == InitEdits /\ [][NextEdits]_editVars

----------------------------------------------------------------------------
(* Properties *)

\* Types; nothing is dragged without a marker, and what is pending has a
\* timer to send it.
EditsTypeOK ==
    /\ raw \in Planned \cup {None}
    /\ DOMAIN picks = LegNumbers
    /\ \A k \in DOMAIN store : store[k] = Absent \/ DOMAIN store[k] = LegNumbers
    /\ {scheduled, dragging} \subseteq BOOLEAN
    /\ strays \subseteq Strays
    /\ timers \in 0..MaxTimers
    /\ pending \in bound.positions \cup {None}
    /\ dragging => drag # None
    /\ pending # None => dragging /\ timers > 0

\* "At most one request in flight": however fast the marker is dragged,
\* released and dropped on another leg (LegViaPointLayer.tsx:39).
NoBacklog == Cardinality(requests) <= 1

\* "The latest position always wins", but for three cases: once every request
\* is answered and App has rendered, the preview is the route through the
\* place of the marker, unless there was no route, or the route of another
\* leg was committed for it, or a release was answered late (Strays); and
\* then too, after the next release that is answered in time
\* (LegViaPointLayer.tsx:39).
LatestPositionWins ==
    (drag # None /\ requests = {} /\ ~dragging /\ strays = {}
     /\ probed = (IF drag.live = None THEN <<drag.leg, drag.pos>> ELSE None))
    => drag.live = Route(drag.ends, drag.pos)

\* "Without pruning they grow unbounded": the picks of at most one plan are
\* kept (persistent-state.ts:105-113).
OnePlanIsKept == Cardinality({k \in DOMAIN store \ {"none"} : store[k] # Absent}) <= 1

\* A tour that was saved with edits and is opened again is drawn, and
\* downloaded, as it was shown when it was saved (persistent-state.ts:231-241).
SavedShowsWhatWasShown ==
    (saved # None /\ saved.fit)
    => /\ Drawn(saved.plan, NoPicks) = saved.drew
       /\ EditedPolyline(saved.plan, NoPicks) = saved.drew

\* "replanning a different cluster does not apply them": a pick that is
\* shown was made on a plan with the signature of the one it is shown on.
EditsStayWithTheirPlan ==
    Plan # None => \A l \in LegNumbers : picks[l] # None => picks[l].on = Plan.sig

=============================================================================

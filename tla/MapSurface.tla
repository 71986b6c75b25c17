----------------------------- MODULE MapSurface -----------------------------
(***************************************************************************)
(* The map under the layers: MapView and useMap.  The WebGL context may be *)
(* lost, with or without an event, in the foreground or while the app is   *)
(* in the background; MapLibre nulls the style and puts it back, not yet   *)
(* loaded, if the context is restored; MapView takes `ready' back, or      *)
(* builds the map anew.  Meanwhile the user goes on asking for layers.     *)
(*                                                                         *)
(* A render asks whether the map is ready; its effects run in a later task *)
(* with that answer, and no other render starts before they have run.  The *)
(* context may be lost in between.                                         *)
(***************************************************************************)
EXTENDS MapLayers

CONSTANTS Varying,    \* sets of inputs: what changes in one behaviour
          MaxLosses   \* bound, for each of them: how often the context is lost

ASSUME SurfaceAssumption ==
    /\ \A v \in Varying : v \subseteq Inputs
    /\ MaxLosses \in [Varying -> Nat]

VARIABLES varying,      \* the inputs that change in this behaviour
          want,         \* [Inputs -> value]: the props of the layers
          drawn,        \* the props the effects last ran with
          seen,         \* `ready' as they last ran with it
          pending,      \* the render whose effects have not run: its props, what
                        \* useMap said, whether the context was lost since (history)
          threw,        \* an effect threw: the error screen
          gl,           \* the WebGL context: "ok", "lost", or "silent": lost without an event
          style,        \* map.style: [at, map]; at is "none", "loading" or "loaded"
          saved,        \* the style MapLibre keeps when the context is lost
          api,          \* the state of MapView: "waiting" or "ready"
          started,      \* the event load of this map has fired
          contextLost,  \* MapView's flag
          timer,        \* the timer of onMapContextLost
          reenable,     \* reenable waits for the next idle
          rebuild,      \* recreateKey has been bumped and not been rendered
          visible,      \* document.visibilityState
          losses

vars == <<varying, want, drawn, seen, pending, threw, gl, style, saved, api, started, contextLost,
          timer, reenable, rebuild, visible, losses>>

effects == <<drawn, seen, pending, threw>>
page    == <<varying, want, effects>>
context == <<gl, style, saved, started, losses>>
view    == <<api, contextLost, timer, reenable, rebuild>>

----------------------------------------------------------------------------

Toggles == {"shown", "selected", "edit"}

Values(i) ==
    IF i \in Toggles THEN {"none", "x"}
    ELSE IF i \in {"parkings", "graph"} THEN {"none", "pending", "x"}
    ELSE {"none", "x"}

Gone == [at |-> "none", map |-> Blank]

Nothing == [i \in Inputs |-> "none"]

NoRender == [kind |-> "none", want |-> Nothing, ready |-> FALSE, lost |-> FALSE]

\* useMap: a map whose style has gone is not ready.
Ready == api = "ready" /\ style.at # "none"

----------------------------------------------------------------------------
(* The page *)

Ask(i, v) ==
    /\ i \in varying /\ v \in Values(i) \ {want[i]}
    /\ want' = [want EXCEPT ![i] = v]
    /\ UNCHANGED <<varying, effects, context, view, visible>>

\* A render, after a change of state.  (One without a change runs no effect.)
Render ==
    /\ pending = NoRender
    /\ rebuild \/ want # drawn \/ Ready # seen
    /\ pending' = [kind |-> IF rebuild THEN "rebuild" ELSE "commit", want |-> want,
                   ready |-> Ready, lost |-> FALSE]
    /\ rebuild' = FALSE
    /\ UNCHANGED <<varying, want, drawn, seen, threw, context, api, contextLost, timer, reenable,
                   visible>>

\* Mutant: the old map is removed at once.
RemovedAtOnce == Gone

\* The old map is removed in a microtask, after the effects of the render.
OldStyle == style

\* Where the map is built anew, all layers are mounted again, and run their
\* effects with the old map before MapView makes the new one.
Rebuilding == pending.kind = "rebuild"

Anew == pending.ready # seen

\* Whether an effect gets as far as the style.
Touches ==
    pending.ready /\ (Rebuilding \/ Running(pending.want, drawn, Anew) # <<>>)

\* The effects touch a style that is not loaded.
Breaks == Touches /\ (IF Rebuilding THEN OldStyle ELSE style).at # "loaded"

Throw ==
    /\ Breaks
    /\ threw' = TRUE
    /\ UNCHANGED <<varying, want, drawn, seen, pending, context, view, visible>>

Draw ==
    /\ pending.kind = "commit" /\ ~Breaks
    /\ drawn' = pending.want
    /\ seen' = pending.ready
    /\ pending' = NoRender
    /\ style' = IF Touches
                THEN [style EXCEPT !.map = Committed(@, pending.want, drawn, Anew)]
                ELSE style
    /\ UNCHANGED <<varying, want, threw, gl, saved, started, losses, view, visible>>

Renew ==
    /\ Rebuilding /\ ~Breaks
    /\ drawn' = pending.want
    /\ seen' = FALSE
    /\ pending' = NoRender
    /\ gl' = "ok"
    /\ style' = [at |-> "loading", map |-> Blank]
    /\ saved' = Gone
    /\ started' = FALSE
    /\ api' = "waiting"
    /\ contextLost' = FALSE /\ timer' = FALSE /\ reenable' = FALSE
    /\ UNCHANGED <<varying, want, threw, rebuild, visible, losses>>

\* The user moves the map: the leader line is worked out again, with the plan
\* its effect last ran with.
MapMoves ==
    /\ seen /\ visible /\ gl = "ok" /\ style.at = "loaded"
    /\ Has(style.map, "leader")
    /\ style' = [style EXCEPT !.map = Leader(@, drawn)]
    /\ UNCHANGED <<page, gl, saved, started, losses, view, visible>>

----------------------------------------------------------------------------
(* MapLibre and the browser *)

StyleLoads ==
    /\ style.at = "loading" /\ gl = "ok"
    /\ style' = [style EXCEPT !.at = "loaded"]
    /\ UNCHANGED <<page, gl, saved, started, losses, view, visible>>

\* Frames are drawn only while the page is visible.
Load ==
    /\ style.at = "loaded" /\ gl = "ok" /\ visible /\ ~started
    /\ started' = TRUE
    /\ api' = "ready"
    /\ UNCHANGED <<page, gl, style, saved, losses, contextLost, timer, reenable, rebuild, visible>>

\* Mutant: only what the events say counts.
DeadByEvent == contextLost /\ style.at = "none"

\* The context was lost and the style is gone; or the context itself says
\* that it is lost.
Dead == (contextLost /\ style.at = "none") \/ gl # "ok"

RecreateIfDead == rebuild' = (rebuild \/ Dead)

\* MapLibre saves the style and nulls it; onMapContextLost.
ContextLost ==
    /\ gl = "ok" /\ losses < MaxLosses[varying]
    /\ gl' = "lost"
    /\ saved' = IF style.at = "loaded" THEN style ELSE Gone
    /\ style' = Gone
    /\ losses' = losses + 1
    /\ contextLost' = TRUE
    /\ api' = "waiting"
    /\ timer' = TRUE
    /\ pending' = [pending EXCEPT !.lost = (pending.kind # "none")]
    /\ UNCHANGED <<varying, want, drawn, seen, threw, started, reenable, rebuild, visible>>

\* The context is discarded in the background, and no event says so.
SilentLoss ==
    /\ gl = "ok" /\ losses < MaxLosses[varying] /\ ~visible
    /\ gl' = "silent"
    /\ losses' = losses + 1
    /\ UNCHANGED <<page, style, saved, started, view, visible>>

\* MapLibre saves a style that was loaded, and puts it back to be loaded again.
Restored == IF saved.at = "loaded" THEN [saved EXCEPT !.at = "loading"] ELSE Gone

\* onMapContextRestored, and recover at the canvas.
ContextRestored ==
    /\ gl = "lost"
    /\ gl' = "ok"
    /\ style' = Restored
    /\ timer' = FALSE
    /\ reenable' = TRUE
    /\ rebuild' = (rebuild \/ (contextLost /\ Restored.at = "none"))
    /\ UNCHANGED <<page, saved, started, losses, api, contextLost, visible>>

Idle ==
    /\ reenable /\ style.at = "loaded" /\ gl = "ok" /\ visible
    /\ reenable' = FALSE
    /\ contextLost' = FALSE
    /\ api' = "ready"
    /\ UNCHANGED <<page, context, timer, rebuild, visible>>

\* The context did not come back by itself.
Timer ==
    /\ timer
    /\ timer' = FALSE
    /\ rebuild' = (rebuild \/ (visible /\ Dead))
    /\ UNCHANGED <<page, context, api, contextLost, reenable, visible>>

Hide ==
    /\ visible
    /\ visible' = FALSE
    /\ UNCHANGED <<page, context, view>>

\* visibilitychange, pageshow: recover.
Return ==
    /\ ~visible
    /\ visible' = TRUE
    /\ RecreateIfDead
    /\ UNCHANGED <<page, context, api, contextLost, timer, reenable>>

\* focus of a window that stayed visible: recover.
Focus ==
    /\ visible
    /\ RecreateIfDead
    /\ UNCHANGED <<page, context, api, contextLost, timer, reenable, visible>>

----------------------------------------------------------------------------

Init ==
    /\ varying \in Varying
    /\ want = Nothing /\ drawn = Nothing
    /\ seen = FALSE /\ threw = FALSE /\ pending = NoRender
    /\ gl = "ok"
    /\ style = [at |-> "loading", map |-> Blank]
    /\ saved = Gone
    /\ api = "waiting" /\ started = FALSE
    /\ contextLost = FALSE /\ timer = FALSE /\ reenable = FALSE /\ rebuild = FALSE
    /\ visible = TRUE
    /\ losses = 0

Browser == StyleLoads \/ Load \/ Idle \/ ContextLost \/ SilentLoss \/ ContextRestored

Lives == Timer \/ Hide \/ Return \/ Focus

\* The error screen is the end.
Next ==
    /\ ~threw
    /\ \/ \E i \in varying : \E v \in Values(i) : Ask(i, v)
       \/ Render \/ Draw \/ Renew \/ Throw
       \/ Browser \/ Lives \/ MapMoves

\* Draw, Renew or Throw, by what they do to the render.
EffectsRun ==
    /\ pending.kind # "none"
    /\ \/ pending' = NoRender /\ UNCHANGED threw
       \/ threw' = TRUE /\ UNCHANGED pending

\* React renders what has changed and runs the effects; a style loads and timers
\* expire; who leaves the page comes back, and often enough frames are drawn.
Fairness ==
    /\ WF_vars(~threw /\ Render) /\ WF_<<pending, threw>>(~threw /\ EffectsRun)
    /\ WF_vars(~threw /\ StyleLoads) /\ WF_vars(~threw /\ Timer) /\ WF_vars(~threw /\ Return)
    /\ SF_vars(~threw /\ Load) /\ SF_vars(~threw /\ Idle)

Spec == Init /\ [][Next]_vars /\ Fairness

----------------------------------------------------------------------------
(* Properties *)

\* Types, and how the parts of MapView's state go together: the map is not
\* called ready while its style is being put back.
SurfaceTypeOK ==
    /\ \A i \in Inputs : want[i] \in Values(i) /\ drawn[i] \in Values(i)
    /\ gl \in {"ok", "lost", "silent"}
    /\ style.at \in {"none", "loading", "loaded"}
    /\ {seen, threw, started, contextLost, timer, reenable, rebuild, visible} \subseteq BOOLEAN
    /\ pending.kind \in {"none", "commit", "rebuild"}
    /\ {pending.ready, pending.lost} \subseteq BOOLEAN
    /\ api \in {"waiting", "ready"}
    /\ api = "ready" => style.at = "loaded"

\* An effect of a layer touches a style that is gone, or not loaded yet, in
\* one case only: the context is lost, with its event, after the render that
\* found the map ready and before the effects of that render.  However else
\* it is lost, restored or given up, none does, those of the layers of a map
\* that is being replaced included (MapView.tsx:226-233, 382-392,
\* MapContext.tsx:36-42).
EffectsTouchLiveStyle == threw => pending.lost

Settled == /\ api = "ready" /\ ~rebuild /\ gl = "ok"
           /\ pending = NoRender /\ seen /\ drawn = want

\* When a tour begins or ends to be edited, its leader line is emptied, and
\* stays so until the map is moved.
MayBeEmpty == IF "edit" \in varying THEN {"leader"} ELSE {}

\* Once all is rendered, every layer shows what was last asked for, also
\* what was asked for while there was no map to draw it on, in the order of
\* the list (map-layers.ts:119-125); but where the tour is edited the leader
\* line may be missing.
LayersAreWhatIsAsked ==
    Settled => ShowsWhatIsAsked(style.map, want, MayBeEmpty) /\ InOrder(style.map)

\* A context that is lost, with an event or without, does not leave a dead
\* map: it is drawn again, or the user's next visit rebuilds it; or the loss
\* came between a render and its effects, and there is the error screen.
MapComesBack == gl # "ok" ~> ((threw /\ pending.lost) \/ (gl = "ok" /\ api = "ready"))

=============================================================================

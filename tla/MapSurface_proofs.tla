------------------------- MODULE MapSurface_proofs --------------------------
(***************************************************************************)
(* Theorems about MapSurface, for any sets of changing inputs and any      *)
(* number of losses of the WebGL context.                                  *)
(***************************************************************************)
EXTENDS MapSurface, TLAPS

----------------------------------------------------------------------------
(***************************************************************************)
(* The inductive invariant: types, and what MapView's state says of the    *)
(* context and the style it cannot ask at every step.                      *)
(***************************************************************************)

Phases == {"none", "loading", "loaded"}

\* A style, whatever it holds.
IsStyle(s) == s = [at |-> s.at, map |-> s.map] /\ s.at \in Phases

\* What the layers are asked for.
AreProps(w) == \A i \in Inputs : w[i] \in Values(i)

IsRender(p) ==
    /\ p = [kind |-> p.kind, want |-> p.want, ready |-> p.ready, lost |-> p.lost]
    /\ p.kind \in {"none", "commit", "rebuild"} /\ p.ready \in BOOLEAN /\ p.lost \in BOOLEAN

Types ==
    /\ varying \subseteq Inputs
    /\ want \in [Inputs -> {"none", "pending", "x"}]
    /\ AreProps(want) /\ AreProps(drawn)
    /\ IsRender(pending) /\ AreProps(pending.want)
    /\ gl \in {"ok", "lost", "silent"}
    /\ IsStyle(style) /\ IsStyle(saved)
    /\ {seen, threw, started, contextLost, timer, reenable, rebuild, visible} \subseteq BOOLEAN
    /\ api \in {"waiting", "ready"}

\* Where the context is lost with an event MapView knows it, has nothing ready, and
\* MapLibre has no style: neither an effect nor a frame can touch one.
LossIsKnown ==
    gl = "lost" => contextLost /\ api = "waiting" /\ style.at = "none"

\* A map is called ready only with its style loaded.
ReadyIsLoaded == api = "ready" => style.at = "loaded"

\* A map with a context that is not ready is about to be: it is to be built anew, or just
\* being built, or its style is on its way and the first load or the next idle will say so
\* (MapView.tsx:264-308).
WaitingMapIsPending ==
    gl = "ok" /\ api = "waiting" =>
        rebuild \/ Rebuilding \/ (style.at # "none" /\ (~started \/ reenable))

\* What a render found ready is still loaded when its effects run, unless the context was
\* lost in between.
RenderHolds ==
    pending.ready =>
        pending.kind # "none" /\ (pending.lost \/ (style.at = "loaded" /\ gl # "lost"))

IInv == /\ Types /\ LossIsKnown /\ ReadyIsLoaded /\ WaitingMapIsPending /\ RenderHolds
        /\ EffectsTouchLiveStyle

----------------------------------------------------------------------------
(***************************************************************************)
(* Styles.                                                                 *)
(***************************************************************************)

LEMMA GoneIsStyle == IsStyle(Gone) /\ Gone.at = "none"
BY DEF IsStyle, Gone, Phases

LEMMA PhaseChanges ==
    ASSUME NEW s, IsStyle(s), NEW p \in Phases
    PROVE  IsStyle([s EXCEPT !.at = p]) /\ [s EXCEPT !.at = p].at = p
BY DEF IsStyle

LEMMA MapChanges ==
    ASSUME NEW s, IsStyle(s), NEW m
    PROVE  IsStyle([s EXCEPT !.map = m]) /\ [s EXCEPT !.map = m].at = s.at
BY DEF IsStyle

LEMMA RestoredIsStyle ==
    ASSUME IsStyle(saved)
    PROVE  IsStyle(Restored) /\ Restored.at \in {"none", "loading"}
BY GoneIsStyle, PhaseChanges DEF Restored, Phases

----------------------------------------------------------------------------
(***************************************************************************)
(* Every action keeps the invariant.                                       *)
(***************************************************************************)

LEMMA ValuesAreTyped == \A i \in Inputs : Values(i) \subseteq {"none", "pending", "x"}
BY DEF Values

LEMMA AskKeeps ==
    ASSUME IInv, NEW i \in varying, NEW v \in Values(i), Ask(i, v)
    PROVE  IInv'
<1> USE DEF IInv
<1>1. /\ i \in Inputs
      /\ want' = [want EXCEPT ![i] = v]
      /\ UNCHANGED <<varying, effects, context, view, visible>>
  BY DEF Ask, Types
<1>2. want' \in [Inputs -> {"none", "pending", "x"}]
  BY <1>1, ValuesAreTyped DEF Types
<1>3. AreProps(want')
  BY <1>1 DEF Types, AreProps, Values
<1>4. Types'
  BY <1>1, <1>2, <1>3 DEF Types, effects, context, view, IsStyle, AreProps, Values
<1> QED BY <1>1, <1>4 DEF LossIsKnown, ReadyIsLoaded, WaitingMapIsPending, RenderHolds,
            EffectsTouchLiveStyle, Rebuilding, effects, context, view

\* What a render finds ready is loaded.
LEMMA RenderKeeps == ASSUME IInv, Render PROVE IInv'
<1> USE DEF IInv
<1> DEFINE k == IF rebuild THEN "rebuild" ELSE "commit"
<1>1. /\ pending' = [kind |-> k, want |-> want, ready |-> Ready, lost |-> FALSE]
      /\ rebuild' = FALSE
      /\ UNCHANGED <<varying, want, drawn, seen, threw, context, api, contextLost, timer, reenable,
                     visible>>
      /\ pending = NoRender
  BY DEF Render
<1>2. /\ pending'.kind = k /\ pending'.want = want /\ pending'.ready = Ready /\ pending'.lost = FALSE
      /\ IsRender(pending')
  BY <1>1 DEF IsRender, Ready
<1>3. Types'
  BY <1>1, <1>2 DEF Types, context, IsStyle, AreProps, Values
<1>4. RenderHolds'
  BY <1>1, <1>2 DEF RenderHolds, Ready, ReadyIsLoaded, LossIsKnown, context
<1>5. WaitingMapIsPending'
  BY <1>1, <1>2 DEF WaitingMapIsPending, Rebuilding, NoRender, context
<1>6. ~threw
  BY <1>1 DEF EffectsTouchLiveStyle, NoRender
<1> QED BY <1>1, <1>3, <1>4, <1>5, <1>6 DEF LossIsKnown, ReadyIsLoaded, EffectsTouchLiveStyle,
            context

\* The step that throws: its effects were told that the map is ready, and its style is not
\* loaded any more, which only a loss in between can have done.
LEMMA ThrowKeeps == ASSUME IInv, Throw PROVE IInv'
<1> USE DEF IInv
<1>1. /\ pending.ready /\ style.at # "loaded"
      /\ threw' = TRUE
      /\ UNCHANGED <<varying, want, drawn, seen, pending, context, view, visible>>
  BY DEF Throw, Breaks, Touches, OldStyle
<1>2. pending.lost
  BY <1>1 DEF RenderHolds
<1>3. Types'
  BY <1>1 DEF Types, context, view, IsStyle, IsRender, AreProps, Values
<1> QED BY <1>1, <1>2, <1>3 DEF LossIsKnown, ReadyIsLoaded, WaitingMapIsPending, RenderHolds,
            EffectsTouchLiveStyle, Rebuilding, context, view

LEMMA NoRenderIsRender ==
    /\ IsRender(NoRender) /\ AreProps(NoRender.want)
    /\ NoRender.kind = "none" /\ NoRender.ready = FALSE /\ NoRender.lost = FALSE
BY DEF NoRender, Nothing, IsRender, AreProps, Values

LEMMA DrawKeeps == ASSUME IInv, ~threw, Draw PROVE IInv'
<1> USE DEF IInv
<1> DEFINE map == Committed(style.map, pending.want, drawn, Anew)
<1>1. /\ pending.kind = "commit"
      /\ drawn' = pending.want /\ seen' = pending.ready /\ pending' = NoRender
      /\ style' = IF Touches THEN [style EXCEPT !.map = map] ELSE style
      /\ UNCHANGED <<varying, want, threw, gl, saved, started, losses, view, visible>>
  BY DEF Draw
<1> HIDE DEF map
<1>2. IsStyle(style') /\ style'.at = style.at
  BY <1>1, MapChanges DEF Types
<1>3. Types'
  BY <1>1, <1>2, NoRenderIsRender DEF Types, view, IsStyle, IsRender, AreProps, Values
<1>4. WaitingMapIsPending'
  BY <1>1, <1>2 DEF WaitingMapIsPending, Rebuilding, view
<1> QED BY <1>1, <1>2, <1>3, <1>4, NoRenderIsRender DEF LossIsKnown, ReadyIsLoaded, RenderHolds,
            EffectsTouchLiveStyle, view

LEMMA RenewKeeps == ASSUME IInv, ~threw, Renew PROVE IInv'
<1> USE DEF IInv
<1>1. /\ drawn' = pending.want /\ seen' = FALSE /\ pending' = NoRender
      /\ gl' = "ok" /\ style' = [at |-> "loading", map |-> Blank] /\ saved' = Gone
      /\ started' = FALSE /\ api' = "waiting"
      /\ contextLost' = FALSE /\ timer' = FALSE /\ reenable' = FALSE
      /\ UNCHANGED <<varying, want, threw, rebuild, visible, losses>>
  BY DEF Renew
<1>2. style'.at = "loading" /\ IsStyle(style') /\ IsStyle(saved')
  BY <1>1, GoneIsStyle DEF IsStyle, Phases
<1>3. Types'
  BY <1>1, <1>2, NoRenderIsRender DEF Types, IsStyle, IsRender, AreProps, Values
<1> QED BY <1>1, <1>2, <1>3, NoRenderIsRender DEF LossIsKnown, ReadyIsLoaded, WaitingMapIsPending,
            RenderHolds, EffectsTouchLiveStyle

LEMMA MapMovesKeeps == ASSUME IInv, MapMoves PROVE IInv'
<1> USE DEF IInv
<1> DEFINE map == Leader(style.map, drawn)
<1>1. /\ style' = [style EXCEPT !.map = map]
      /\ UNCHANGED <<page, gl, saved, started, losses, view, visible>>
  BY DEF MapMoves
<1> HIDE DEF map
<1>2. IsStyle(style') /\ style'.at = style.at
  BY <1>1, MapChanges DEF Types
<1>3. Types'
  BY <1>1, <1>2 DEF Types, page, effects, view, IsStyle, IsRender, AreProps, Values
<1> QED BY <1>1, <1>2, <1>3 DEF LossIsKnown, ReadyIsLoaded, WaitingMapIsPending, RenderHolds,
            EffectsTouchLiveStyle, Rebuilding, page, effects, view

\* The steps of the browser, of MapLibre and of MapView, none of which runs an effect.
LEMMA BrowserKeeps == ASSUME IInv, ~threw, Browser PROVE IInv'
<1> USE DEF IInv
<1>1. CASE StyleLoads
  <2>1. IsStyle(style') /\ style'.at = "loaded"
    BY <1>1, PhaseChanges DEF StyleLoads, Types, Phases
  <2>2. Types'
    BY <1>1, <2>1 DEF StyleLoads, Types, page, effects, view, IsStyle, IsRender, AreProps, Values
  <2> QED BY <1>1, <2>1, <2>2 DEF StyleLoads, LossIsKnown, ReadyIsLoaded, WaitingMapIsPending,
              RenderHolds, EffectsTouchLiveStyle, Rebuilding, page, effects, view
<1>2. CASE Load
  <2>1. Types'
    BY <1>2 DEF Load, Types, page, effects, IsStyle, IsRender, AreProps, Values
  <2> QED BY <1>2, <2>1 DEF Load, LossIsKnown, ReadyIsLoaded, WaitingMapIsPending,
              RenderHolds, EffectsTouchLiveStyle, Rebuilding, page, effects
<1>3. CASE Idle
  <2>1. Types'
    BY <1>3 DEF Idle, Types, page, effects, context, IsStyle, IsRender, AreProps, Values
  <2> QED BY <1>3, <2>1 DEF Idle, LossIsKnown, ReadyIsLoaded, WaitingMapIsPending,
              RenderHolds, EffectsTouchLiveStyle, Rebuilding, page, effects, context
<1>4. CASE ContextLost
  <2>1. /\ gl' = "lost" /\ style' = Gone /\ contextLost' = TRUE /\ api' = "waiting" /\ timer' = TRUE
        /\ saved' = IF style.at = "loaded" THEN style ELSE Gone
        /\ pending' = [pending EXCEPT !.lost = (pending.kind # "none")]
        /\ UNCHANGED <<varying, want, drawn, seen, threw, started, reenable, rebuild, visible>>
    BY <1>4 DEF ContextLost
  <2>2. IsStyle(style') /\ IsStyle(saved') /\ style'.at = "none"
    BY <2>1, GoneIsStyle DEF Types
  <2>3. /\ pending'.kind = pending.kind /\ pending'.want = pending.want
        /\ pending'.ready = pending.ready /\ pending'.lost = (pending.kind # "none")
        /\ IsRender(pending')
    BY <2>1 DEF Types, IsRender
  <2>4. Types'
    BY <2>1, <2>2, <2>3 DEF Types, IsStyle, AreProps, Values
  <2> QED BY <2>1, <2>2, <2>3, <2>4 DEF LossIsKnown, ReadyIsLoaded, WaitingMapIsPending,
              RenderHolds, EffectsTouchLiveStyle
<1>5. CASE SilentLoss
  <2>1. Types'
    BY <1>5 DEF SilentLoss, Types, page, effects, view, IsStyle, IsRender, AreProps, Values
  <2> QED BY <1>5, <2>1 DEF SilentLoss, LossIsKnown, ReadyIsLoaded, WaitingMapIsPending,
              RenderHolds, EffectsTouchLiveStyle, Rebuilding, page, effects, view
<1>6. CASE ContextRestored
  <2>1. /\ gl = "lost" /\ gl' = "ok" /\ style' = Restored /\ timer' = FALSE /\ reenable' = TRUE
        /\ rebuild' = (rebuild \/ (contextLost /\ Restored.at = "none"))
        /\ UNCHANGED <<page, saved, started, losses, api, contextLost, visible>>
    BY <1>6 DEF ContextRestored
  <2>2. contextLost /\ api = "waiting"
    BY <2>1 DEF LossIsKnown
  <2>3. IsStyle(Restored) /\ Restored.at \in {"none", "loading"}
    BY RestoredIsStyle DEF Types
  <2>4. Types'
    BY <2>1, <2>3 DEF Types, page, effects, IsStyle, IsRender, AreProps, Values
  <2> QED BY <2>1, <2>2, <2>3, <2>4 DEF LossIsKnown, ReadyIsLoaded, WaitingMapIsPending,
              RenderHolds, EffectsTouchLiveStyle, Rebuilding, page, effects
<1> QED BY <1>1, <1>2, <1>3, <1>4, <1>5, <1>6 DEF Browser

LEMMA LivesKeeps == ASSUME IInv, Lives PROVE IInv'
<1> USE DEF IInv
<1>1. CASE Timer
  <2>1. Types'
    BY <1>1 DEF Timer, Types, page, effects, context, IsStyle, IsRender, AreProps, Values
  <2> QED BY <1>1, <2>1 DEF Timer, LossIsKnown, ReadyIsLoaded, WaitingMapIsPending,
              RenderHolds, EffectsTouchLiveStyle, Rebuilding, page, effects, context
<1>2. CASE Hide
  <2>1. Types'
    BY <1>2 DEF Hide, Types, page, effects, context, view, IsStyle, IsRender, AreProps, Values
  <2> QED BY <1>2, <2>1 DEF Hide, LossIsKnown, ReadyIsLoaded, WaitingMapIsPending,
              RenderHolds, EffectsTouchLiveStyle, Rebuilding, page, effects, context, view
<1>3. CASE Return \/ Focus
  <2>1. /\ rebuild' = (rebuild \/ Dead) /\ visible' = TRUE
        /\ UNCHANGED <<page, context, api, contextLost, timer, reenable>>
    BY <1>3 DEF Return, Focus, RecreateIfDead, Types
  <2>2. Types'
    BY <2>1 DEF Types, page, effects, context, IsStyle, IsRender, AreProps, Values, Dead
  <2> QED BY <2>1, <2>2 DEF LossIsKnown, ReadyIsLoaded, WaitingMapIsPending,
              RenderHolds, EffectsTouchLiveStyle, Rebuilding, page, effects, context
<1> QED BY <1>1, <1>2, <1>3 DEF Lives

----------------------------------------------------------------------------
(***************************************************************************)
(* The theorems.                                                           *)
(***************************************************************************)

\* MapView always knows of a loss it was told of, calls a map ready only when its style is
\* loaded, and never waits for nothing; and what a render found ready is loaded when its
\* effects run, unless the context was lost in between (MapView.tsx:226-308,
\* MapContext.tsx:36-42).
THEOREM SurfaceInvariance == Spec => []IInv
<1>1. Init => IInv
  <2> SUFFICES ASSUME Init PROVE IInv
    OBVIOUS
  <2>1. /\ varying \subseteq Inputs
        /\ style.at = "loading" /\ IsStyle(style) /\ IsStyle(saved)
    BY SurfaceAssumption, GoneIsStyle DEF Init, IsStyle, Phases
  <2>2. /\ want \in [Inputs -> {"none", "pending", "x"}]
        /\ AreProps(want) /\ AreProps(drawn)
    BY DEF Init, Nothing, AreProps, Values
  <2> QED BY <2>1, <2>2, NoRenderIsRender
          DEF Init, IInv, Types, LossIsKnown, ReadyIsLoaded, WaitingMapIsPending, RenderHolds,
              EffectsTouchLiveStyle
<1>2. IInv /\ [Next]_vars => IInv'
  <2> SUFFICES ASSUME IInv, [Next]_vars PROVE IInv'
    OBVIOUS
  <2>1. CASE UNCHANGED vars
    BY <2>1 DEF vars, IInv, Types, LossIsKnown, ReadyIsLoaded, WaitingMapIsPending,
                RenderHolds, EffectsTouchLiveStyle, Rebuilding, IsStyle, IsRender, AreProps, Values
  <2>2. CASE Next
    BY <2>2, AskKeeps, RenderKeeps, DrawKeeps, RenewKeeps, ThrowKeeps, MapMovesKeeps,
       BrowserKeeps, LivesKeeps DEF Next
  <2> QED BY <2>1, <2>2
<1> QED BY <1>1, <1>2, PTL DEF Spec

\* A loss between a render and its effects is the only way an effect of a layer touches a
\* style that is gone or not loaded (MapContext.tsx:36-42, MapView.tsx:277).
THEOREM OnlyALossBreaksEffects == Spec => []EffectsTouchLiveStyle
<1>1. IInv => EffectsTouchLiveStyle
  BY DEF IInv
<1> QED BY <1>1, SurfaceInvariance, PTL

\* The variables of MapView and MapLibre are typed, and ready means loaded.
THEOREM SurfaceIsTyped == Spec => []SurfaceTypeOK
<1>1. IInv => SurfaceTypeOK
  BY DEF IInv, Types, IsStyle, IsRender, AreProps, Phases, ReadyIsLoaded, SurfaceTypeOK
<1> QED BY <1>1, SurfaceInvariance, PTL

\* A map that is not ready never waits for nothing: whatever was lost and restored, a step
\* that brings it back is still to come (what MapComesBack needs of every state).
THEOREM NoMapWaitsForNothing == Spec => []WaitingMapIsPending
<1>1. IInv => WaitingMapIsPending
  BY DEF IInv
<1> QED BY <1>1, SurfaceInvariance, PTL

=============================================================================

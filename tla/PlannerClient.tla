---------------------------- MODULE PlannerClient ----------------------------
(***************************************************************************)
(* The web client around one planner: the App component with what it       *)
(* discovers, plans, opens and saves, the My Tours page, and the requests  *)
(* under way between them and the server.                                  *)
(*                                                                         *)
(* A handler, the render it causes and the effects that follow are one     *)
(* step.  A request, its answer, an effect that waits for data, and the    *)
(* pointer's own effect are steps of their own.  `app` is None while the   *)
(* other page is shown: React forgets the state of an unmounted component, *)
(* and an answer that comes later runs its handler all the same.           *)
(***************************************************************************)
EXTENDS TourSession

CONSTANTS Areas,        \* places the search circle can be moved to
          Knobs,        \* values of the settings discovery and planning share
          Handmade,     \* "manual": the id of a selection made by hand
          Starts,       \* [page, rows]: where the user may start, with what saved
          MaxOps        \* bound: what the user does in a behaviour

VARIABLES page,       \* "planner" or "tours"
          circle,     \* params: [area, grown]
          knob,       \* planSettings
          app,        \* the state of App, or None; `over` is history: the tour
                      \* open when the plan on screen was asked for
          discovering,\* the inputs of the requests for clusters under way
          planning,   \* None or [of, knob, area], and the key captured with it
          orphans,    \* plan and discover requests whose App has unmounted
          saving,     \* None or [target, name, plan, id]: the save under way
          list,       \* ["tours"]: a set of tours, or None
          listStale,  \* the list was invalidated, or grew old
          listFetch,  \* Idle, Asked or the answer under way
          warmed,     \* prefetchedRef of the page
          seen,       \* the list the page's effect last ran for
          told,       \* history: the tour saved last, None where a request for
                      \* the list was under way when its save ended
          ops         \* what the user did so far

appVars == <<page, circle, knob, app, discovering, planning, orphans>>
listVars == <<list, listStale, listFetch, warmed, seen, told>>
vars == <<serverVars, sessionVars, appVars, saving, listVars, ops>>

----------------------------------------------------------------------------
(* Types *)

Circle == [area : Areas, grown : BOOLEAN]

InputSet == [circle : Circle, knob : Knobs]

CandidateSet == [in : InputSet, n : {1, 2}]

PlanSet == [of : CandidateSet \union {Handmade}, knob : Knobs, area : Areas]

RowSet == [name : Names, plan : PlanSet, slug : Slugs \union {None}]

TourSet == [name : Names, plan : PlanSet]

EditTarget == [id : Tours, name : Names]

ShownSet == [id : Tours, of : TourSet]

AppState == [clusters : InputSet \union {None}, stamp : InputSet \union {None},
             chosen : CandidateSet \union {Handmade, None},
             planned : PlanSet \union {None}, key : Knobs \union {None},
             over : Tours \union {None},
             editing : EditTarget \union {None},
             coveredTour : Tours \union {None},
             coveredCluster : CandidateSet \union {None}]

PlanRequest == [plan : PlanSet, key : Knobs, over : Tours \union {None}]

SaveRequest == [target : Tours \union {None}, name : Names, plan : PlanSet,
                id : Tours \union {None}]

ASSUME PlannerClientAssumption ==
    /\ Areas # {} /\ Knobs # {} /\ Names # {}
    /\ MaxOps \in Nat
    /\ Starts \subseteq [page : {"planner", "tours"},
                         rows : [Tours -> RowSet \union {None, Gone}]]
    /\ None \notin Knobs
    /\ None \notin Tours
    /\ None \notin PlanSet
    /\ None \notin AppState
    /\ None \notin TourSet
    /\ None \notin ShownSet

----------------------------------------------------------------------------
(* App's state *)

Inputs == [circle |-> circle, knob |-> knob]      \* discoverInputKey
Fresh == [clusters |-> None, stamp |-> None, chosen |-> None, planned |-> None,
          key |-> None, over |-> None, editing |-> None,
          coveredTour |-> None, coveredCluster |-> None]

Candidate(inputs, n) == [in |-> inputs, n |-> n]
Plan(of, k, area) == [of |-> of, knob |-> k, area |-> area]

\* planResult: "a freshly planned cluster wins over an opened tour".
PlanResult(a, shown) ==
    IF a.planned # None THEN a.planned ELSE IF shown # None THEN shown.of.plan ELSE None

Stamped(a, c) == IF a.stamp = None THEN a ELSE [a EXCEPT !.stamp = [circle |-> c, knob |-> knob]]

\* coverSearchCircle for an opened tour, once for each: the circle is moved
\* there, which is no fresh search and leaves clusters as fresh as they are.
CircleFor(a, shown) ==
    IF shown = None \/ a.coveredTour = shown.id THEN circle
    ELSE [area |-> shown.of.plan.area, grown |-> FALSE]

\* The effects of an opened tour becoming the active view.
TourShown(a, shown) ==
    IF shown = None THEN a
    ELSE LET c == CircleFor(a, shown) IN
         [(IF c = circle THEN a ELSE Stamped(a, c)) EXCEPT
            !.planned = None, !.chosen = None, !.coveredTour = shown.id,
            !.editing = [id |-> shown.id, name |-> shown.of.name]]

\* The session's step shows another detail, or another tour.
Rerender ==
    IF app = None \/ Shown' = Shown THEN UNCHANGED <<app, circle>>
    ELSE app' = TourShown(app, Shown') /\ circle' = CircleFor(app, Shown')

User(p) == page = p /\ ops < MaxOps /\ ops' = ops + 1

----------------------------------------------------------------------------
(* The planner *)

\* A fresh search leaves the opened tour.
MoveCircle(a) ==
    /\ User("planner")
    /\ circle' = [area |-> a, grown |-> FALSE]
    /\ circle' # circle
    /\ CloseTour
    /\ UNCHANGED <<serverVars, page, knob, app, discovering, planning, orphans, saving, listVars>>

TurnKnob(k) ==
    /\ User("planner")
    /\ k # knob
    /\ knob' = k
    /\ UNCHANGED <<serverVars, sessionVars, page, circle, app, discovering, planning, orphans,
                   saving, listVars>>

\* onDiscover, also by way of goToClusters, whose button does not wait for the
\* request under way.  Two requests with the same inputs count as one.
Discover ==
    /\ User("planner")
    /\ discovering' = discovering \union {Inputs}
    /\ UNCHANGED <<serverVars, sessionVars, page, circle, knob, app, planning, orphans, saving,
                   listVars>>

\* onSuccess: the pool replaces the plan and the opened tour; the key is the
\* one of the inputs as they are by now.
Discovered ==
    /\ \E asked \in discovering :
         /\ app' = [app EXCEPT !.clusters = asked, !.stamp = Inputs, !.planned = None,
                               !.key = None, !.chosen = Candidate(asked, 1)]
         /\ discovering' = discovering \ {asked}
    /\ CloseTour
    /\ UNCHANGED <<serverVars, page, circle, knob, planning, orphans, saving, listVars, ops>>

DiscoverFails ==
    /\ \E asked \in discovering : discovering' = discovering \ {asked}
    /\ UNCHANGED <<serverVars, sessionVars, page, circle, knob, app, planning, orphans, saving,
                   listVars, ops>>

\* frameCluster, pickCluster: another choice clears the result of the one before.
PickCluster(n) ==
    /\ User("planner")
    /\ app.clusters # None
    /\ LET c == Candidate(app.clusters, n) IN
       app' = IF c = app.chosen THEN app
              ELSE [app EXCEPT !.planned = None, !.key = None, !.chosen = c]
    /\ UNCHANGED <<serverVars, sessionVars, page, circle, knob, discovering, planning, orphans,
                   saving, listVars>>

\* coverSearchCircle for the chosen cluster, once its caches are loaded: the
\* second candidate straddles the circle.
CoverCluster ==
    /\ app # None
    /\ app.clusters # None
    /\ app.chosen \notin {None, Handmade, app.coveredCluster}
    /\ LET grows == app.chosen.n = 2 /\ ~circle.grown
           c == [circle EXCEPT !.grown = TRUE] IN
       /\ circle' = IF grows THEN c ELSE circle
       /\ app' = [(IF grows THEN Stamped(app, c) ELSE app) EXCEPT !.coveredCluster = app.chosen]
    /\ UNCHANGED <<serverVars, sessionVars, page, knob, discovering, planning, orphans, saving,
                   listVars, ops>>

\* planCluster, replan, planSelection: disabled while a plan of this App is
\* under way.  The key is captured with the request.
PlanOf(c) ==
    /\ User("planner")
    /\ planning = None
    /\ c = Handmade \/ (app.clusters # None /\ app.chosen # None /\ c = app.chosen)
    /\ planning' = [plan |-> Plan(c, knob, circle.area), key |-> knob, over |-> open]
    /\ app' = [app EXCEPT !.chosen = c]
    /\ UNCHANGED <<serverVars, sessionVars, page, circle, knob, discovering, orphans, saving,
                   listVars>>

\* Mutant: the key is the one of the settings as they are by now.
PlannedLate ==
    /\ planning # None
    /\ app' = [app EXCEPT !.planned = planning.plan, !.key = knob, !.over = planning.over,
                   !.editing = IF Shown = None THEN None
                               ELSE [id |-> Shown.id, name |-> Shown.of.name]]
    /\ planning' = None
    /\ CloseTour
    /\ UNCHANGED <<serverVars, page, circle, knob, discovering, orphans, saving, listVars, ops>>

\* Mutant: the tour to overwrite is not cleared.
PlannedOver ==
    /\ planning # None
    /\ app' = [app EXCEPT !.planned = planning.plan, !.key = planning.key, !.over = planning.over,
                   !.editing = IF Shown = None THEN @
                               ELSE [id |-> Shown.id, name |-> Shown.of.name]]
    /\ planning' = None
    /\ CloseTour
    /\ UNCHANGED <<serverVars, page, circle, knob, discovering, orphans, saving, listVars, ops>>

\* onSuccess, setPlannedResult: with a tour open the plan is an edit of it, and
\* without one it is a new tour.
Planned ==
    /\ planning # None
    /\ app' = [app EXCEPT !.planned = planning.plan, !.key = planning.key, !.over = planning.over,
                   !.editing = IF Shown = None THEN None
                               ELSE [id |-> Shown.id, name |-> Shown.of.name]]
    /\ planning' = None
    /\ CloseTour
    /\ UNCHANGED <<serverVars, page, circle, knob, discovering, orphans, saving, listVars, ops>>

PlanFails ==
    /\ planning # None
    /\ planning' = None
    /\ UNCHANGED <<serverVars, sessionVars, page, circle, knob, app, discovering, orphans, saving,
                   listVars, ops>>

\* The handlers of an App that is gone: all they still reach is the session.
OrphanAnswers ==
    /\ orphans > 0
    /\ orphans' = orphans - 1
    /\ CloseTour
    /\ Rerender
    /\ UNCHANGED <<serverVars, page, knob, discovering, planning, saving, listVars, ops>>

OrphanFails ==
    /\ orphans > 0
    /\ orphans' = orphans - 1
    /\ UNCHANGED <<serverVars, sessionVars, page, circle, knob, app, discovering, planning, saving,
                   listVars, ops>>

\* clearAll.
Clear ==
    /\ User("planner")
    /\ app.clusters # None \/ app.planned # None
    /\ app' = [app EXCEPT !.clusters = None, !.chosen = None, !.planned = None]
    /\ UNCHANGED <<serverVars, sessionVars, page, circle, knob, discovering, planning, orphans,
                   saving, listVars>>

----------------------------------------------------------------------------
(* Saving *)

\* onSaveNew and onSaveChanges: what is stored is fixed when the button is
\* pressed.  Bound: one save at a time, also after the App was mounted anew.
PressSave(target, name) ==
    /\ User("planner")
    /\ saving = None
    /\ PlanResult(app, Shown) # None
    /\ saving' = [target |-> target, name |-> name, plan |-> PlanResult(app, Shown), id |-> None]
    /\ UNCHANGED <<serverVars, sessionVars, appVars, listVars>>

SaveNew == PressSave(None, CHOOSE name \in Names : TRUE)

SaveChanges == app # None /\ app.editing # None /\ PressSave(app.editing.id, app.editing.name)

\* POST or PUT at the server; the answer is on its way.
SaveServed ==
    /\ saving # None
    /\ saving.id = None
    /\ \E t \in Tours :
         /\ IF saving.target = None THEN Save(t, saving.name, saving.plan)
            ELSE t = saving.target /\ Update(t, saving.name, saving.plan)
         /\ saving' = [saving EXCEPT !.id = t]
    /\ UNCHANGED <<sessionVars, appVars, listVars, ops>>

\* The request fails, is refused (404), or its answer is lost: the `finally`
\* releases the button.
SaveFails ==
    /\ saving # None
    /\ saving' = None
    /\ UNCHANGED <<serverVars, sessionVars, appVars, listVars, ops>>

\* App is unmounted: its requests live on without it.
Unmount ==
    /\ app' = None
    /\ discovering' = {}
    /\ planning' = None
    /\ orphans' = orphans + Cardinality(discovering) + (IF planning = None THEN 0 ELSE 1)

\* The page is shown: prefetchedRef starts empty, and the list is asked for
\* where it is missing, invalidated or old.
ShowTours(l, old) ==
    /\ page' = "tours"
    /\ IF page = "tours" THEN UNCHANGED <<app, discovering, planning, orphans>> ELSE Unmount
    /\ warmed' = IF page = "tours" THEN warmed ELSE {}
    /\ seen' = IF page = "tours" THEN seen ELSE None
    /\ listFetch' = IF old /\ (page = "tours" \/ listFetch = Idle) THEN Asked ELSE listFetch

\* persistTour to its end: the row is put into the list, which is invalidated,
\* and the detail into the cache; a new tour takes the user to the list.
SaveDone ==
    /\ saving # None
    /\ saving.id # None
    /\ Stored(saving.id, [name |-> saving.name, plan |-> saving.plan], saving.target # None)
    /\ list' = {saving.id} \union (IF list = None THEN {} ELSE list)
    /\ IF saving.target = None
       THEN ShowTours(list', TRUE) /\ UNCHANGED circle
       ELSE /\ Rerender
            /\ listFetch' = IF page = "tours" THEN Asked ELSE listFetch
            /\ UNCHANGED <<page, discovering, planning, orphans, warmed, seen>>
    /\ listStale' = (listFetch' # Asked)
    /\ told' = IF listFetch = Idle THEN saving.id ELSE None
    /\ saving' = None
    /\ UNCHANGED <<serverVars, knob, ops>>

----------------------------------------------------------------------------
(* My Tours *)

\* The list may have grown old (30 s) whether or not it was invalidated.
GoToTours ==
    /\ User("planner")
    /\ \E old \in {TRUE, list = None \/ listStale} : ShowTours(list, old)
    /\ UNCHANGED <<serverVars, sessionVars, circle, knob, saving, list, listStale, told>>

BackToPlanner ==
    /\ User("tours")
    /\ page' = "planner"
    /\ app' = TourShown(Fresh, Shown)
    /\ circle' = CircleFor(Fresh, Shown)
    /\ UNCHANGED <<serverVars, sessionVars, knob, discovering, planning, orphans, saving,
                   listVars>>

\* onOpen.
Open(t) ==
    /\ User("tours")
    /\ list # None /\ t \in list
    /\ OpenTour(t)
    /\ page' = "planner"
    /\ app' = TourShown(Fresh, Shown')
    /\ circle' = CircleFor(Fresh, Shown')
    /\ UNCHANGED <<serverVars, knob, discovering, planning, orphans, saving, listVars>>

\* The buttons of a row, each with its request and, where that is answered, a
\* new request for the list.
Manage ==
    /\ User("tours")
    /\ \E t \in IF list = None THEN {} ELSE list :
         \/ \E name \in Names : Rename(t, name) /\ name # rows[t].name
         \/ \E slug \in Slugs : Share(t, slug)
         \/ Unshare(t)
         \/ Delete(t)
    /\ \E answered \in BOOLEAN : listFetch' = IF answered THEN Asked ELSE listFetch
    /\ UNCHANGED <<sessionVars, appVars, saving, list, listStale, warmed, seen, told>>

ListServed ==
    /\ listFetch = Asked
    /\ listFetch' = List
    /\ UNCHANGED <<serverVars, sessionVars, appVars, saving, list, listStale, warmed, seen, told, ops>>

ListAnswers ==
    /\ listFetch \notin {Idle, Asked}
    /\ list' = listFetch
    /\ listStale' = FALSE
    /\ listFetch' = Idle
    /\ UNCHANGED <<serverVars, sessionVars, appVars, saving, warmed, seen, told, ops>>

ListFails ==
    /\ listFetch # Idle
    /\ listFetch' = Idle
    /\ UNCHANGED <<serverVars, sessionVars, appVars, saving, list, listStale, warmed, seen, told, ops>>

\* The page's effect on a list: IndexedDB is pruned to it, and every tour not
\* asked for since the page was shown is fetched for it, the best it can.
WarmStore ==
    /\ page = "tours"
    /\ list # None
    /\ seen # list
    /\ seen' = list
    /\ warmed' = warmed \union list
    /\ \E got \in SUBSET {t \in list \ warmed : Exists(t)} :
         idb' = [t \in Tours |-> IF t \in got THEN GetById(t) ELSE Pruned(list)[t]]
    /\ UNCHANGED <<serverVars, open, details, stale, fetch, ranFor, reads, copy, appVars, saving,
                   list, listStale, listFetch, told, ops>>

----------------------------------------------------------------------------
(* The session's own steps, and a reload *)

Session ==
    /\ \/ Effect
       \/ \E t \in Tours : CopyRead(t) \/ Serve(t) \/ FetchFails(t) \/ Answer(t)
    /\ Rerender
    /\ UNCHANGED <<serverVars, page, knob, discovering, planning, orphans, saving, listVars, ops>>

\* Only localStorage and IndexedDB outlive a reload.
Reload ==
    /\ ops < MaxOps
    /\ ops' = ops + 1
    /\ details' = [t \in Tours |-> None]
    /\ stale' = {}
    /\ fetch' = [t \in Tours |-> IF t = open THEN Asked ELSE Idle]
    /\ ranFor' = None
    /\ reads' = {}
    /\ copy' = None
    /\ app' = IF page = "planner" THEN Fresh ELSE None
    /\ discovering' = {}
    /\ planning' = None
    /\ orphans' = 0
    /\ saving' = None
    /\ list' = None
    /\ listStale' = FALSE
    /\ listFetch' = IF page = "tours" THEN Asked ELSE Idle
    /\ warmed' = {}
    /\ seen' = None
    /\ UNCHANGED <<serverVars, open, idb, page, circle, knob, told>>

----------------------------------------------------------------------------

Init ==
    /\ \E start \in Starts : page = start.page /\ rows = start.rows
    /\ minted = {}
    /\ open = None
    /\ details = [t \in Tours |-> None]
    /\ stale = {}
    /\ fetch = [t \in Tours |-> Idle]
    /\ idb = [t \in Tours |-> None]
    /\ ranFor = None
    /\ reads = {}
    /\ copy = None
    /\ circle = [area |-> CHOOSE a \in Areas : TRUE, grown |-> FALSE]
    /\ knob = CHOOSE k \in Knobs : TRUE
    /\ app = IF page = "planner" THEN Fresh ELSE None
    /\ discovering = {}
    /\ planning = None
    /\ orphans = 0
    /\ saving = None
    /\ list = None
    /\ listStale = FALSE
    /\ listFetch = IF page = "tours" THEN Asked ELSE Idle
    /\ warmed = {}
    /\ seen = None
    /\ told = None
    /\ ops = 0

\* What the user does.
Uses ==
    \/ \E a \in Areas : MoveCircle(a)
    \/ \E k \in Knobs : TurnKnob(k)
    \/ Discover
    \/ \E n \in {1, 2} : PickCluster(n)
    \/ \E c \in {Handmade} \union {IF app = None THEN None ELSE app.chosen} : PlanOf(c)
    \/ Clear
    \/ SaveNew
    \/ SaveChanges
    \/ GoToTours
    \/ BackToPlanner
    \/ \E t \in Tours : Open(t)
    \/ Manage
    \/ Reload

\* What is answered, and the effects that wait for it.
Answers ==
    \/ Discovered \/ DiscoverFails
    \/ Planned \/ PlanFails
    \/ OrphanAnswers \/ OrphanFails
    \/ SaveServed \/ SaveDone \/ SaveFails
    \/ ListServed \/ ListAnswers \/ ListFails
    \/ Session

Background ==
    \/ CoverCluster
    \/ WarmStore

Next == Uses \/ Answers \/ Background

\* Every request is answered or fails, and React runs its effects.
Spec == Init /\ [][Next]_vars /\ WF_vars(Answers)
----------------------------------------------------------------------------
(* Properties *)

\* A tour on screen stays on screen while the pointer names it, also where the
\* server does not answer and the browser's copy is all there is: no answer
\* that comes late for a tour opened before takes it away, through every
\* switch, save and answer.  Only a reload shows nothing for a moment.
TourStaysShown == [][(open' = open /\ Shown # None /\ Shown' = None) => Reload]_vars

\* A plan that is not flagged "settings changed" was computed with the
\* settings of the moment, however they were changed while it was under way.
UnflaggedPlanIsCurrent ==
    app # None => (app.planned # None /\ app.key = knob => app.planned.knob = knob)

\* "Save changes" overwrites the tour on screen, or the one that was open when
\* the plan on screen was asked for: a plan made with none open, however late
\* it comes and whatever was open before, overwrites nothing.
OverwritesItsOwn ==
    app # None /\ app.editing # None =>
        IF app.planned # None THEN app.editing.id = app.over
        ELSE Shown # None => app.editing.id = open

==============================================================================

------------------------ MODULE PlannerClient_proofs ------------------------
(***************************************************************************)
(* Theorems about PlannerClient, for every value of its constants: that a  *)
(* tour stays shown, whether a plan is current, and what a save overwrites. *)
(***************************************************************************)
EXTENDS PlannerClient, FiniteSetTheorems, TLAPS

----------------------------------------------------------------------------
(***************************************************************************)
(* Types.                                                                  *)
(***************************************************************************)

ServerTypes ==
    /\ rows \in [Tours -> RowSet \union {None, Gone}]
    /\ minted \subseteq Slugs

SessionTypes ==
    /\ open \in Tours \union {None}
    /\ details \in [Tours -> TourSet \union {None}]
    /\ stale \subseteq Tours
    /\ fetch \in [Tours -> TourSet \union {Idle, Asked, Failed, Gone}]
    /\ idb \in [Tours -> TourSet \union {None}]
    /\ ranFor \in Tours \union {None}
    /\ reads \subseteq Tours
    /\ copy \in ShownSet \union {None}

\* App is there exactly while its page is shown, and so are its requests.
AppTypes ==
    /\ page \in {"planner", "tours"}
    /\ circle \in Circle
    /\ knob \in Knobs
    /\ page = "planner" => app \in AppState
    /\ page = "tours" => app = None /\ discovering = {} /\ planning = None
    /\ discovering \subseteq InputSet /\ IsFiniteSet(discovering)
    /\ planning \in PlanRequest \union {None}
    /\ orphans \in Nat

SaveTypes == saving \in SaveRequest \union {None}

ListTypes ==
    /\ list \in (SUBSET Tours) \union {None}
    /\ listStale \in BOOLEAN
    /\ listFetch \in (SUBSET Tours) \union {Idle, Asked}
    /\ warmed \subseteq Tours
    /\ seen \in (SUBSET Tours) \union {None}
    /\ told \in Tours \union {None}

TypeOK == ServerTypes /\ SessionTypes /\ AppTypes /\ SaveTypes /\ ListTypes /\ ops \in 0..MaxOps

LEMMA ShownType == TypeOK => Shown \in ShownSet \union {None}
BY DEF TypeOK, SessionTypes, Shown, Detail, ShownSet

\* Both copies a shown tour may come from carry, or are looked up by, the
\* pointer's id.
LEMMA ShownIsOpen == Shown # None => Shown.id = open
BY DEF Shown, Detail

\* The updates of App's state, and what they do to the plan on screen.
LEMMA AppUpdates ==
    ASSUME NEW a \in AppState
    PROVE  /\ \A stamp \in InputSet :
                  [a EXCEPT !.stamp = stamp] \in AppState
           /\ \A tour \in Tours, editing \in EditTarget :
                  [a EXCEPT !.planned = None, !.chosen = None, !.coveredTour = tour,
                            !.editing = editing] \in AppState
           /\ \A asked \in InputSet, stamp \in InputSet, cluster \in CandidateSet :
                  [a EXCEPT !.clusters = asked, !.stamp = stamp, !.planned = None,
                            !.key = None, !.chosen = cluster] \in AppState
           /\ \A cluster \in CandidateSet :
                  [a EXCEPT !.planned = None, !.key = None, !.chosen = cluster] \in AppState
           /\ \A cluster \in CandidateSet :
                  [a EXCEPT !.coveredCluster = cluster] \in AppState
           /\ \A chosen \in CandidateSet \union {Handmade} :
                  [a EXCEPT !.chosen = chosen] \in AppState
           /\ \A planned \in PlanSet, key \in Knobs, over \in Tours \union {None},
                 editing \in EditTarget \union {None} :
                  [a EXCEPT !.planned = planned, !.key = key, !.over = over,
                            !.editing = editing] \in AppState
           /\ [a EXCEPT !.clusters = None, !.chosen = None, !.planned = None] \in AppState
<1>1. \A stamp \in InputSet :
          [a EXCEPT !.stamp = stamp] \in AppState
  BY DEF AppState
<1>2. \A tour \in Tours, editing \in EditTarget :
          [a EXCEPT !.planned = None, !.chosen = None, !.coveredTour = tour,
                    !.editing = editing] \in AppState
  BY DEF AppState
<1>3. \A asked \in InputSet, stamp \in InputSet, cluster \in CandidateSet :
          [a EXCEPT !.clusters = asked, !.stamp = stamp, !.planned = None,
                    !.key = None, !.chosen = cluster] \in AppState
  BY DEF AppState
<1>4. \A cluster \in CandidateSet :
          [a EXCEPT !.planned = None, !.key = None, !.chosen = cluster] \in AppState
  BY DEF AppState
<1>5. \A cluster \in CandidateSet :
          [a EXCEPT !.coveredCluster = cluster] \in AppState
  BY DEF AppState
<1>6. \A chosen \in CandidateSet \union {Handmade} :
          [a EXCEPT !.chosen = chosen] \in AppState
  BY DEF AppState
<1>7. \A planned \in PlanSet, key \in Knobs, over \in Tours \union {None},
         editing \in EditTarget \union {None} :
          [a EXCEPT !.planned = planned, !.key = key, !.over = over,
                    !.editing = editing] \in AppState
  BY DEF AppState
<1>8. [a EXCEPT !.clusters = None, !.chosen = None, !.planned = None] \in AppState
  BY DEF AppState
<1> QED BY <1>1, <1>2, <1>3, <1>4, <1>5, <1>6, <1>7, <1>8

\* What the effects of an opened tour make of App's state.
LEMMA TourShownType ==
    ASSUME TypeOK, NEW a \in AppState, NEW s \in ShownSet \union {None}
    PROVE  /\ TourShown(a, s) \in AppState
           /\ CircleFor(a, s) \in Circle
           /\ s = None => TourShown(a, s) = a
           /\ s # None => /\ TourShown(a, s).editing = [id |-> s.id, name |-> s.of.name]
                          /\ TourShown(a, s).planned = None
<1>1. CASE s = None
  BY <1>1 DEF TourShown, CircleFor, TypeOK, AppTypes
<1>2. CASE s # None
  <2>1. s \in ShownSet
    BY <1>2
  <2>2. s.id \in Tours /\ s.of \in TourSet
    BY <2>1 DEF ShownSet
  <2>3. s.of.name \in Names /\ s.of.plan \in PlanSet /\ s.of.plan.area \in Areas
    BY <2>2 DEF TourSet, PlanSet
  <2> DEFINE c == CircleFor(a, s)
  <2>4. c \in Circle
    BY <2>3 DEF CircleFor, Circle, TypeOK, AppTypes
  <2> HIDE DEF c
  <2> DEFINE b == IF c = circle THEN a ELSE Stamped(a, c)
  <2>5. [circle |-> c, knob |-> knob] \in InputSet
    BY <2>4 DEF InputSet, TypeOK, AppTypes
  <2>6. b \in AppState
    BY <2>5 DEF Stamped, AppState
  <2> HIDE DEF b
  <2> DEFINE e == [id |-> s.id, name |-> s.of.name]
             next == [b EXCEPT !.planned = None, !.chosen = None,
                               !.coveredTour = s.id, !.editing = e]
  <2>7. e \in EditTarget
    BY <2>2, <2>3 DEF EditTarget
  <2>8. TourShown(a, s) = next
    BY <1>2 DEF TourShown, b, c
  <2> HIDE DEF e
  <2>9. next \in AppState
    BY <2>2, <2>6, <2>7, AppUpdates
  <2>10. next.editing = e /\ next.planned = None
    BY <2>6 DEF AppState
  <2> HIDE DEF next
  <2> QED BY <1>2, <2>4, <2>8, <2>9, <2>10 DEF c, e
<1> QED BY <1>1, <1>2

LEMMA FreshType == Fresh \in AppState /\ Fresh.editing = None /\ Fresh.planned = None
BY DEF Fresh, AppState

----------------------------------------------------------------------------
(***************************************************************************)
(* The server and the session.                                             *)
(***************************************************************************)

LEMMA RowKeepsTypes ==
    ASSUME ServerTypes, NEW t \in Tours, Exists(t)
    PROVE  /\ rows[t] \in RowSet
           /\ \A name \in Names : Rename(t, name) => ServerTypes'
           /\ \A name \in Names, plan \in PlanSet : Update(t, name, plan) => ServerTypes'
           /\ \A slug \in Slugs : Share(t, slug) => ServerTypes'
           /\ Unshare(t) => ServerTypes'
           /\ Delete(t) => ServerTypes'
<1> DEFINE row == rows[t]
<1>1. row \in RowSet
  BY DEF ServerTypes, Exists
<1>2. ASSUME NEW r \in RowSet \union {None, Gone}, rows' = [rows EXCEPT ![t] = r],
             minted' \subseteq Slugs
      PROVE  ServerTypes'
  BY <1>2 DEF ServerTypes
<1>3. ASSUME NEW name \in Names, Rename(t, name) PROVE ServerTypes'
  <2>1. [row EXCEPT !.name = name] \in RowSet
    BY <1>1 DEF RowSet
  <2>2. rows' = [rows EXCEPT ![t] = [row EXCEPT !.name = name]] /\ minted' = minted
    BY <1>3 DEF Rename
  <2> QED BY <1>2, <2>1, <2>2 DEF ServerTypes
<1>4. ASSUME NEW name \in Names, NEW plan \in PlanSet, Update(t, name, plan)
      PROVE  ServerTypes'
  <2> DEFINE new == [row EXCEPT !.name = name, !.plan = plan]
  <2>1. new \in RowSet
    BY <1>1 DEF RowSet
  <2>2. rows' = [rows EXCEPT ![t] = new] /\ minted' = minted
    BY <1>1, <1>4 DEF Update, ServerTypes, RowSet
  <2> QED BY <1>2, <2>1, <2>2 DEF ServerTypes
<1>5. ASSUME NEW slug \in Slugs, Share(t, slug) PROVE ServerTypes'
  <2> DEFINE new == IF row.slug = None THEN slug ELSE row.slug
             r == [row EXCEPT !.slug = new]
  <2>1. r \in RowSet
    BY <1>1 DEF RowSet
  <2>2. rows' = [rows EXCEPT ![t] = r] /\ minted' \subseteq Slugs
    BY <1>5 DEF Share, ServerTypes
  <2> QED BY <1>2, <2>1, <2>2
<1>6. ASSUME Unshare(t) PROVE ServerTypes'
  <2>1. [row EXCEPT !.slug = None] \in RowSet
    BY <1>1 DEF RowSet
  <2>2. rows' = [rows EXCEPT ![t] = [row EXCEPT !.slug = None]] /\ minted' = minted
    BY <1>6 DEF Unshare
  <2> QED BY <1>2, <2>1, <2>2 DEF ServerTypes
<1>7. ASSUME Delete(t) PROVE ServerTypes'
  BY <1>2, <1>7 DEF Delete, ServerTypes
<1> QED BY <1>1, <1>3, <1>4, <1>5, <1>6, <1>7

LEMMA GetByIdType == ServerTypes => \A t \in Tours : GetById(t) \in TourSet \union {Gone}
<1> SUFFICES ASSUME ServerTypes, NEW t \in Tours, Exists(t)
             PROVE  [name |-> rows[t].name, plan |-> rows[t].plan] \in TourSet
  BY DEF GetById
<1>1. rows[t] \in RowSet
  BY RowKeepsTypes
<1> QED BY <1>1 DEF RowSet, TourSet

LEMMA ServerKeepsTypes == TypeOK /\ [Next]_vars => ServerTypes'
<1> SUFFICES ASSUME TypeOK, [Next]_vars PROVE ServerTypes'
  OBVIOUS
<1> USE DEF TypeOK
<1>1. CASE UNCHANGED serverVars
  BY <1>1 DEF ServerTypes, serverVars
<1>2. CASE SaveServed
  <2>1. PICK t \in Tours :
          IF saving.target = None THEN Save(t, saving.name, saving.plan)
          ELSE t = saving.target /\ Update(t, saving.name, saving.plan)
    BY <1>2 DEF SaveServed
  <2>2. saving.name \in Names /\ saving.plan \in PlanSet
    BY <1>2 DEF SaveServed, SaveTypes, SaveRequest
  <2>3. CASE Save(t, saving.name, saving.plan)
    <3>1. [name |-> saving.name, plan |-> saving.plan, slug |-> None] \in RowSet
      BY <2>2 DEF RowSet
    <3> QED BY <2>3, <3>1 DEF Save, ServerTypes
  <2>4. CASE Update(t, saving.name, saving.plan)
    BY <2>2, <2>4, RowKeepsTypes DEF Update
  <2> QED BY <2>1, <2>3, <2>4
<1>3. CASE Manage
  <2> DEFINE listed == IF list = None THEN {} ELSE list
  <2>0. listed \subseteq Tours
    <3>1. list # None => list \in SUBSET Tours
      BY DEF ListTypes
    <3> QED BY <3>1
  <2> HIDE DEF listed
  <2>1. PICK t \in Tours :
          \/ \E name \in Names : Rename(t, name)
          \/ \E slug \in Slugs : Share(t, slug)
          \/ Unshare(t)
          \/ Delete(t)
    BY <1>3, <2>0 DEF Manage, listed
  <2> QED BY <2>1, RowKeepsTypes DEF Rename, Share, Unshare, Delete
<1> QED BY <1>1, <1>2, <1>3
      DEF Next, Uses, Answers, Background, MoveCircle, TurnKnob, Discover, Discovered,
          DiscoverFails, PickCluster, CoverCluster, PlanOf, Planned, PlanFails,
          OrphanAnswers, OrphanFails, Clear, PressSave, SaveNew, SaveChanges, SaveFails,
          SaveDone, GoToTours, BackToPlanner, Open, ListServed, ListAnswers, ListFails,
          WarmStore, Session, Reload, vars

\* The steps of the session, whoever takes them.
LEMMA SessionStepsKeepTypes ==
    ASSUME SessionTypes, ServerTypes
    PROVE  /\ CloseTour => SessionTypes'
           /\ \A t \in Tours : OpenTour(t) => SessionTypes'
           /\ Effect => SessionTypes'
           /\ \A t \in Tours : CopyRead(t) => SessionTypes'
           /\ \A t \in Tours : Serve(t) => SessionTypes'
           /\ \A t \in Tours : FetchFails(t) => SessionTypes'
           /\ \A t \in Tours : Answer(t) => SessionTypes'
           /\ \A t \in Tours, d \in TourSet, over \in BOOLEAN :
                 Stored(t, d, over) => SessionTypes'
<1> USE DEF SessionTypes
<1>1. CloseTour => SessionTypes'
  BY DEF CloseTour
<1>2. ASSUME NEW t \in Tours, OpenTour(t) PROVE SessionTypes'
  <2>1. fetch' \in [Tours -> TourSet \union {Idle, Asked, Failed, Gone}]
    BY <1>2 DEF OpenTour, Observe
  <2>2. idb' \in [Tours -> TourSet \union {None}]
    BY <1>2 DEF OpenTour
  <2> QED BY <1>2, <2>1, <2>2 DEF OpenTour
<1>3. Effect => SessionTypes'
  BY DEF Effect, StillReading
<1>4. ASSUME NEW t \in Tours, CopyRead(t) PROVE SessionTypes'
  <2>1. idb[t] # None => [id |-> t, of |-> idb[t]] \in ShownSet
    BY DEF ShownSet
  <2>2. copy' \in ShownSet \union {None}
    BY <1>4, <2>1 DEF CopyRead
  <2> QED BY <1>4, <2>2 DEF CopyRead
<1>5. ASSUME NEW t \in Tours, Serve(t) PROVE SessionTypes'
  <2>1. GetById(t) \in TourSet \union {Gone}
    BY GetByIdType
  <2> HIDE DEF GetById
  <2> QED BY <1>5, <2>1 DEF Serve
<1>6. ASSUME NEW t \in Tours, FetchFails(t) PROVE SessionTypes'
  BY <1>6 DEF FetchFails
<1>7. ASSUME NEW t \in Tours, Answer(t) PROVE SessionTypes'
  <2>1. fetch[t] \in TourSet
    BY <1>7 DEF Answer, UnderWay
  <2> QED BY <1>7, <2>1 DEF Answer
<1>8. ASSUME NEW t \in Tours, NEW d \in TourSet, NEW over \in BOOLEAN, Stored(t, d, over)
      PROVE  SessionTypes'
  BY <1>8 DEF Stored
<1> QED BY <1>1, <1>2, <1>3, <1>4, <1>5, <1>6, <1>7, <1>8

LEMMA SessionKeepsTypes == TypeOK /\ [Next]_vars => SessionTypes'
<1> SUFFICES ASSUME TypeOK, [Next]_vars PROVE SessionTypes'
  OBVIOUS
<1> USE DEF TypeOK
<1>1. CASE UNCHANGED sessionVars
  BY <1>1 DEF SessionTypes, sessionVars
<1>2. CASE (\E a \in Areas : MoveCircle(a)) \/ Discovered \/ Planned \/ OrphanAnswers
  <2>1. CloseTour
    BY <1>2 DEF MoveCircle, Discovered, Planned, OrphanAnswers
  <2> QED BY <2>1, SessionStepsKeepTypes
<1>3. CASE SaveDone
  <2> DEFINE d == [name |-> saving.name, plan |-> saving.plan]
  <2>1. saving.id \in Tours /\ d \in TourSet
    BY <1>3 DEF SaveDone, SaveTypes, SaveRequest, TourSet
  <2>2. Stored(saving.id, d, saving.target # None)
    BY <1>3 DEF SaveDone
  <2> HIDE DEF d
  <2> QED BY <2>1, <2>2, SessionStepsKeepTypes
<1>4. ASSUME NEW t \in Tours, Open(t) PROVE SessionTypes'
  BY <1>4, SessionStepsKeepTypes DEF Open
<1>5. CASE WarmStore
  <2>1. PICK got \in SUBSET {t \in list \ warmed : Exists(t)} :
          idb' = [t \in Tours |-> IF t \in got THEN GetById(t) ELSE Pruned(list)[t]]
    BY <1>5 DEF WarmStore
  <2>2. ASSUME NEW t \in Tours PROVE idb'[t] \in TourSet \union {None}
    <3>1. Exists(t) => GetById(t) \in TourSet
      BY RowKeepsTypes DEF GetById, RowSet, TourSet
    <3>2. Pruned(list)[t] \in TourSet \union {None}
      BY DEF Pruned, SessionTypes
    <3> QED BY <2>1, <3>1, <3>2
  <2>3. idb' \in [Tours -> TourSet \union {None}]
    BY <2>1, <2>2
  <2> QED BY <1>5, <2>3 DEF WarmStore, SessionTypes
<1>6. CASE Session
  BY <1>6, SessionStepsKeepTypes DEF Session
<1>7. CASE Reload
  BY <1>7 DEF Reload, SessionTypes
<1> QED BY <1>1, <1>2, <1>3, <1>4, <1>5, <1>6, <1>7
      DEF Next, Uses, Answers, Background, TurnKnob, Discover, DiscoverFails,
          PickCluster, CoverCluster, PlanOf, PlanFails, OrphanFails, Clear, PressSave,
          SaveNew, SaveChanges, SaveServed, SaveFails, GoToTours, BackToPlanner, Manage,
          ListServed, ListAnswers, ListFails, vars

----------------------------------------------------------------------------
(***************************************************************************)
(* App.                                                                    *)
(***************************************************************************)

LEMMA UnmountKeepsTypes ==
    ASSUME AppTypes, Unmount, page' = "tours", circle' \in Circle, knob' \in Knobs
    PROVE  AppTypes'
<1>1. Cardinality(discovering) \in Nat
  BY FS_CardinalityType DEF AppTypes
<1>2. orphans' \in Nat
  BY <1>1 DEF Unmount, AppTypes
<1>3. IsFiniteSet({})
  BY FS_EmptySet
<1> QED BY <1>2, <1>3 DEF Unmount, AppTypes

\* App of the planner's page stays, or becomes another state of App.
LEMMA AppStaysTyped ==
    ASSUME AppTypes, page' = page, circle' \in Circle, knob' \in Knobs,
           UNCHANGED <<discovering, planning, orphans>>,
           app' = app \/ (page = "planner" /\ app' \in AppState)
    PROVE  AppTypes'
BY DEF AppTypes

LEMMA RerenderKeepsTypes ==
    ASSUME TypeOK, TypeOK' \/ SessionTypes', Rerender, page' = page, knob' = knob,
           UNCHANGED <<discovering, planning, orphans>>
    PROVE  AppTypes'
<1>1. Shown' \in ShownSet \union {None}
  BY DEF TypeOK, SessionTypes, Shown, Detail, ShownSet
<1>2. CASE UNCHANGED <<app, circle>>
  BY <1>2, AppStaysTyped DEF TypeOK, AppTypes
<1>3. CASE app # None /\ app' = TourShown(app, Shown') /\ circle' = CircleFor(app, Shown')
  <2>1. page = "planner" /\ app \in AppState
    BY <1>3 DEF TypeOK, AppTypes
  <2>2. app' \in AppState /\ circle' \in Circle
    BY <1>1, <1>3, <2>1, TourShownType
  <2> QED BY <2>1, <2>2, AppStaysTyped DEF TypeOK, AppTypes
<1> QED BY <1>2, <1>3 DEF Rerender

\* What the user does on the planner's page.
LEMMA PlannerKeepsTypes ==
    ASSUME TypeOK,
           \/ \E a \in Areas : MoveCircle(a)
           \/ \E k \in Knobs : TurnKnob(k)
           \/ Discover \/ Discovered \/ DiscoverFails
           \/ \E n \in {1, 2} : PickCluster(n)
           \/ CoverCluster \/ Clear
    PROVE  AppTypes'
<1> USE DEF TypeOK
<1>1. ASSUME NEW a \in Areas, MoveCircle(a) PROVE AppTypes'
  <2>1. circle' \in Circle
    BY <1>1 DEF MoveCircle, Circle
  <2> QED BY <1>1, <2>1, AppStaysTyped DEF MoveCircle, AppTypes
<1>2. ASSUME NEW k \in Knobs, TurnKnob(k) PROVE AppTypes'
  BY <1>2, AppStaysTyped DEF TurnKnob, AppTypes
<1>3. CASE Discover
  <2>1. Inputs \in InputSet
    BY DEF Inputs, InputSet, AppTypes
  <2>2. IsFiniteSet(discovering \union {Inputs})
    BY FS_AddElement DEF AppTypes
  <2> QED BY <1>3, <2>1, <2>2 DEF Discover, AppTypes, User
<1>4. CASE Discovered \/ DiscoverFails
  <2>1. PICK asked \in discovering : discovering' = discovering \ {asked}
    BY <1>4 DEF Discovered, DiscoverFails
  <2>2. page = "planner" /\ app \in AppState /\ asked \in InputSet
    BY <2>1 DEF AppTypes
  <2>3. discovering' \subseteq InputSet /\ IsFiniteSet(discovering')
    BY <2>1, FS_RemoveElement DEF AppTypes
  <2>4. app' \in AppState
    <3>1. CASE Discovered
      <4>1. PICK old \in discovering :
              app' = [app EXCEPT !.clusters = old, !.stamp = Inputs, !.planned = None,
                                 !.key = None, !.chosen = Candidate(old, 1)]
        BY <3>1 DEF Discovered
      <4>2. Inputs \in InputSet /\ old \in InputSet
        BY DEF Inputs, InputSet, AppTypes
      <4>3. Candidate(old, 1) \in CandidateSet
        BY <4>2 DEF Candidate, CandidateSet
      <4> QED BY <2>2, <4>1, <4>2, <4>3, AppUpdates
    <3>2. CASE DiscoverFails
      BY <2>2, <3>2 DEF DiscoverFails
    <3> QED BY <1>4, <3>1, <3>2
  <2>5. UNCHANGED <<page, circle, knob, planning, orphans>>
    BY <1>4 DEF Discovered, DiscoverFails
  <2> QED BY <2>2, <2>3, <2>4, <2>5 DEF AppTypes
<1>5. ASSUME NEW n \in {1, 2}, PickCluster(n) PROVE AppTypes'
  <2>1. page = "planner" /\ app \in AppState /\ app.clusters # None
    BY <1>5 DEF PickCluster, User, AppTypes
  <2>2. app.clusters \in InputSet
    BY <2>1 DEF AppState
  <2>3. Candidate(app.clusters, n) \in CandidateSet
    BY <2>2 DEF Candidate, CandidateSet
  <2> HIDE DEF Candidate
  <2>4. app' \in AppState
    BY <1>5, <2>1, <2>3, AppUpdates DEF PickCluster
  <2> QED BY <1>5, <2>1, <2>4, AppStaysTyped DEF PickCluster, AppTypes
<1>6. CASE CoverCluster
  <2> DEFINE c == [circle EXCEPT !.grown = TRUE]
             grows == app.chosen.n = 2 /\ ~circle.grown
             b == IF grows THEN Stamped(app, c) ELSE app
  <2>1. page = "planner" /\ app \in AppState
    BY <1>6 DEF CoverCluster, AppTypes
  <2>2. app.chosen \in CandidateSet
    BY <1>6, <2>1 DEF CoverCluster, AppState
  <2>3. c \in Circle
    BY DEF AppTypes, Circle
  <2>4. [circle |-> c, knob |-> knob] \in InputSet
    BY <2>3 DEF InputSet, AppTypes
  <2>5. Stamped(app, c) \in AppState
    BY <2>1, <2>4, AppUpdates DEF Stamped
  <2>6. circle' \in Circle
    BY <1>6, <2>3 DEF CoverCluster, AppTypes
  <2>7. app' = [b EXCEPT !.coveredCluster = app.chosen]
    BY <1>6 DEF CoverCluster
  <2>8. app' \in AppState
    BY <2>1, <2>2, <2>5, <2>7, AppUpdates
  <2> QED BY <1>6, <2>1, <2>6, <2>8, AppStaysTyped DEF CoverCluster, AppTypes
<1>7. CASE Clear
  <2>1. page = "planner" /\ app \in AppState
    BY <1>7 DEF Clear, User, AppTypes
  <2>2. app' \in AppState
    BY <1>7, <2>1, AppUpdates DEF Clear
  <2> QED BY <1>7, <2>1, <2>2, AppStaysTyped DEF Clear, AppTypes
<1> QED BY <1>1, <1>2, <1>3, <1>4, <1>5, <1>6, <1>7

\* The tour to overwrite that a plan of the moment is an edit of.
LEMMA EditedType ==
    TypeOK => (IF Shown = None THEN None ELSE [id |-> Shown.id, name |-> Shown.of.name])
                  \in EditTarget \union {None}
<1> SUFFICES ASSUME TypeOK, Shown # None
             PROVE  [id |-> Shown.id, name |-> Shown.of.name] \in EditTarget
  OBVIOUS
<1>1. Shown \in ShownSet
  BY ShownType
<1> QED BY <1>1 DEF ShownSet, TourSet, EditTarget

LEMMA PlanKeepsTypes ==
    ASSUME TypeOK,
           \/ \E c \in {Handmade} \union {IF app = None THEN None ELSE app.chosen} : PlanOf(c)
           \/ Planned \/ PlanFails
    PROVE  AppTypes'
<1> USE DEF TypeOK
<1>1. ASSUME NEW c, PlanOf(c) PROVE AppTypes'
  <2> DEFINE plan == Plan(c, knob, circle.area)
             request == [plan |-> plan, key |-> knob, over |-> open]
  <2>1. page = "planner" /\ app \in AppState
    BY <1>1 DEF PlanOf, User, AppTypes
  <2>2. c \in CandidateSet \union {Handmade}
    BY <1>1, <2>1 DEF PlanOf, AppState
  <2>3. plan \in PlanSet
    BY <2>2 DEF Plan, PlanSet, AppTypes, Circle
  <2> HIDE DEF plan
  <2>4. request \in PlanRequest
    BY <2>3 DEF PlanRequest, AppTypes, SessionTypes
  <2>5. planning' = request
    BY <1>1 DEF PlanOf, plan
  <2>6. app' \in AppState
    BY <1>1, <2>1, <2>2, AppUpdates DEF PlanOf
  <2> QED BY <1>1, <2>1, <2>4, <2>5, <2>6 DEF PlanOf, AppTypes
<1>2. CASE Planned
  <2> DEFINE editing == IF Shown = None THEN None
                        ELSE [id |-> Shown.id, name |-> Shown.of.name]
  <2>1. page = "planner" /\ app \in AppState /\ planning \in PlanRequest
    BY <1>2 DEF Planned, AppTypes
  <2>2. /\ planning.plan \in PlanSet /\ planning.key \in Knobs
        /\ planning.over \in Tours \union {None}
    BY <2>1 DEF PlanRequest
  <2>3. editing \in EditTarget \union {None}
    BY EditedType
  <2>4. app' = [app EXCEPT !.planned = planning.plan, !.key = planning.key,
                           !.over = planning.over, !.editing = editing]
    BY <1>2 DEF Planned
  <2> HIDE DEF editing
  <2>5. app' \in AppState
    BY <2>1, <2>2, <2>3, <2>4, AppUpdates
  <2> QED BY <1>2, <2>1, <2>5 DEF Planned, AppTypes
<1>3. CASE PlanFails
  BY <1>3 DEF PlanFails, AppTypes
<1> QED BY <1>1, <1>2, <1>3

\* Leaving a page, and coming back.
LEMMA TravelKeepsTypes ==
    ASSUME TypeOK, SessionTypes',
           \/ GoToTours \/ BackToPlanner
           \/ \E t \in Tours : Open(t)
           \/ SaveDone \/ Reload
    PROVE  AppTypes'
<1> USE DEF TypeOK
<1>1. Shown \in ShownSet \union {None} /\ Shown' \in ShownSet \union {None}
  BY DEF SessionTypes, Shown, Detail, ShownSet
<1>2. ASSUME NEW l, NEW old, ShowTours(l, old), circle' = circle, knob' = knob
      PROVE  AppTypes'
  BY <1>2, UnmountKeepsTypes, AppStaysTyped DEF ShowTours, AppTypes
<1>3. CASE GoToTours
  BY <1>2, <1>3 DEF GoToTours
<1>4. ASSUME NEW s \in ShownSet \union {None}, page = "tours", page' = "planner", knob' = knob,
             UNCHANGED <<discovering, planning, orphans>>,
             app' = TourShown(Fresh, s), circle' = CircleFor(Fresh, s)
      PROVE  AppTypes'
  <2>1. app' \in AppState /\ circle' \in Circle
    BY <1>4, FreshType, TourShownType
  <2> QED BY <1>4, <2>1 DEF AppTypes
<1>5. CASE BackToPlanner
  BY <1>1, <1>4, <1>5 DEF BackToPlanner, User
<1>6. ASSUME NEW t \in Tours, Open(t) PROVE AppTypes'
  BY <1>1, <1>4, <1>6 DEF Open, User
<1>7. CASE SaveDone
  <2>1. CASE saving.target = None
    BY <1>2, <1>7, <2>1 DEF SaveDone
  <2>2. CASE saving.target # None
    BY <1>7, <2>2, RerenderKeepsTypes DEF SaveDone
  <2> QED BY <2>1, <2>2
<1>8. CASE Reload
  <2>1. page = "planner" => app' \in AppState
    BY <1>8, FreshType DEF Reload
  <2>2. IsFiniteSet({})
    BY FS_EmptySet
  <2> QED BY <1>8, <2>1, <2>2 DEF Reload, AppTypes
<1> QED BY <1>3, <1>5, <1>6, <1>7, <1>8

LEMMA AppKeepsTypes == TypeOK /\ [Next]_vars => AppTypes'
<1> SUFFICES ASSUME TypeOK, [Next]_vars PROVE AppTypes'
  OBVIOUS
<1>1. SessionTypes'
  BY SessionKeepsTypes
<1>2. CASE UNCHANGED appVars
  BY <1>2 DEF TypeOK, AppTypes, appVars
<1>3. CASE OrphanAnswers
  <2>1. orphans' \in Nat
    BY <1>3 DEF OrphanAnswers, TypeOK, AppTypes
  <2>2. Shown' \in ShownSet \union {None}
    BY <1>1 DEF SessionTypes, Shown, Detail, ShownSet
  <2>3. circle' \in Circle /\ (page = "planner" => app' \in AppState)
                           /\ (page = "tours" => app' = None)
    <3>1. CASE UNCHANGED <<app, circle>>
      BY <3>1 DEF TypeOK, AppTypes
    <3>2. CASE app # None /\ app' = TourShown(app, Shown') /\ circle' = CircleFor(app, Shown')
      <4>1. page = "planner" /\ app \in AppState
        BY <3>2 DEF TypeOK, AppTypes
      <4> QED BY <2>2, <3>2, <4>1, TourShownType
    <3> QED BY <1>3, <3>1, <3>2 DEF OrphanAnswers, Rerender
  <2> QED BY <1>3, <2>1, <2>3 DEF OrphanAnswers, TypeOK, AppTypes
<1>4. CASE OrphanFails
  BY <1>4 DEF OrphanFails, TypeOK, AppTypes
<1>5. CASE Session
  BY <1>1, <1>5, RerenderKeepsTypes DEF Session
<1> QED BY <1>1, <1>2, <1>3, <1>4, <1>5, PlannerKeepsTypes, PlanKeepsTypes, TravelKeepsTypes
      DEF Next, Uses, Answers, Background, PressSave, SaveNew, SaveChanges, SaveServed,
          SaveFails, Manage, ListServed, ListAnswers, ListFails, WarmStore, vars

----------------------------------------------------------------------------
(***************************************************************************)
(* The save, the list, and all types together.                             *)
(***************************************************************************)

LEMMA SaveKeepsTypes == TypeOK /\ [Next]_vars => SaveTypes'
<1> SUFFICES ASSUME TypeOK, [Next]_vars PROVE SaveTypes'
  OBVIOUS
<1> USE DEF TypeOK
<1>1. CASE UNCHANGED saving
  BY <1>1 DEF SaveTypes
<1>2. CASE saving' = None
  BY <1>2 DEF SaveTypes
<1>3. ASSUME NEW target \in Tours \union {None}, NEW name \in Names, PressSave(target, name)
      PROVE  SaveTypes'
  <2> DEFINE plan == PlanResult(app, Shown)
             request == [target |-> target, name |-> name, plan |-> plan, id |-> None]
  <2>1. page = "planner" /\ app \in AppState /\ plan # None
    BY <1>3 DEF PressSave, User, AppTypes
  <2>2. Shown # None => Shown.of.plan \in PlanSet
    <3>1. Shown \in ShownSet \union {None}
      BY ShownType
    <3> QED BY <3>1 DEF ShownSet, TourSet
  <2>3. app.planned # None => app.planned \in PlanSet
    BY <2>1 DEF AppState
  <2>4. plan \in PlanSet
    BY <2>1, <2>2, <2>3 DEF PlanResult
  <2> HIDE DEF plan
  <2>5. request \in SaveRequest
    BY <2>4 DEF SaveRequest
  <2>6. saving' = request
    BY <1>3 DEF PressSave, plan
  <2> QED BY <2>5, <2>6 DEF SaveTypes
<1>4. CASE SaveNew
  <2>1. (CHOOSE name \in Names : TRUE) \in Names
    BY PlannerClientAssumption
  <2> HIDE DEF PressSave
  <2> QED BY <1>3, <1>4, <2>1 DEF SaveNew
<1>5. CASE SaveChanges
  <2>1. PressSave(app.editing.id, app.editing.name) /\ app # None /\ app.editing # None
    BY <1>5 DEF SaveChanges
  <2>2. app \in AppState
    BY <2>1 DEF AppTypes
  <2>3. app.editing \in EditTarget
    BY <2>1, <2>2 DEF AppState
  <2>4. app.editing.id \in Tours /\ app.editing.name \in Names
    BY <2>3 DEF EditTarget
  <2> QED BY <1>3, <2>1, <2>4
<1>6. CASE SaveServed
  <2>1. PICK t \in Tours : saving' = [saving EXCEPT !.id = t]
    BY <1>6 DEF SaveServed
  <2>2. saving \in SaveRequest
    BY <1>6 DEF SaveServed, SaveTypes
  <2> QED BY <2>1, <2>2 DEF SaveTypes, SaveRequest
<1> QED BY <1>1, <1>2, <1>4, <1>5, <1>6
      DEF Next, Uses, Answers, Background, MoveCircle, TurnKnob, Discover, Discovered,
          DiscoverFails, PickCluster, CoverCluster, PlanOf, Planned, PlanFails,
          OrphanAnswers, OrphanFails, Clear, SaveFails, SaveDone, GoToTours,
          BackToPlanner, Open, Manage, ListServed, ListAnswers, ListFails, WarmStore,
          Session, Reload, vars

LEMMA ListKeepsTypes == TypeOK /\ [Next]_vars => ListTypes'
<1> SUFFICES ASSUME TypeOK, [Next]_vars PROVE ListTypes'
  OBVIOUS
<1> USE DEF TypeOK
<1>1. CASE UNCHANGED listVars
  BY <1>1 DEF ListTypes, listVars
<1>2. ASSUME NEW l, NEW old, ShowTours(l, old)
      PROVE  /\ listFetch' \in (SUBSET Tours) \union {Idle, Asked}
             /\ warmed' \subseteq Tours
             /\ seen' \in (SUBSET Tours) \union {None}
  BY <1>2 DEF ShowTours, ListTypes
<1>3. CASE GoToTours
  BY <1>2, <1>3 DEF GoToTours, ListTypes
<1>4. CASE SaveDone
  <2>1. saving.id \in Tours
    BY <1>4 DEF SaveDone, SaveTypes, SaveRequest
  <2>2. list' \in SUBSET Tours
    <3>1. list # None => list \in SUBSET Tours
      BY DEF ListTypes
    <3> QED BY <1>4, <2>1, <3>1 DEF SaveDone
  <2>3. listStale' \in BOOLEAN /\ told' \in Tours \union {None}
    BY <1>4, <2>1 DEF SaveDone
  <2>4. /\ listFetch' \in (SUBSET Tours) \union {Idle, Asked}
        /\ warmed' \subseteq Tours
        /\ seen' \in (SUBSET Tours) \union {None}
    <3>1. CASE saving.target = None
      BY <1>2, <1>4, <3>1 DEF SaveDone
    <3>2. CASE saving.target # None
      BY <1>4, <3>2 DEF SaveDone, ListTypes
    <3> QED BY <3>1, <3>2
  <2> QED BY <2>2, <2>3, <2>4 DEF ListTypes
<1>5. CASE Manage
  BY <1>5 DEF Manage, ListTypes
<1>6. CASE ListServed
  <2>1. List \in SUBSET Tours
    BY DEF List
  <2> QED BY <1>6, <2>1 DEF ListServed, ListTypes
<1>7. CASE ListAnswers
  <2>1. listFetch \in SUBSET Tours
    BY <1>7 DEF ListAnswers, ListTypes
  <2> QED BY <1>7, <2>1 DEF ListAnswers, ListTypes
<1>8. CASE ListFails
  BY <1>8 DEF ListFails, ListTypes
<1>9. CASE WarmStore
  <2>1. list \in SUBSET Tours
    BY <1>9 DEF WarmStore, ListTypes
  <2> QED BY <1>9, <2>1 DEF WarmStore, ListTypes
<1>10. CASE Reload
  BY <1>10 DEF Reload, ListTypes
<1> QED BY <1>1, <1>3, <1>4, <1>5, <1>6, <1>7, <1>8, <1>9, <1>10
      DEF Next, Uses, Answers, Background, MoveCircle, TurnKnob, Discover, Discovered,
          DiscoverFails, PickCluster, CoverCluster, PlanOf, Planned, PlanFails,
          OrphanAnswers, OrphanFails, Clear, PressSave, SaveNew, SaveChanges, SaveServed,
          SaveFails, BackToPlanner, Open, Session, vars

LEMMA OpsKeepTypes == TypeOK /\ [Next]_vars => (ops \in 0..MaxOps)'
<1> SUFFICES ASSUME TypeOK, [Next]_vars PROVE ops' \in 0..MaxOps
  OBVIOUS
<1>1. ops' = ops \/ (ops < MaxOps /\ ops' = ops + 1)
  BY DEF Next, Uses, Answers, Background, User, MoveCircle, TurnKnob, Discover, Discovered,
         DiscoverFails, PickCluster, CoverCluster, PlanOf, Planned, PlanFails,
         OrphanAnswers, OrphanFails, Clear, PressSave, SaveNew, SaveChanges, SaveServed,
         SaveFails, SaveDone, GoToTours, BackToPlanner, Open, Manage, ListServed,
         ListAnswers, ListFails, WarmStore, Session, Reload, vars
<1> QED BY <1>1, PlannerClientAssumption DEF TypeOK

LEMMA NextKeepsTypes == TypeOK /\ [Next]_vars => TypeOK'
BY ServerKeepsTypes, SessionKeepsTypes, AppKeepsTypes, SaveKeepsTypes, ListKeepsTypes,
   OpsKeepTypes DEF TypeOK

LEMMA InitTypes == Init => TypeOK
<1> SUFFICES ASSUME Init PROVE TypeOK
  OBVIOUS
<1>1. PICK start \in Starts : page = start.page /\ rows = start.rows
  BY DEF Init
<1>2. start \in [page : {"planner", "tours"}, rows : [Tours -> RowSet \union {None, Gone}]]
  BY PlannerClientAssumption
<1>3. ServerTypes
  BY <1>1, <1>2 DEF Init, ServerTypes
<1>4. SessionTypes
  BY DEF Init, SessionTypes
<1>5. AppTypes
  <2>1. page \in {"planner", "tours"}
    BY <1>1, <1>2
  <2>2. (CHOOSE a \in Areas : TRUE) \in Areas /\ (CHOOSE k \in Knobs : TRUE) \in Knobs
    BY PlannerClientAssumption
  <2>3. circle \in Circle /\ knob \in Knobs
    BY <2>2 DEF Init, Circle
  <2>4. IsFiniteSet({})
    BY FS_EmptySet
  <2> QED BY <2>1, <2>3, <2>4, FreshType DEF Init, AppTypes
<1>6. SaveTypes /\ ListTypes
  BY DEF Init, SaveTypes, ListTypes
<1>7. ops \in 0..MaxOps
  BY PlannerClientAssumption DEF Init
<1> QED BY <1>3, <1>4, <1>5, <1>6, <1>7 DEF TypeOK

----------------------------------------------------------------------------
(***************************************************************************)
(* The plan on screen, the tour beside it, and what a save overwrites.     *)
(***************************************************************************)

\* A plan under way has the key captured with it, and was asked for over the
\* tour that is open, unless that was closed since.
PlanningIsBound ==
    planning # None => /\ planning.plan.knob = planning.key
                       /\ open \in {planning.over, None}

\* A plan on screen has no tour open beside it, and its key is the setting it
\* was computed with; the tour to overwrite is the one it was asked for over,
\* and without a plan the one that is shown.
IsSound(a, pointer, shown) ==
    /\ a.planned # None => /\ pointer = None
                           /\ a.key # None => a.planned.knob = a.key
    /\ a.editing # None => IF a.planned # None THEN a.editing.id = a.over
                           ELSE shown # None => a.editing.id = pointer

ClientInv == TypeOK /\ PlanningIsBound /\ (app # None => IsSound(app, open, Shown))

LEMMA ShownFollowsSession == UNCHANGED <<open, details, copy>> => Shown' = Shown
BY DEF Shown, Detail

LEMMA ClosedShowsNothing == open' = None => Shown' = None
BY DEF Shown, Detail

\* Closing the tour leaves App sound, and so do its effects where another
\* detail of the open tour, another tour, or none is shown.
LEMMA SoundWithout == \A a, o, s : IsSound(a, o, s) => IsSound(a, None, None) /\ IsSound(a, o, None)
BY DEF IsSound

LEMMA TourShownIsSound ==
    ASSUME TypeOK, NEW a \in AppState, NEW s \in ShownSet \union {None}, NEW o,
           IsSound(a, o, None), s # None => s.id = o
    PROVE  IsSound(TourShown(a, s), o, s)
<1>1. CASE s = None
  BY <1>1, TourShownType
<1>2. CASE s # None
  <2> DEFINE b == TourShown(a, s)
  <2>1. b.editing = [id |-> s.id, name |-> s.of.name] /\ b.planned = None
    BY <1>2, TourShownType
  <2> HIDE DEF b
  <2>2. b.editing.id = o
    BY <1>2, <2>1
  <2>3. IsSound(b, o, s)
    BY <2>1, <2>2 DEF IsSound
  <2> QED BY <2>3 DEF b
<1> QED BY <1>1, <1>2

LEMMA FreshIsSound == \A o, s : IsSound(Fresh, o, s)
BY FreshType DEF IsSound

LEMMA RerenderIsSound ==
    ASSUME TypeOK, TypeOK', app # None => IsSound(app, open, Shown), Rerender,
           open' \in {open, None}
    PROVE  app' # None => IsSound(app', open', Shown')
<1>1. Shown' \in ShownSet \union {None}
  BY DEF TypeOK, SessionTypes, Shown, Detail, ShownSet
<1>2. Shown' # None => Shown'.id = open'
  BY DEF Shown, Detail
<1>3. CASE app' = app
  <2>1. CASE open' = None
    BY <1>3, <2>1, SoundWithout, ClosedShowsNothing
  <2>2. CASE open' = open /\ Shown' = Shown
    BY <1>3, <2>2
  <2>3. CASE app # None /\ app' = TourShown(app, Shown') /\ open' = open
    <3>1. app \in AppState
      BY <2>3 DEF TypeOK, AppTypes
    <3>2. IsSound(app, open', None)
      BY <2>3, SoundWithout
    <3> QED BY <1>1, <1>2, <2>3, <3>1, <3>2, TourShownIsSound
  <2> QED BY <1>3, <2>1, <2>2, <2>3 DEF Rerender
<1>4. CASE app # None /\ app' = TourShown(app, Shown')
  <2>1. app \in AppState
    BY <1>4 DEF TypeOK, AppTypes
  <2>2. IsSound(app, open', None)
    BY <1>4, SoundWithout
  <2> QED BY <1>1, <1>2, <1>4, <2>1, <2>2, TourShownIsSound
<1> QED BY <1>3, <1>4 DEF Rerender

LEMMA NextKeepsPlanning == ClientInv /\ [Next]_vars => PlanningIsBound'
<1> SUFFICES ASSUME ClientInv, [Next]_vars PROVE PlanningIsBound'
  OBVIOUS
<1> USE DEF ClientInv, PlanningIsBound
<1>1. CASE planning' = planning /\ open' \in {open, None}
  BY <1>1
<1>2. CASE planning' = None
  BY <1>2
<1>3. ASSUME NEW c, PlanOf(c) PROVE PlanningIsBound'
  <2>1. planning' = [plan |-> Plan(c, knob, circle.area), key |-> knob, over |-> open]
        /\ open' = open
    BY <1>3 DEF PlanOf, sessionVars
  <2> QED BY <2>1 DEF Plan
<1>4. CASE page = "tours" /\ planning' = planning
  BY <1>4 DEF TypeOK, AppTypes
<1>5. CASE GoToTours
  BY <1>1, <1>2, <1>5 DEF GoToTours, ShowTours, Unmount, sessionVars
<1>6. CASE SaveDone
  BY <1>1, <1>2, <1>6 DEF SaveDone, Stored, ShowTours, Unmount
<1>7. CASE BackToPlanner \/ \E t \in Tours : Open(t)
  BY <1>4, <1>7 DEF BackToPlanner, Open, User
<1>8. CASE Session
  BY <1>1, <1>8 DEF Session, Effect, CopyRead, Serve, FetchFails, Answer
<1> QED BY <1>1, <1>2, <1>3, <1>5, <1>6, <1>7, <1>8
      DEF Next, Uses, Answers, Background, MoveCircle, CloseTour, TurnKnob, Discover,
          Discovered, DiscoverFails, PickCluster, CoverCluster, Planned, PlanFails,
          OrphanAnswers, OrphanFails, Clear, PressSave, SaveNew, SaveChanges, SaveServed,
          SaveFails, Manage, ListServed, ListAnswers, ListFails, WarmStore, Reload,
          vars, appVars, sessionVars

\* onSuccess of a plan request: the tour to overwrite is the one open by then,
\* which is the one the plan was asked for over.
LEMMA PlannedIsSound ==
    ASSUME ClientInv, Planned
    PROVE  IsSound(app', open', Shown')
<1> DEFINE editing == IF Shown = None THEN None
                      ELSE [id |-> Shown.id, name |-> Shown.of.name]
           new == [app EXCEPT !.planned = planning.plan, !.key = planning.key,
                              !.over = planning.over, !.editing = editing]
<1>1. app \in AppState /\ planning \in PlanRequest
  BY DEF Planned, ClientInv, TypeOK, AppTypes
<1>2. app' = new /\ open' = None
  BY DEF Planned, CloseTour
<1>3. planning.plan.knob = planning.key /\ open \in {planning.over, None}
  BY DEF Planned, ClientInv, PlanningIsBound
<1>4. Shown # None => Shown.id = open /\ open # None
  BY DEF Shown, Detail
<1>5. editing # None => editing.id = planning.over
  BY <1>3, <1>4
<1>6. planning.plan # None
  BY <1>1, PlannerClientAssumption DEF PlanRequest
<1> HIDE DEF editing
<1>7. /\ new.planned = planning.plan /\ new.key = planning.key
      /\ new.over = planning.over /\ new.editing = editing
  BY <1>1 DEF AppState
<1> HIDE DEF new
<1>8. IsSound(new, None, None)
  BY <1>3, <1>5, <1>6, <1>7 DEF IsSound
<1> QED BY <1>2, <1>8, ClosedShowsNothing

LEMMA NextKeepsApp ==
    ASSUME ClientInv, TypeOK', [Next]_vars
    PROVE  app' # None => IsSound(app', open', Shown')
<1> DEFINE Goal == app' # None => IsSound(app', open', Shown')
<1>0. app # None => IsSound(app, open, Shown) /\ app \in AppState
  BY DEF ClientInv, TypeOK, AppTypes
<1>1. CASE UNCHANGED <<app, open, details, copy>>
  BY <1>0, <1>1, ShownFollowsSession
<1>2. CASE app' = None
  BY <1>2
<1>3. CASE UNCHANGED app /\ CloseTour
  BY <1>0, <1>3, SoundWithout, ClosedShowsNothing DEF CloseTour
\* An update that leaves the tour to overwrite and the plan as they are, or
\* takes the plan away and with it nothing but plan and key.
<1>4. ASSUME app # None, app'.editing = app.editing,
             \/ /\ app'.planned = app.planned /\ app'.key = app.key /\ app'.over = app.over
             \/ app'.planned = None,
             UNCHANGED <<open, details, copy>>
      PROVE  Goal
  <2>1. IsSound(app, open, Shown) /\ Shown' = Shown
    BY <1>0, <1>4, ShownFollowsSession
  <2>2. Shown # None => open # None
    BY DEF Shown, Detail
  <2>3. IsSound(app', open, Shown)
    BY <1>4, <2>1, <2>2 DEF IsSound
  <2> QED BY <1>4, <2>1, <2>3
<1>5. CASE Discovered
  <2>1. PICK asked \in discovering :
          app' = [app EXCEPT !.clusters = asked, !.stamp = Inputs, !.planned = None,
                             !.key = None, !.chosen = Candidate(asked, 1)]
    BY <1>5 DEF Discovered
  <2>2. app \in AppState
    BY <2>1 DEF ClientInv, TypeOK, AppTypes
  <2>3. app'.planned = None
    BY <2>1, <2>2 DEF AppState
  <2>4. open' = None /\ Shown' = None
    BY <1>5, ClosedShowsNothing DEF Discovered, CloseTour
  <2> QED BY <2>3, <2>4 DEF IsSound
<1>6. ASSUME NEW n \in {1, 2}, PickCluster(n) PROVE Goal
  <2>1. app \in AppState /\ app # None
    BY <1>6, PlannerClientAssumption DEF PickCluster, User, ClientInv, TypeOK, AppTypes
  <2>2. app' = app \/ app' = [app EXCEPT !.planned = None, !.key = None,
                                         !.chosen = Candidate(app.clusters, n)]
    BY <1>6 DEF PickCluster
  <2>3. UNCHANGED <<open, details, copy>>
    BY <1>6 DEF PickCluster, sessionVars
  <2>4. CASE app' = [app EXCEPT !.planned = None, !.key = None,
                                !.chosen = Candidate(app.clusters, n)]
    <3>1. app'.editing = app.editing /\ app'.planned = None
      BY <2>1, <2>4 DEF AppState
    <3> QED BY <1>4, <2>1, <2>3, <3>1
  <2> QED BY <1>1, <2>2, <2>3, <2>4
<1>7. CASE CoverCluster
  <2> DEFINE c == [circle EXCEPT !.grown = TRUE]
             grows == app.chosen.n = 2 /\ ~circle.grown
             b == IF grows THEN Stamped(app, c) ELSE app
  <2>1. app \in AppState /\ app # None
    BY <1>7 DEF CoverCluster, ClientInv, TypeOK, AppTypes
  <2>2. [circle |-> c, knob |-> knob] \in InputSet
    BY DEF InputSet, Circle, ClientInv, TypeOK, AppTypes
  <2>s. Stamped(app, c) \in AppState
    BY <2>1, <2>2, AppUpdates DEF Stamped
  <2>f. /\ Stamped(app, c).editing = app.editing /\ Stamped(app, c).planned = app.planned
        /\ Stamped(app, c).key = app.key /\ Stamped(app, c).over = app.over
    BY <2>1 DEF Stamped, AppState
  <2>3. /\ b \in AppState /\ b.editing = app.editing /\ b.planned = app.planned
        /\ b.key = app.key /\ b.over = app.over
    BY <2>1, <2>s, <2>f
  <2>4. app' = [b EXCEPT !.coveredCluster = app.chosen]
    BY <1>7 DEF CoverCluster
  <2> HIDE DEF b
  <2>5. /\ app'.editing = app.editing /\ app'.planned = app.planned
        /\ app'.key = app.key /\ app'.over = app.over
    BY <2>3, <2>4 DEF AppState
  <2>6. UNCHANGED <<open, details, copy>>
    BY <1>7 DEF CoverCluster, sessionVars
  <2> QED BY <1>4, <2>1, <2>5, <2>6
<1>8. ASSUME NEW c, PlanOf(c) PROVE Goal
  <2>1. app \in AppState /\ app # None
    BY <1>8, PlannerClientAssumption DEF PlanOf, User, ClientInv, TypeOK, AppTypes
  <2>2. app' = [app EXCEPT !.chosen = c] /\ UNCHANGED <<open, details, copy>>
    BY <1>8 DEF PlanOf, sessionVars
  <2>3. /\ app'.editing = app.editing /\ app'.planned = app.planned
        /\ app'.key = app.key /\ app'.over = app.over
    BY <2>1, <2>2 DEF AppState
  <2> QED BY <1>4, <2>1, <2>2, <2>3
<1>9. CASE Clear
  <2>1. app \in AppState /\ app # None
    BY <1>9, PlannerClientAssumption DEF Clear, User, ClientInv, TypeOK, AppTypes
  <2>2. /\ app' = [app EXCEPT !.clusters = None, !.chosen = None, !.planned = None]
        /\ UNCHANGED <<open, details, copy>>
    BY <1>9 DEF Clear, sessionVars
  <2>3. app'.editing = app.editing /\ app'.planned = None
    BY <2>1, <2>2 DEF AppState
  <2> QED BY <1>4, <2>1, <2>2, <2>3
<1>10. CASE Rerender /\ open' \in {open, None}
  BY <1>0, <1>10, RerenderIsSound DEF ClientInv
<1>11. CASE OrphanAnswers
  BY <1>10, <1>11 DEF OrphanAnswers, CloseTour
<1>12. CASE Session
  BY <1>10, <1>12 DEF Session, Effect, CopyRead, Serve, FetchFails, Answer
<1>13. CASE SaveDone
  <2>1. page = "tours" => app = None
    BY DEF ClientInv, TypeOK, AppTypes
  <2> QED BY <1>2, <1>10, <1>13, <2>1 DEF SaveDone, Stored, ShowTours, Unmount
<1>14. ASSUME NEW s \in ShownSet \union {None}, NEW o, s # None => s.id = o
       PROVE  IsSound(TourShown(Fresh, s), o, s)
  BY <1>14, FreshIsSound, FreshType, TourShownIsSound DEF ClientInv
<1>15. CASE BackToPlanner
  <2>1. Shown \in ShownSet \union {None} /\ (Shown # None => Shown.id = open)
    BY ShownType, ShownIsOpen DEF ClientInv
  <2>2. app' = TourShown(Fresh, Shown) /\ Shown' = Shown /\ open' = open
    BY <1>15, ShownFollowsSession DEF BackToPlanner, sessionVars
  <2> QED BY <1>14, <2>1, <2>2
<1>16. ASSUME NEW t \in Tours, Open(t) PROVE Goal
  <2>1. Shown' \in ShownSet \union {None}
    BY DEF TypeOK, SessionTypes, Shown, Detail, ShownSet
  <2>2. Shown' # None => Shown'.id = open'
    BY DEF Shown, Detail
  <2> QED BY <1>14, <1>16, <2>1, <2>2 DEF Open
<1>17. CASE GoToTours
  <2>1. page = "tours" => app = None
    BY DEF ClientInv, TypeOK, AppTypes
  <2> QED BY <1>2, <1>17, <2>1 DEF GoToTours, ShowTours, Unmount
<1>18. CASE Reload
  BY <1>18, FreshIsSound DEF Reload
<1>19. ASSUME NEW a \in Areas, MoveCircle(a) PROVE Goal
  BY <1>3, <1>19 DEF MoveCircle
<1> QED BY <1>1, <1>5, <1>6, <1>7, <1>8, <1>9, <1>11, <1>12, <1>13, <1>15, <1>16, <1>17,
           <1>18, <1>19, PlannedIsSound
      DEF Next, Uses, Answers, Background, TurnKnob, Discover, DiscoverFails, PlanFails,
          OrphanFails, PressSave, SaveNew, SaveChanges, SaveServed, SaveFails, Manage,
          ListServed, ListAnswers, ListFails, WarmStore, vars, appVars, sessionVars

LEMMA InitClient == Init => ClientInv
<1> SUFFICES ASSUME Init PROVE ClientInv
  OBVIOUS
<1>1. TypeOK
  BY InitTypes
<1>2. PlanningIsBound
  BY DEF Init, PlanningIsBound
<1>3. app # None => IsSound(app, open, Shown)
  BY FreshIsSound DEF Init
<1> QED BY <1>1, <1>2, <1>3 DEF ClientInv

LEMMA NextClient == ClientInv /\ [Next]_vars => ClientInv'
BY NextKeepsTypes, NextKeepsPlanning, NextKeepsApp DEF ClientInv

THEOREM ClientInvariance == Spec => []ClientInv
BY InitClient, NextClient, PTL DEF Spec

\* The client's state keeps its types: in particular App is there exactly while
\* its page is shown, and a request of an App that is gone is an orphan.
THEOREM ClientTypes == Spec => []TypeOK
<1>1. ClientInv => TypeOK
  BY DEF ClientInv
<1> QED BY <1>1, ClientInvariance, PTL

----------------------------------------------------------------------------
(***************************************************************************)
(* The browser's copy of the open tour.                                    *)
(***************************************************************************)

\* What is read, and what was, belongs to the pointer the effect last ran for.
CopyFollows ==
    /\ reads \subseteq {ranFor}
    /\ copy # None => copy.id = ranFor

LEMMA CopySteps ==
    ASSUME [Next]_vars
    PROVE  \/ UNCHANGED <<ranFor, reads, copy>>
           \/ Effect
           \/ \E t \in Tours : CopyRead(t)
           \/ Reload
<1>1. CASE UNCHANGED sessionVars
  BY <1>1 DEF sessionVars
<1>2. CASE Session
  BY <1>2 DEF Session, Serve, FetchFails, Answer
<1>3. CASE SaveDone \/ \E t \in Tours : Open(t)
  BY <1>3 DEF SaveDone, Stored, Open, OpenTour
<1>4. CASE (\E a \in Areas : MoveCircle(a)) \/ Discovered \/ Planned \/ OrphanAnswers \/ WarmStore
  BY <1>4 DEF MoveCircle, Discovered, Planned, OrphanAnswers, CloseTour, WarmStore
<1> QED BY <1>1, <1>2, <1>3, <1>4
      DEF Next, Uses, Answers, Background, TurnKnob, Discover, DiscoverFails,
          PickCluster, CoverCluster, PlanOf, PlanFails, OrphanFails, Clear, PressSave,
          SaveNew, SaveChanges, SaveServed, SaveFails, GoToTours, BackToPlanner, Manage,
          ListServed, ListAnswers, ListFails, vars

LEMMA NextKeepsCopy ==
    ASSUME TypeOK, CopyFollows, [Next]_vars
    PROVE  CopyFollows'
<1>1. CASE UNCHANGED <<ranFor, reads, copy>>
  BY <1>1 DEF CopyFollows
<1>2. CASE Effect
  BY <1>2 DEF Effect, StillReading, CopyFollows
<1>3. ASSUME NEW t \in Tours, CopyRead(t) PROVE CopyFollows'
  <2>1. t = ranFor /\ ranFor' = ranFor /\ reads' \subseteq reads
    BY <1>3 DEF CopyRead, CopyFollows
  <2>2. copy' = copy \/ copy' = [id |-> t, of |-> idb[t]]
    BY <1>3 DEF CopyRead
  <2> QED BY <2>1, <2>2 DEF CopyFollows
<1>4. CASE Reload
  BY <1>4 DEF Reload, CopyFollows
<1> QED BY <1>1, <1>2, <1>3, <1>4, CopySteps

\* A fetched detail is replaced, but lost in a reload only.
LEMMA DetailsStay ==
    ASSUME TypeOK, [Next]_vars, ~Reload, NEW t \in Tours, details[t] # None
    PROVE  details'[t] # None
<1>1. CASE UNCHANGED details
  BY <1>1
<1>2. ASSUME NEW u \in Tours, Answer(u) PROVE details'[t] # None
  <2>1. fetch[u] \in TourSet
    BY <1>2 DEF Answer, UnderWay, TypeOK, SessionTypes
  <2>2. details' = [details EXCEPT ![u] = fetch[u]]
    BY <1>2 DEF Answer
  <2> QED BY <2>1, <2>2, PlannerClientAssumption DEF TypeOK, SessionTypes
<1>3. CASE SaveDone
  <2> DEFINE d == [name |-> saving.name, plan |-> saving.plan]
  <2>1. d \in TourSet
    BY <1>3 DEF SaveDone, TypeOK, SaveTypes, SaveRequest, TourSet
  <2>2. details' = [details EXCEPT ![saving.id] = d]
    BY <1>3 DEF SaveDone, Stored
  <2> HIDE DEF d
  <2> QED BY <2>1, <2>2, PlannerClientAssumption DEF TypeOK, SessionTypes
<1>4. CASE Session
  BY <1>1, <1>2, <1>4 DEF Session, Effect, CopyRead, Serve, FetchFails
<1>5. CASE UNCHANGED sessionVars
  BY <1>1, <1>5 DEF sessionVars
<1>6. CASE (\E a \in Areas : MoveCircle(a)) \/ Discovered \/ Planned \/ OrphanAnswers \/ WarmStore
  BY <1>1, <1>6 DEF MoveCircle, Discovered, Planned, OrphanAnswers, CloseTour, WarmStore
<1>7. CASE \E u \in Tours : Open(u)
  BY <1>1, <1>7 DEF Open, OpenTour
<1> QED BY <1>3, <1>4, <1>5, <1>6, <1>7
      DEF Next, Uses, Answers, Background, TurnKnob, Discover, DiscoverFails,
          PickCluster, CoverCluster, PlanOf, PlanFails, OrphanFails, Clear, PressSave,
          SaveNew, SaveChanges, SaveServed, SaveFails, GoToTours, BackToPlanner, Manage,
          ListServed, ListAnswers, ListFails, vars

LEMMA ShownStays ==
    ASSUME TypeOK, CopyFollows, [Next]_vars, ~Reload, open' = open, Shown # None
    PROVE  Shown' # None
<1>1. open \in Tours
  BY DEF Shown, Detail, TypeOK, SessionTypes
<1>2. CASE details'[open] # None
  <2>1. Shown' = [id |-> open', of |-> details'[open]]
    BY <1>1, <1>2, PlannerClientAssumption DEF Shown, Detail
  <2>2. details'[open] \in TourSet \/ ~TypeOK'
    BY <1>1, <1>2 DEF TypeOK, SessionTypes
  <2>3. Shown' \in ShownSet
    BY <1>1, <2>1, <2>2, NextKeepsTypes DEF ShownSet
  <2> QED BY <2>3, PlannerClientAssumption
<1>3. CASE details'[open] = None
  <2>1. details[open] = None
    BY <1>1, <1>3, DetailsStay
  <2>2. copy # None /\ copy.id = open /\ open # None
    BY <2>1 DEF Shown, Detail
  <2>3. ranFor = open
    BY <2>2 DEF CopyFollows
  <2>4. copy' # None /\ copy'.id = open
    <3>1. CASE UNCHANGED copy
      BY <2>2, <3>1
    <3>2. CASE Effect
      BY <2>3, <3>2 DEF Effect
    <3>3. ASSUME NEW t \in Tours, CopyRead(t), copy' # copy PROVE copy' # None /\ copy'.id = open
      <4>1. t = open /\ idb[t] # None /\ copy' = [id |-> t, of |-> idb[t]]
        BY <2>3, <3>3 DEF CopyRead, CopyFollows
      <4>2. [id |-> t, of |-> idb[t]] \in ShownSet
        BY <4>1 DEF ShownSet, TypeOK, SessionTypes
      <4> QED BY <4>1, <4>2, PlannerClientAssumption
    <3> QED BY <3>1, <3>2, <3>3, CopySteps
  <2>5. Shown' = copy'
    BY <1>3, <2>2, <2>4 DEF Shown, Detail
  <2> QED BY <2>4, <2>5
<1> QED BY <1>2, <1>3

\* A tour on screen stays there while the pointer names it, although the reads
\* of tours opened before may be answered at any time: an answer that counts is
\* one for the pointer the effect ran for, and while a copy is on screen that is
\* the pointer.
THEOREM ToursStayShown == Spec => TourStaysShown
<1>1. Init => CopyFollows
  BY DEF Init, CopyFollows
<1>2. ClientInv /\ CopyFollows /\ [Next]_vars => CopyFollows'
  BY NextKeepsCopy DEF ClientInv
<1>3. ClientInv /\ CopyFollows /\ [Next]_vars
      => [(open' = open /\ Shown # None /\ Shown' = None) => Reload]_vars
  BY ShownStays DEF ClientInv
<1> QED BY <1>1, <1>2, <1>3, InitClient, NextClient, PTL DEF Spec, TourStaysShown

\* A plan whose key equals the present setting was computed with it, although
\* the setting may be turned while the plan is under way.
THEOREM CurrentPlansAreUnflagged == Spec => []UnflaggedPlanIsCurrent
<1>1. ClientInv => UnflaggedPlanIsCurrent
  <2> SUFFICES ASSUME ClientInv, app # None, app.planned # None, app.key = knob
               PROVE  app.planned.knob = knob
    BY DEF UnflaggedPlanIsCurrent
  <2>1. knob # None
    BY PlannerClientAssumption DEF ClientInv, TypeOK, AppTypes
  <2> QED BY <2>1 DEF ClientInv, IsSound
<1> QED BY <1>1, ClientInvariance, PTL

\* "Save changes" overwrites the tour that was open when the plan on screen was
\* asked for, or the tour on screen: for any number of tours, whatever is
\* opened, closed, planned, saved or reloaded in between.
THEOREM SavesOverwriteTheirOwn == Spec => []OverwritesItsOwn
<1>1. ClientInv => OverwritesItsOwn
  BY DEF ClientInv, IsSound, OverwritesItsOwn
<1> QED BY <1>1, ClientInvariance, PTL

=============================================================================

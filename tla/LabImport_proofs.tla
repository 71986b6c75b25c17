-------------------------- MODULE LabImport_proofs --------------------------
(***************************************************************************)
(* Theorems about LabImport, for any adventures, jobs and files: what the  *)
(* sync, the requests that enrich and the backfill write next to each      *)
(* other is true of the stage, and none of them takes its last row.        *)
(***************************************************************************)
EXTENDS LabImport, FiniteSetTheorems, TLAPS

----------------------------------------------------------------------------
(* The inductive invariant: what an enricher holds while it works on an    *)
(* answer, and what the rows are about.                                    *)

Holding == {"import", "completion", "fill"}

\* Where an enricher stands.
Steps == {"idle", "fetch", "import", "completion", "settle", "return", "select", "group",
          "fill", "dedup"}

Gpxs == [stages : SUBSET Stages, found : SUBSET Stages]

\* Lab2Gpx answers with stages, whoever asked and whatever was lost since.
AnswersAreStages ==
    /\ pc \in [Procs -> Steps]
    /\ answer \in [Procs -> {None} \cup Gpxs]
    /\ \A p \in Procs : pc[p] \in Holding => answer[p] \in Gpxs

RowsAreStages == DOMAIN rows \subseteq Codes

LabInv == AnswersAreStages /\ RowsAreStages /\ IdsAreTrue

----------------------------------------------------------------------------
(* Answers *)

\* An answer is some of the stages, of which some are completed.
LEMMA AnswersAreTyped ==
    ASSUME NEW S \in Answers, NEW guid
    PROVE  Gpx(S, guid) \in Gpxs
BY DEF Answers, Gpx, Gpxs

\* Every step that comes to work on an answer has got one.
LEMMA AnswersKept ==
    ASSUME AnswersAreStages, [Next]_vars
    PROVE  AnswersAreStages'
<1> USE DEF AnswersAreStages, Holding, Procs, Steps
<1>1. ASSUME NEW p \in Procs, Enriching(p) PROVE AnswersAreStages'
  <2>1. CASE Fetch(p)
    <3>1. PICK S \in Answers : answer' = [answer EXCEPT ![p] = Gpx(S, HasGuid)]
      BY <2>1 DEF Fetch
    <3>2. Gpx(S, HasGuid) \in Gpxs BY AnswersAreTyped
    <3>3. pc' = [pc EXCEPT ![p] = "import"] BY <2>1 DEF Fetch, Goto
    <3> QED BY <3>1, <3>2, <3>3
  <2>2. CASE FetchFails(p) \/ ImportFails(p)
    BY <2>2 DEF FetchFails, ImportFails, GiveUp, Goto
  <2>3. CASE Import(p)
    <3>1. pc[p] = "import" /\ answer' = answer BY <2>3 DEF Import
    <3>2. \E step \in {"completion", "settle"} : pc' = [pc EXCEPT ![p] = step] BY <2>3 DEF Import, Goto
    <3> QED BY <3>1, <3>2
  <2>4. CASE CrossOff(p) BY <2>4 DEF CrossOff, Goto
  <2>5. CASE CrossOffFails(p) BY <2>5 DEF CrossOffFails, Goto
  <2> QED BY <1>1, <2>1, <2>2, <2>3, <2>4, <2>5 DEF Enriching
<1>2. ASSUME NEW j \in Jobs, Take(j) PROVE AnswersAreStages'
  <2>1. PICK step \in {"select", "fetch"} : pc' = [pc EXCEPT !["worker"] = step]
    BY <1>2 DEF Take, Goto
  <2>2. answer' = answer BY <1>2 DEF Take
  <2> QED BY <2>1, <2>2
<1>3. CASE SettleSync BY <1>3 DEF SettleSync, Goto
<1>4. CASE Return BY <1>4 DEF Return, FreeWorker, Goto
<1>5. CASE Select BY <1>5 DEF Select, Goto
<1>6. ASSUME NEW t \in titles, FetchGroup(t) PROVE AnswersAreStages'
  <2>1. CASE pc' = pc /\ answer' = answer BY <2>1
  <2>2. ASSUME NEW S \in Answers, answer' = [answer EXCEPT !["worker"] = Gpx(S, FALSE)],
               pc' = [pc EXCEPT !["worker"] = "fill"]
        PROVE  AnswersAreStages'
    <3>1. Gpx(S, FALSE) \in Gpxs BY AnswersAreTyped
    <3> QED BY <2>2, <3>1
  <2> QED BY <1>6, <2>1, <2>2 DEF FetchGroup, Goto
<1>7. ASSUME NEW c \in members, Fill(c) PROVE AnswersAreStages'
  BY <1>7 DEF Fill, enrichVars
<1>8. CASE NextGroup \/ NoMoreGroups BY <1>8 DEF NextGroup, NoMoreGroups, Goto
<1>9. CASE Dedup
  <2>1. pc' = [pc EXCEPT !["worker"] = "return"] /\ answer' = answer BY <1>9 DEF Dedup, Goto
  <2> QED BY <2>1
<1>10. CASE Augment BY <1>10 DEF Augment, Goto
<1>11. CASE Augmented BY <1>11 DEF Augmented, Goto
<1>12. CASE Throw
  <2>1. pc' = [pc EXCEPT !["worker"] = "idle"] /\ answer' = [answer EXCEPT !["worker"] = None]
    BY <1>12 DEF Throw, FreeWorker, Goto
  <2> QED BY <2>1
<1>13. CASE Crash
  <2>1. pc' = [p \in Procs |-> "idle"] /\ answer' = [p \in Procs |-> None]
    BY <1>13 DEF Crash
  <2> QED BY <2>1
<1>14. ASSUME \/ Poll \/ UNCHANGED vars
              \/ \E j \in Jobs : EnqueueByAdmin(j) \/ PressSync(j)
              \/ \E scheme \in {"plain", "hyphen"}, S \in Files : UploadLegacy(S \X {scheme})
              \/ \E c \in DOMAIN rows : MarkFound(c)
              \/ \E s \in Stages : Complete(s)
       PROVE  AnswersAreStages'
  <2>1. UNCHANGED <<pc, answer>>
    BY <1>14 DEF Poll, vars, EnqueueByAdmin, PressSync, UploadLegacy, MarkFound, Complete, enrichVars
  <2> QED BY <2>1
<1> QED
  BY <1>1, <1>2, <1>3, <1>4, <1>5, <1>6, <1>7, <1>8, <1>9, <1>10, <1>11, <1>12, <1>13, <1>14
     DEF Next, WorkerStep, Enriching

----------------------------------------------------------------------------
(* Rows *)

\* The statements that write to caches.
LEMMA Writers ==
    ASSUME [Next]_vars
    PROVE  \/ UNCHANGED rows
           \/ \E scheme \in {"plain", "hyphen"}, S \in Files : UploadLegacy(S \X {scheme})
           \/ \E p \in Procs : Import(p)
           \/ \E c \in members : Fill(c)
           \/ Dedup
<1>1. CASE WorkerStep
  BY <1>1 DEF WorkerStep, Take, Fetch, CrossOff, SettleSync, Return, Select, FetchGroup,
     NextGroup, NoMoreGroups, Procs
<1>2. ASSUME NEW p \in Procs, Enriching(p) PROVE Import(p) \/ UNCHANGED rows
  BY <1>2 DEF Enriching, Fetch, FetchFails, ImportFails, CrossOff, CrossOffFails
<1>3. CASE Augment \/ Augmented \/ Throw \/ Crash \/ Poll
  BY <1>3 DEF Augment, Augmented, Throw, Crash, Poll
<1>4. ASSUME NEW j \in Jobs, EnqueueByAdmin(j) \/ PressSync(j) PROVE UNCHANGED rows
  BY <1>4 DEF EnqueueByAdmin, PressSync
<1>5. CASE UNCHANGED vars BY <1>5 DEF vars
<1>6. ASSUME \/ \E c \in DOMAIN rows : MarkFound(c)
             \/ \E s \in Stages : Complete(s)
      PROVE  UNCHANGED rows
  BY <1>6 DEF MarkFound, Complete
<1> QED BY <1>1, <1>2, <1>3, <1>4, <1>5, <1>6 DEF Next

\* By code or by place, a stored stage is matched with its own adventure.
LEMMA MatchesAreTrue ==
    ASSUME PlacesTellAdventures, NEW S \in SUBSET Stages, NEW c \in Codes,
           NEW id \in Matched(S, c)
    PROVE  id = AdventureOf[c[1]]
<1>1. c[1] \in Stages BY DEF Codes
<1>2. CASE id \in {AdventureOf[s] : s \in {s \in S : PlaceOf[s] = PlaceOf[c[1]]}}
  BY <1>1, <1>2 DEF PlacesTellAdventures
<1> QED BY <1>2 DEF Matched

\* What is written to a row is what its code, or its place, tells.
LEMMA RowsKept ==
    ASSUME LabInv, [Next]_vars
    PROVE  (RowsAreStages /\ IdsAreTrue)'
<1> USE DEF LabInv, RowsAreStages, IdsAreTrue
<1>1. CASE UNCHANGED rows BY <1>1
<1>2. ASSUME NEW scheme \in {"plain", "hyphen"}, NEW S \in Files, UploadLegacy(S \X {scheme})
      PROVE  (RowsAreStages /\ IdsAreTrue)'
  <2>1. PICK stale \in SUBSET ((S \X {scheme}) \cap DOMAIN rows) :
            rows' = Upserted((S \X {scheme}) \ stale, LAMBDA c : None)
    BY <1>2 DEF UploadLegacy
  <2>2. S \X {scheme} \subseteq Codes BY LabImportAssumption DEF Codes
  <2> QED BY <2>1, <2>2 DEF Upserted
<1>3. ASSUME NEW p \in Procs, Import(p) PROVE (RowsAreStages /\ IdsAreTrue)'
  <2>1. answer[p].stages \in SUBSET Stages
    BY <1>3 DEF Import, AnswersAreStages, Holding, Gpxs
  <2>2. Plain(answer[p].stages) \subseteq Codes BY <2>1 DEF Plain, Codes
  <2>3. \/ UNCHANGED rows
        \/ rows' = Upserted(Plain(answer[p].stages), LAMBDA c : AdventureOf[c[1]])
    BY <1>3 DEF Import
  <2> QED BY <2>2, <2>3 DEF Upserted
<1>4. ASSUME NEW c \in members, Fill(c) PROVE (RowsAreStages /\ IdsAreTrue)'
  <2>1. \/ UNCHANGED rows
        \/ /\ c \in MissingId
           /\ \E id \in Matched(answer["worker"].stages, c) : rows' = [rows EXCEPT ![c] = id]
    BY <1>4 DEF Fill
  <2>2. CASE UNCHANGED rows BY <2>2
  <2>3. ASSUME c \in MissingId, NEW id \in Matched(answer["worker"].stages, c),
               rows' = [rows EXCEPT ![c] = id]
        PROVE  (RowsAreStages /\ IdsAreTrue)'
    <3>1. answer["worker"].stages \in SUBSET Stages
      BY <1>4 DEF Fill, AnswersAreStages, Holding, Gpxs, Procs
    <3>2. c \in Codes BY <2>3 DEF MissingId
    <3>3. PlacesTellAdventures => id = AdventureOf[c[1]] BY <2>3, <3>1, <3>2, MatchesAreTrue
    <3>4. DOMAIN rows' = DOMAIN rows BY <2>3
    <3>5. \A d \in DOMAIN rows : rows'[d] = IF d = c THEN id ELSE rows[d] BY <2>3
    <3> QED BY <3>3, <3>4, <3>5
  <2> QED BY <2>1, <2>2, <2>3
<1>5. CASE Dedup
  <2>1. \E kept \in SUBSET DOMAIN rows : rows' = [c \in MissingId \cup kept |-> rows[c]]
    BY <1>5 DEF Dedup
  <2> QED BY <2>1 DEF MissingId
<1> QED BY <1>1, <1>2, <1>3, <1>4, <1>5, Writers

\* The invariant holds at the start and is kept by every step.
LEMMA LabInvHolds == Spec => []LabInv
<1>1. Init => LabInv
  BY DEF Init, LabInv, AnswersAreStages, RowsAreStages, IdsAreTrue, Holding, Procs, Steps
<1>2. LabInv /\ [Next]_vars => LabInv'
  BY AnswersKept, RowsKept DEF LabInv
<1> QED BY <1>1, <1>2, PTL DEF Spec

----------------------------------------------------------------------------

\* Whatever the enricher, the backfill and uploads write next to each other,
\* a row has no adventure or that of its stage, where no two adventures share
\* a place.
THEOREM IdsAreTrueOfTheirStages == Spec => []IdsAreTrue
<1>1. LabInv => IdsAreTrue BY DEF LabInv
<1> QED BY <1>1, LabInvHolds, PTL

\* Rows that count as duplicates are of one stage, so the one that
\* dedupAdventureStages leaves is a row of it.
LEMMA DedupKeepsStages ==
    ASSUME LabInv, PlacesTellAdventures, Dedup, NEW c \in DOMAIN rows
    PROVE  \E d \in DOMAIN rows' : d[1] = c[1]
<1>1. PICK kept \in SUBSET (DOMAIN rows \ MissingId) :
          /\ \A r \in DOMAIN rows \ MissingId : Cardinality(Duplicates(r) \cap kept) = 1
          /\ rows' = [r \in MissingId \cup kept |-> rows[r]]
  BY DEF Dedup
<1>2. CASE c \in MissingId BY <1>1, <1>2
<1>3. CASE c \notin MissingId
  <2>1. Duplicates(c) \cap kept # {} BY <1>1, <1>3, FS_EmptySet
  <2>2. PICK d \in kept : rows[d] = rows[c] /\ SequenceOf[d[1]] = SequenceOf[c[1]]
    BY <2>1 DEF Duplicates
  <2>3. c[1] \in Stages /\ d[1] \in Stages BY DEF LabInv, RowsAreStages, Codes
  <2>4. AdventureOf[d[1]] = AdventureOf[c[1]]
    BY <1>3, <2>2 DEF LabInv, IdsAreTrue, MissingId
  <2>5. d[1] = c[1] BY <2>2, <2>3, <2>4, LabImportAssumption
  <2> QED BY <1>1, <2>5
<1> QED BY <1>2, <1>3

\* No step takes the last row of a stage, where no two adventures share a
\* place: an import and a fill only add, and a removal leaves the row it
\* prefers.
THEOREM StagesAreNeverLost == Spec => StagesSurvive
<1> DEFINE Survive == PlacesTellAdventures => \A c \in DOMAIN rows : \E d \in DOMAIN rows' : d[1] = c[1]
<1>1. LabInv /\ [Next]_vars => Survive
  <2> SUFFICES ASSUME LabInv, [Next]_vars, PlacesTellAdventures, NEW c \in DOMAIN rows
               PROVE  \E d \in DOMAIN rows' : d[1] = c[1]
    OBVIOUS
  <2>1. CASE UNCHANGED rows BY <2>1
  <2>2. ASSUME NEW scheme \in {"plain", "hyphen"}, NEW S \in Files, UploadLegacy(S \X {scheme})
        PROVE  c \in DOMAIN rows'
    BY <2>2 DEF UploadLegacy, Upserted
  <2>3. ASSUME NEW p \in Procs, Import(p) PROVE c \in DOMAIN rows'
    BY <2>3 DEF Import, Upserted
  <2>4. ASSUME NEW m \in members, Fill(m) PROVE c \in DOMAIN rows'
    BY <2>4 DEF Fill
  <2>5. CASE Dedup BY <2>5, DedupKeepsStages
  <2> QED BY <2>1, <2>2, <2>3, <2>4, <2>5, Writers
<1> QED BY <1>1, LabInvHolds, PTL DEF Spec, StagesSurvive

=============================================================================

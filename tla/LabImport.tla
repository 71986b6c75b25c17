----------------------------- MODULE LabImport -----------------------------
(***************************************************************************)
(* Adventure Labs from Lab2Gpx (sources/adventure-lab, jobs/adventure-lab- *)
(* import, adventure-labs): the enricher, which a request runs inline and  *)
(* the worker runs for a sync or an import job, the backfill of missing    *)
(* adventure ids with its removal of duplicates, and the button which      *)
(* polls its job.  One owner's stages; a stage may have a row under each   *)
(* of two code schemes.  The upload path is GpxIngest; here an ingest of   *)
(* bytes that were parsed before does nothing and any other takes effect   *)
(* at once.                                                                *)
(***************************************************************************)
EXTENDS Integers, FiniteSets, GpxParse

CONSTANTS
    Stages,      \* the stages Lab2Gpx knows
    AdventureOf, \* of a stage
    SequenceOf,  \* its position in the adventure
    PlaceOf,     \* its coordinate, to the metre
    TitleOf,     \* the title its name carries
    HasGuid,     \* the owner has set a Geocaching GUID
    Areas,       \* the adventures Lab2Gpx may return at a time
    Files,       \* the stages of a file the user may upload
    Jobs,        \* the jobs that may be enqueued
    NameOf,      \* "sync", "import" or "backfill"
    MaxEdits,    \* bound on uploads, finds and completions
    MaxRequests, \* bound on requests that enrich
    MaxFaults    \* bound on failures

\* dedupAdventureStages knows a stage by its adventure and its number.
ASSUME LabImportAssumption ==
    /\ \A s, t \in Stages :
           AdventureOf[s] = AdventureOf[t] /\ SequenceOf[s] = SequenceOf[t] => s = t
    /\ \A S \in Files : S \subseteq Stages

Codes == Stages \X {"plain", "hyphen"}
Plain(S) == S \X {"plain"}

\* Who runs the enricher: the worker for its job, a request for itself.
Procs == {"worker", "request"}

VARIABLES
    rows,      \* the owner's caches: adventure id by code, None if missing
    finds,     \* cache_finds
    completed, \* stages the user has completed, as Lab2Gpx knows
    parsed,    \* answers whose bytes were ingested
    waiting,   \* jobs in the queue
    job,       \* BullMQ's record of each job
    running,   \* the job of the worker
    pc,        \* where each enricher stands
    answer,    \* the GPX each of them holds
    counts,    \* stages upserted and crossed off
    titles,    \* groups a backfill has yet to fetch
    affected,  \* stages that had no adventure id when it began
    members,   \* of them, those of the current group still to be matched
    button,    \* the job of the sync button and what it shows
    edits, requests, faults

jobVars == <<waiting, job, running>>
enrichVars == <<pc, answer, counts>>
fillVars == <<titles, affected, members>>
vars == <<rows, finds, completed, parsed, jobVars, enrichVars, fillVars, button, edits, requests, faults>>

Counts(i, c) == [imported |-> i, crossedOff |-> c]
NoCounts == Counts(None, None)

Init ==
    /\ rows = [c \in {} |-> None]
    /\ finds = {}
    /\ completed = {}
    /\ parsed = {}
    /\ waiting = {}
    /\ job = [j \in Jobs |-> [state |-> "none", phase |-> "none", result |-> NoCounts, tries |-> 0, stalls |-> 0]]
    /\ running = None
    /\ pc = [p \in Procs |-> "idle"]
    /\ answer = [p \in Procs |-> None]
    /\ counts = [p \in Procs |-> NoCounts]
    /\ titles = {}
    /\ affected = {}
    /\ members = {}
    /\ button = [job |-> None, phase |-> "none", shown |-> NoCounts]
    /\ edits = 0
    /\ requests = 0
    /\ faults = 0

Goto(p, step) == pc' = [pc EXCEPT ![p] = step]
Faulty == faults < MaxFaults /\ faults' = faults + 1
Edit == edits < MaxEdits /\ edits' = edits + 1

----------------------------------------------------------------------------
(* The user, by hand *)

Upserted(codes, advOf(_)) ==
    [c \in codes \cup DOMAIN rows |-> IF c \in codes THEN advOf(c) ELSE rows[c]]

\* A GPX whose urls have no deep link, of either scheme; rows of a newer
\* export are left alone.
UploadLegacy(codes) ==
    /\ Edit
    /\ \E stale \in SUBSET (codes \cap DOMAIN rows) :
           rows' = Upserted(codes \ stale, LAMBDA c : None)
    /\ UNCHANGED <<finds, completed, parsed, jobVars, enrichVars, fillVars, button, faults, requests>>

MarkFound(c) ==
    /\ Edit
    /\ c \in DOMAIN rows \ finds
    /\ finds' = finds \cup {c}
    /\ UNCHANGED <<rows, completed, parsed, jobVars, enrichVars, fillVars, button, faults, requests>>

Complete(s) ==
    /\ Edit
    /\ s \notin completed
    /\ completed' = completed \cup {s}
    /\ UNCHANGED <<rows, finds, parsed, jobVars, enrichVars, fillVars, button, faults, requests>>

----------------------------------------------------------------------------
(* The enricher *)

\* onPhase: only a sync job reports its phase.
Reports(p, phase) ==
    job' = IF p = "worker" /\ NameOf[running] = "sync"
           THEN [job EXCEPT ![running].phase = phase] ELSE job

\* Lab2Gpx returns adventures near the area, whole, up to a limit, and which
\* stages the user of the GUID has completed.
Answers == {{s \in Stages : AdventureOf[s] \in area} : area \in Areas}
Gpx(S, guid) == [stages |-> S, found |-> IF guid THEN S \cap completed ELSE {}]

\* Null: no result, and the sync's job is done.
GiveUp(p) ==
    /\ counts' = [counts EXCEPT ![p] = NoCounts]
    /\ answer' = [answer EXCEPT ![p] = None]
    /\ Goto(p, "settle")

Fetch(p) ==
    /\ pc[p] = "fetch"
    /\ Reports(p, "importing")
    /\ \E S \in Answers : answer' = [answer EXCEPT ![p] = Gpx(S, HasGuid)]
    /\ Goto(p, "import")
    /\ UNCHANGED <<rows, finds, completed, parsed, waiting, running, counts, fillVars, button, edits, faults, requests>>

\* Not OK, an empty body, a timeout: all end in null.
FetchFails(p) ==
    /\ pc[p] = "fetch"
    /\ Faulty
    /\ GiveUp(p)
    /\ UNCHANGED <<rows, finds, completed, parsed, jobVars, fillVars, button, edits, requests>>

Import(p) ==
    /\ pc[p] = "import"
    /\ parsed' = parsed \cup {answer[p]}
    /\ rows' = IF answer[p] \in parsed THEN rows
               ELSE Upserted(Plain(answer[p].stages), LAMBDA c : AdventureOf[c[1]])
    /\ counts' = [counts EXCEPT ![p] =
            Counts(IF answer[p] \in parsed THEN 0 ELSE Cardinality(answer[p].stages), 0)]
    /\ IF HasGuid THEN Reports(p, "completion") ELSE UNCHANGED job
    /\ Goto(p, IF HasGuid THEN "completion" ELSE "settle")
    /\ UNCHANGED <<finds, completed, waiting, running, answer, fillVars, button, edits, faults, requests>>

ImportFails(p) ==
    /\ pc[p] = "import"
    /\ Faulty
    /\ GiveUp(p)
    /\ UNCHANGED <<rows, finds, completed, parsed, jobVars, fillVars, button, edits, requests>>

\* crossOffCompletedStages, by the codes of the answer.
CrossOff(p) ==
    /\ pc[p] = "completion"
    /\ LET done == Plain(answer[p].found) \cap DOMAIN rows
       IN  /\ finds' = finds \cup done
           /\ counts' = [counts EXCEPT ![p].crossedOff = Cardinality(done \ finds)]
    /\ Goto(p, "settle")
    /\ UNCHANGED <<rows, completed, parsed, jobVars, answer, fillVars, button, edits, faults, requests>>

\* Its own catch: the import stands, nothing is crossed off.
CrossOffFails(p) ==
    /\ pc[p] = "completion"
    /\ Faulty
    /\ answer' = [answer EXCEPT ![p] = None]
    /\ Goto(p, "settle")
    /\ UNCHANGED <<rows, finds, completed, parsed, jobVars, counts, fillVars, button, edits, requests>>

\* augmentClusterWithLabs and discovery go on with what is stored.
Augment ==
    /\ pc["request"] = "idle"
    /\ requests < MaxRequests
    /\ requests' = requests + 1
    /\ Goto("request", "fetch")
    /\ UNCHANGED <<rows, finds, completed, parsed, jobVars, answer, counts, fillVars, button, edits, faults>>

Augmented ==
    /\ pc["request"] = "settle"
    /\ Goto("request", "idle")
    /\ answer' = [answer EXCEPT !["request"] = None]
    /\ counts' = [counts EXCEPT !["request"] = NoCounts]
    /\ UNCHANGED <<rows, finds, completed, parsed, jobVars, fillVars, button, edits, faults, requests>>

----------------------------------------------------------------------------
(* Jobs *)

Enqueue(j) ==
    /\ job[j].state = "none"
    /\ waiting' = waiting \cup {j}
    /\ job' = [job EXCEPT ![j].state = "waiting"]
    /\ UNCHANGED running

EnqueueByAdmin(j) ==
    /\ NameOf[j] # "sync"
    /\ Enqueue(j)
    /\ UNCHANGED <<rows, finds, completed, parsed, enrichVars, fillVars, button, edits, faults, requests>>

Take(j) ==
    /\ running = None
    /\ j \in waiting
    /\ waiting' = waiting \ {j}
    /\ running' = j
    /\ job' = [job EXCEPT ![j].state = "active",
                          ![j].phase = IF NameOf[j] = "sync" THEN "fetching" ELSE @]
    /\ Goto("worker", IF NameOf[j] = "backfill" THEN "select" ELSE "fetch")
    /\ UNCHANGED <<rows, finds, completed, parsed, answer, counts, fillVars, button, edits, faults, requests>>

\* "done" is reported before BullMQ hears of the result.
SettleSync ==
    /\ pc["worker"] = "settle"
    /\ Reports("worker", "done")
    /\ Goto("worker", "return")
    /\ UNCHANGED <<rows, finds, completed, parsed, waiting, running, answer, counts, fillVars, button, edits, faults, requests>>

Or0(n) == IF n = None THEN 0 ELSE n

\* The worker is free again, with nothing in its hands.
FreeWorker ==
    /\ running' = None
    /\ Goto("worker", "idle")
    /\ answer' = [answer EXCEPT !["worker"] = None]
    /\ counts' = [counts EXCEPT !["worker"] = NoCounts]
    /\ titles' = {} /\ affected' = {} /\ members' = {}

Return ==
    /\ pc["worker"] = "return"
    /\ job' = [job EXCEPT ![running].state = "completed",
                          ![running].result = Counts(Or0(counts["worker"].imported), Or0(counts["worker"].crossedOff))]
    /\ FreeWorker
    /\ UNCHANGED <<rows, finds, completed, parsed, waiting, button, edits, faults, requests>>

\* A job that throws is tried once more; only a backfill ever throws.
Throw ==
    /\ pc["worker"] \in {"select", "fill", "dedup"}
    /\ Faulty
    /\ LET again == job[running].tries = 0
       IN  /\ job' = [job EXCEPT ![running].tries = @ + 1,
                                 ![running].state = IF again THEN "waiting" ELSE "failed"]
           /\ waiting' = IF again THEN waiting \cup {running} ELSE waiting
    /\ FreeWorker
    /\ UNCHANGED <<rows, finds, completed, parsed, button, edits, requests>>

\* The process goes down; BullMQ finds the job stalled and hands it out once
\* more.
Crash ==
    /\ Faulty
    /\ pc' = [p \in Procs |-> "idle"]
    /\ answer' = [p \in Procs |-> None]
    /\ counts' = [p \in Procs |-> NoCounts]
    /\ titles' = {} /\ affected' = {} /\ members' = {}
    /\ running' = None
    /\ IF running = None THEN UNCHANGED <<waiting, job>>
       ELSE /\ job' = [job EXCEPT ![running].stalls = @ + 1,
                                  ![running].state = IF @ = "active" /\ job[running].stalls = 0 THEN "waiting" ELSE "failed"]
            /\ waiting' = IF job[running].stalls = 0 THEN waiting \cup {running} ELSE waiting
    /\ UNCHANGED <<rows, finds, completed, parsed, button, edits, requests>>

----------------------------------------------------------------------------
(* backfillAdventureIds *)

MissingId == {c \in DOMAIN rows : rows[c] = None}

Select ==
    /\ pc["worker"] = "select"
    /\ affected' = MissingId
    /\ titles' = {TitleOf[c[1]] : c \in MissingId}
    /\ Goto("worker", "group")
    /\ UNCHANGED <<rows, finds, completed, parsed, jobVars, answer, counts, members, button, edits, faults, requests>>

FetchGroup(t) ==
    /\ pc["worker"] = "group"
    /\ t \in titles
    /\ titles' = titles \ {t}
    /\ \/ /\ \E S \in Answers : answer' = [answer EXCEPT !["worker"] = Gpx(S, FALSE)]
          /\ members' = {c \in affected : TitleOf[c[1]] = t}
          /\ Goto("worker", "fill")
          /\ UNCHANGED faults
       \/ Faulty /\ UNCHANGED <<pc, answer, members>>
    /\ UNCHANGED <<rows, finds, completed, parsed, jobVars, counts, affected, button, edits, requests>>

\* Mutant: the stage of that number, of whatever adventure.
MatchedByNumber(S, c) ==
    IF c[2] = "plain" /\ c[1] \in S THEN {AdventureOf[c[1]]}
    ELSE {AdventureOf[s] : s \in {s \in S : SequenceOf[s] = SequenceOf[c[1]]}}

\* By code, else by coordinate, where the last stage of the file wins.
Matched(S, c) ==
    IF c[2] = "plain" /\ c[1] \in S THEN {AdventureOf[c[1]]}
    ELSE {AdventureOf[s] : s \in {s \in S : PlaceOf[s] = PlaceOf[c[1]]}}

Fill(c) ==
    /\ pc["worker"] = "fill"
    /\ c \in members
    /\ members' = members \ {c}
    /\ LET ids == Matched(answer["worker"].stages, c)
       IN  IF ids = {} \/ c \notin MissingId THEN UNCHANGED rows
           ELSE \E id \in ids : rows' = [rows EXCEPT ![c] = id]
    /\ UNCHANGED <<finds, completed, parsed, jobVars, enrichVars, titles, affected, button, edits, faults, requests>>

NextGroup ==
    /\ pc["worker"] = "fill"
    /\ members = {}
    /\ Goto("worker", "group")
    /\ UNCHANGED <<rows, finds, completed, parsed, jobVars, answer, counts, fillVars, button, edits, faults, requests>>

NoMoreGroups ==
    /\ pc["worker"] = "group"
    /\ titles = {}
    /\ Goto("worker", "dedup")
    /\ UNCHANGED <<rows, finds, completed, parsed, jobVars, answer, counts, fillVars, button, edits, faults, requests>>

\* Mutant: rows of one number, of whatever adventure.
DuplicatesOfNumber(c) ==
    {d \in DOMAIN rows \ MissingId : SequenceOf[d[1]] = SequenceOf[c[1]]}

\* Rows of one adventure and one number.
Duplicates(c) ==
    {d \in DOMAIN rows : rows[d] = rows[c] /\ SequenceOf[d[1]] = SequenceOf[c[1]]}

\* The code without a hyphen is kept, then the lower id; finds go along with
\* their row.
Dedup ==
    /\ pc["worker"] = "dedup"
    /\ LET named == DOMAIN rows \ MissingId
           best(D) == LET plain == {d \in D : d[2] = "plain"}
                      IN  IF plain # {} THEN plain ELSE D
       IN  \E kept \in SUBSET named :
               /\ \A c \in named : Cardinality(Duplicates(c) \cap kept) = 1
               /\ \A c \in kept : c \in best(Duplicates(c))
               /\ rows' = [c \in MissingId \cup kept |-> rows[c]]
               /\ finds' = finds \cap (MissingId \cup kept)
    /\ Goto("worker", "return")
    /\ UNCHANGED <<completed, parsed, jobVars, answer, counts, fillVars, button, edits, faults, requests>>

----------------------------------------------------------------------------
(* The sync button *)

Ended == {"done", "failed"}
Busy == button.job # None /\ button.phase \notin Ended

PressSync(j) ==
    /\ ~Busy
    /\ NameOf[j] = "sync"
    /\ Enqueue(j)
    /\ button' = [job |-> j, phase |-> "none", shown |-> NoCounts]
    /\ UNCHANGED <<rows, finds, completed, parsed, enrichVars, fillVars, edits, faults, requests>>

\* getSyncStatus; that it reads the record before the state is left out.
Poll ==
    /\ Busy
    /\ LET record == job[button.job]
       IN  button' = [button EXCEPT
            !.phase = CASE record.state = "completed" -> "done"
                        [] record.state = "failed" -> "failed"
                        [] OTHER -> IF record.phase = "none" THEN "queued" ELSE record.phase,
            !.shown = IF record.state = "completed"
                      THEN Counts(Or0(record.result.imported), Or0(record.result.crossedOff))
                      ELSE NoCounts]
    /\ UNCHANGED <<rows, finds, completed, parsed, jobVars, enrichVars, fillVars, edits, faults, requests>>

----------------------------------------------------------------------------

Enriching(p) ==
    \/ Fetch(p) \/ FetchFails(p) \/ Import(p) \/ ImportFails(p) \/ CrossOff(p) \/ CrossOffFails(p)

WorkerStep ==
    \/ \E j \in Jobs : Take(j)
    \/ Fetch("worker") \/ Import("worker") \/ CrossOff("worker") \/ SettleSync \/ Return
    \/ Select
    \/ \E t \in titles : FetchGroup(t)
    \/ \E c \in members : Fill(c)
    \/ NextGroup \/ NoMoreGroups \/ Dedup

Next ==
    \/ WorkerStep
    \/ \E p \in Procs : Enriching(p)
    \/ Augment \/ Augmented
    \/ Throw \/ Crash
    \/ \E j \in Jobs : EnqueueByAdmin(j) \/ PressSync(j)
    \/ Poll
    \/ \E scheme \in {"plain", "hyphen"}, S \in Files : UploadLegacy(S \X {scheme})
    \/ \E c \in DOMAIN rows : MarkFound(c)
    \/ \E s \in Stages : Complete(s)

\* The worker polls its queue and its calls end; the button polls.
Spec == Init /\ [][Next]_vars /\ WF_vars(WorkerStep) /\ WF_vars(Poll)

----------------------------------------------------------------------------

\* Adventures that share a place are told apart by nothing but their codes.
PlacesTellAdventures ==
    \A s, t \in Stages : PlaceOf[s] = PlaceOf[t] => AdventureOf[s] = AdventureOf[t]

\* Whatever is uploaded, imported and filled in side by side, a stage is never
\* given to another adventure, where adventures do not share a place.
IdsAreTrue ==
    PlacesTellAdventures => \A c \in DOMAIN rows : rows[c] \in {None, AdventureOf[c[1]]}

\* "Keep exactly one row per logical stage": the removal of duplicates never
\* takes the last row of a stage.
StagesSurvive ==
    [][PlacesTellAdventures =>
        \A c \in DOMAIN rows : \E d \in DOMAIN rows' : d[1] = c[1]]_vars

=============================================================================

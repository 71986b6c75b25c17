------------------------------ MODULE GpxIngest ------------------------------
(***************************************************************************)
(* The ingest of GPX files of one owner: the upload record and the raw     *)
(* file, the transaction of upsertFromGpx with the row locks of Postgres,  *)
(* the finds, the reprocessing of a stored file and the removal of a       *)
(* solved coordinate.                                                      *)
(*                                                                         *)
(* A request takes one action per awaited call.  Its transaction is READ   *)
(* COMMITTED: it reads what is committed when the statement starts, its    *)
(* own writes are invisible until it commits, and the rows it has written  *)
(* are locked until then.  Names, ratings and attributes of a cache are    *)
(* left out; `exported` tells which file they were taken from.             *)
(***************************************************************************)
EXTENDS GpxParse

CONSTANTS
    Codes,     \* the caches' codes
    Coords,    \* coordinates, any two more than a metre apart
    Files,     \* the files there are: byte for byte different
    File,      \* what is in each
    Options,   \* for each, what its uploader may tick
    Requests,  \* HTTP requests
    Faults,    \* the faults that may happen: among "db", "crash"
    MaxFaults  \* bound: faults in a behaviour

VARIABLES
    rows,     \* caches: the committed rows
    wpts,     \* additional_waypoints: who inserted those of each cache
    found,    \* cache_finds of the owner
    derived,  \* the coordinate that the route_legs and cache_landuse rows are for
    uploads,  \* gpx_uploads
    disk,     \* UPLOADS_DIR: the raw files that are there
    req,      \* the local variables of each request
    faults,   \* faults so far
    raced     \* history: caches written on the strength of an outdated read

vars == <<rows, wpts, found, derived, uploads, disk, req, faults, raced>>

Times == Nat \cup {None}

FileRecord == [caches : Seq(Codes), at : [Codes -> Coords], wpts : SUBSET Codes,
               exported : Times, valid : BOOLEAN, corrected : BOOLEAN,
               finds : BOOLEAN]

IngestOptions == [force : BOOLEAN, markAsFound : BOOLEAN, solvedCoordinates : BOOLEAN]

Cache == [loc : Coords, published : Coords \cup {None}, solved : BOOLEAN,
          exported : Times]

ASSUME GpxIngestAssumption ==
    /\ None \notin Codes \cup Coords \cup Files \cup Requests
    /\ None \notin Cache
    /\ Files \cap Requests = {}
    /\ File \in [Files -> FileRecord]
    /\ Options \in [Files -> SUBSET IngestOptions]
    /\ \A f \in Files : \A opts \in Options[f] : opts.solvedCoordinates => File[f].corrected
    /\ Faults \subseteq {"db", "crash"}
    /\ MaxFaults \in Nat

\* Upload ids: of the files uploaded before, and of the requests.
Uploads == Files \cup Requests

Upload == [status : {"none", "received", "parsed", "failed"},
           file : Files \cup {None}, raw : BOOLEAN]

Request == [pc : {"unused", "lookup", "insert", "save", "stored", "parse", "read",
                  "upsert", "waypoints", "commit", "finds", "parsed", "done", "failed"},
            file : Files \cup {None}, force : BOOLEAN, solved : BOOLEAN,
            markAsFound : BOOLEAN, duplicate : BOOLEAN,
            upload : Uploads \cup {None},
            existing : [Codes -> Cache \cup {None}],
            next : Nat,
            mine : [Codes -> Cache \cup {None}],
            relocated : SUBSET Codes,
            matched : SUBSET Codes,
            wiped : SUBSET Codes,
            seen : [Codes -> SUBSET Uploads]]

NoRows == [c \in Codes |-> None]
NoWaypoints == [c \in Codes |-> {}]

Unused == [pc |-> "unused", file |-> None, force |-> FALSE, solved |-> FALSE,
           markAsFound |-> FALSE, duplicate |-> FALSE, upload |-> None, existing |-> NoRows, next |-> 1, mine |-> NoRows,
           relocated |-> {}, matched |-> {}, wiped |-> {}, seen |-> NoWaypoints]

TypeOK ==
    /\ rows \in [Codes -> Cache \cup {None}]
    /\ wpts \in [Codes -> SUBSET Uploads]
    /\ found \in SUBSET Codes
    /\ derived \in [Codes -> Coords \cup {None}]
    /\ uploads \in [Uploads -> Upload]
    /\ disk \in SUBSET Uploads
    /\ req \in [Requests -> Request]
    /\ faults \in 0..MaxFaults
    /\ raced \in SUBSET Codes

Batch(f) == ToSet(File[f].caches)

\* What the INSERT of a cache would store.
Inserted(f, c, solved) ==
    [loc |-> File[f].at[c], published |-> IF solved THEN None ELSE File[f].at[c],
     solved |-> solved, exported |-> File[f].exported]

\* Before, the owner uploaded nothing, or one file.
Init ==
    \E before \in {f \in Files : File[f].valid} \cup {None} :
        LET batch == IF before = None THEN {} ELSE Batch(before)
        IN  /\ rows = [c \in Codes |->
                          IF c \in batch THEN Inserted(before, c, File[before].corrected)
                                         ELSE None]
            /\ wpts = [c \in Codes |->
                          IF c \in batch /\ c \in File[before].wpts THEN {before} ELSE {}]
            /\ found = IF before # None /\ File[before].finds THEN batch ELSE {}
            /\ derived = [c \in Codes |-> None]
            /\ uploads = [u \in Uploads |->
                             IF u = before
                             THEN [status |-> "parsed", file |-> u, raw |-> TRUE]
                             ELSE [status |-> "none", file |-> None, raw |-> FALSE]]
            /\ disk = {before} \ {None}
            /\ req = [r \in Requests |-> Unused]
            /\ faults = 0
            /\ raced = {}

At(r, pc) == req[r].pc = pc

\* The local variables of an answered request are gone; what was asked and
\* what was answered are not.
Succeed(r, duplicate) ==
    req' = [req EXCEPT ![r] = [Unused EXCEPT !.pc = "done", !.file = req[r].file,
                                             !.markAsFound = req[r].markAsFound,
                                             !.duplicate = duplicate]]

\* Mutant: an error leaves the transaction open.
FailInTransaction(r) == req' = [req EXCEPT ![r].pc = "failed"]

\* The request fails; its transaction is rolled back.
Fail(r) == req' = [req EXCEPT ![r] = [Unused EXCEPT !.pc = "failed"]]

Goto(r, pc) == req' = [req EXCEPT ![r].pc = pc]

Inject(fault) == fault \in Faults /\ faults < MaxFaults /\ faults' = faults + 1

----------------------------------------------------------------------------
(***************************************************************************)
(* Up to the parsed file.                                                  *)
(***************************************************************************)

\* POST /gpx/upload, with the options ticked for this upload.  Nobody ticks
\* "solved coordinates" for a file without them.
Post(r, f, opts) ==
    /\ At(r, "unused")
    /\ req' = [req EXCEPT ![r] = [Unused EXCEPT !.pc = "lookup", !.file = f,
                                                !.force = opts.force,
                                                !.solved = opts.solvedCoordinates,
                                                !.markAsFound = opts.markAsFound]]
    /\ UNCHANGED <<rows, wpts, found, derived, uploads, disk, faults, raced>>

\* POST /admin/uploads/:id/reprocess, which knows of no options.
Reprocess(r, u) ==
    /\ At(r, "unused")
    /\ req' = [req EXCEPT ![r] =
                  IF uploads[u].raw /\ u \in disk
                  THEN [Unused EXCEPT !.pc = "parse", !.file = uploads[u].file, !.upload = u]
                  ELSE [Unused EXCEPT !.pc = "failed"]]
    /\ UNCHANGED <<rows, wpts, found, derived, uploads, disk, faults, raced>>

\* Mutant: an upload that was only received suppresses a retry.
UploadsByHash(f) == {u \in Uploads : uploads[u].raw /\ uploads[u].file = f}

\* findParsedUploadByHash takes the latest: here, any of them.
ParsedUploadsByHash(f) ==
    {u \in Uploads : /\ uploads[u].raw
                     /\ uploads[u].file = f
                     /\ uploads[u].status = "parsed"}

Lookup(r) ==
    LET f == req[r].file
        same == ParsedUploadsByHash(f)
    IN  /\ At(r, "lookup")
        /\ \/ /\ same = {}
              /\ req' = [req EXCEPT ![r].pc = "insert", ![r].force = FALSE]
           \/ same # {} /\ ~req[r].force /\ Succeed(r, TRUE)
           \/ \E u \in same :
                /\ req[r].force
                /\ req' = [req EXCEPT ![r].pc = "parse", ![r].force = FALSE,
                                      ![r].upload = u]
        /\ UNCHANGED <<rows, wpts, found, derived, uploads, disk, faults, raced>>

InsertReceivedUpload(r) ==
    /\ At(r, "insert")
    /\ uploads' = [uploads EXCEPT ![r] = [status |-> "received", file |-> req[r].file,
                                          raw |-> FALSE]]
    /\ req' = [req EXCEPT ![r].pc = "save", ![r].upload = r]
    /\ UNCHANGED <<rows, wpts, found, derived, disk, faults, raced>>

Save(r) ==
    /\ At(r, "save")
    /\ disk' = disk \cup {r}
    /\ Goto(r, "stored")
    /\ UNCHANGED <<rows, wpts, found, derived, uploads, faults, raced>>

MarkRawStored(r) ==
    /\ At(r, "stored")
    /\ uploads' = [uploads EXCEPT ![r].raw = TRUE]
    /\ Goto(r, "parse")
    /\ UNCHANGED <<rows, wpts, found, derived, disk, faults, raced>>

\* A file with nothing in it opens no transaction.
ParseGpx(r) ==
    LET f == req[r].file
    IN  /\ At(r, "parse")
        /\ IF File[f].valid
           THEN /\ Goto(r, IF Batch(f) = {} /\ File[f].wpts = {} THEN "finds" ELSE "read")
                /\ UNCHANGED uploads
           ELSE /\ uploads' = [uploads EXCEPT ![req[r].upload].status = "failed"]
                /\ Fail(r)
        /\ UNCHANGED <<rows, wpts, found, derived, disk, faults, raced>>

----------------------------------------------------------------------------
(***************************************************************************)
(* The transaction of upsertFromGpx.                                       *)
(***************************************************************************)

ReadExisting(r) ==
    LET f == req[r].file
    IN  /\ At(r, "read")
        /\ req' = [req EXCEPT
                      ![r].existing = [c \in Codes |-> IF c \in Batch(f) THEN rows[c]
                                                                         ELSE None],
                      ![r].pc = IF Batch(f) = {} THEN "waypoints" ELSE "upsert"]
        /\ UNCHANGED <<rows, wpts, found, derived, uploads, disk, faults, raced>>

\* The cache the loop is at.
Current(r) == File[req[r].file].caches[req[r].next]

\* Mutant: the ages are compared the wrong way round.
IsStaleIfNewer(r, c) ==
    LET existing == req[r].existing[c]
        exported == File[req[r].file].exported
    IN  /\ ~req[r].solved
        /\ existing # None
        /\ existing.exported # None
        /\ exported # None
        /\ exported > existing.exported

IsStale(r, c) ==
    LET existing == req[r].existing[c]
        exported == File[req[r].file].exported
    IN  /\ ~req[r].solved
        /\ existing # None
        /\ existing.exported # None
        /\ exported # None
        /\ exported < existing.exported

\* Mutant: a normal upload writes the location of a solved cache too.
WritesLocationAlways(r, c) == TRUE

WritesLocation(r, c) ==
    \/ req[r].solved
    \/ req[r].existing[c] = None
    \/ ~req[r].existing[c].solved

\* Mutant: only a corrected coordinate counts as a move.
RelocatesIfSolved(r, c) ==
    /\ req[r].solved
    /\ req[r].existing[c] # None
    /\ req[r].existing[c].loc # File[req[r].file].at[c]

Relocates(r, c) ==
    /\ req[r].existing[c] # None
    /\ WritesLocation(r, c)
    /\ req[r].existing[c].loc # File[req[r].file].at[c]

\* INSERT ... ON CONFLICT DO UPDATE, against the row as it is now.
Upserted(r, c) ==
    LET f == req[r].file
        row == rows[c]
    IN  IF row = None THEN Inserted(f, c, req[r].solved)
        ELSE IF req[r].solved THEN [row EXCEPT !.loc = File[f].at[c], !.solved = TRUE]
        ELSE [row EXCEPT !.loc = IF WritesLocation(r, c) THEN File[f].at[c] ELSE @,
                         !.published = File[f].at[c],
                         !.exported = File[f].exported]

\* The caches whose rows request r keeps locked until it commits.
Locked(r) == {c \in Codes : req[r].mine[c] # None}

IsFree(r, c) == \A q \in Requests \ {r} : c \notin Locked(q)

IsLast(r) == req[r].next = Len(File[req[r].file].caches)

\* Stale: the row is skipped, without a lock on it.
SkipStale(r) ==
    /\ At(r, "upsert")
    /\ IsStale(r, Current(r))
    /\ req' = [req EXCEPT ![r].next = @ + 1,
                          ![r].pc = IF IsLast(r) THEN "waypoints" ELSE "upsert"]
    /\ UNCHANGED <<rows, wpts, found, derived, uploads, disk, faults, raced>>

UpsertOne(r) ==
    LET c == Current(r)
    IN  /\ At(r, "upsert")
        /\ ~IsStale(r, c)
        /\ IsFree(r, c)
        /\ req' = [req EXCEPT ![r].mine = [@ EXCEPT ![c] = Upserted(r, c)],
                              ![r].relocated = IF Relocates(r, c) THEN @ \cup {c} ELSE @,
                              ![r].next = @ + 1,
                              ![r].pc = IF IsLast(r) THEN "waypoints" ELSE "upsert"]
        /\ raced' = IF rows[c] = req[r].existing[c] THEN raced ELSE raced \cup {c}
        /\ UNCHANGED <<rows, wpts, found, derived, uploads, disk, faults>>

\* The file's caches whose waypoints are wiped, stale or not, and the
\* parents of its waypoints that are found among the owner's caches.
Matched(r) ==
    {c \in File[req[r].file].wpts : c \in Batch(req[r].file) \/ rows[c] # None}

\* Mutant: only the waypoints of the caches in the file are wiped.
WipedInBatch(r) == Batch(req[r].file)

Wiped(r) == Batch(req[r].file) \cup Matched(r)

\* The parents are looked up, what the DELETE sees is gone, the waypoints
\* are inserted.  (A DELETE that meets the uncommitted DELETE of another
\* request waits for it and then finds the same rows gone: whichever is
\* first, the outcome is the one here.)
ReplaceWaypoints(r) ==
    /\ At(r, "waypoints")
    /\ req' = [req EXCEPT
                  ![r].matched = Matched(r),
                  ![r].wiped = Wiped(r),
                  ![r].seen = [c \in Codes |-> IF c \in Matched(r) \cup Wiped(r)
                                               THEN wpts[c] ELSE {}],
                  ![r].pc = "commit"]
    /\ UNCHANGED <<rows, wpts, found, derived, uploads, disk, faults, raced>>

\* The invalidation of what was derived from a moved cache, and COMMIT.
Commit(r) ==
    LET me == req[r]
    IN  /\ At(r, "commit")
        /\ rows' = [c \in Codes |-> IF c \in Locked(r) THEN me.mine[c] ELSE rows[c]]
        /\ wpts' = [c \in Codes |-> (IF c \in me.wiped THEN wpts[c] \ me.seen[c] ELSE wpts[c])
                                        \cup (IF c \in me.matched THEN {r} ELSE {})]
        /\ derived' = [c \in Codes |-> IF c \in me.relocated THEN None ELSE derived[c]]
        /\ raced' = raced \cup {c \in me.matched : wpts[c] # me.seen[c]}
        /\ req' = [req EXCEPT ![r] = [Unused EXCEPT !.pc = "finds", !.file = me.file,
                                                    !.markAsFound = me.markAsFound,
                                                    !.upload = me.upload]]
        /\ UNCHANGED <<found, uploads, disk, faults>>

----------------------------------------------------------------------------
(***************************************************************************)
(* After the transaction.                                                  *)
(***************************************************************************)

ShouldMarkFound(r) == File[req[r].file].finds \/ req[r].markAsFound

\* The ids are those of the file's caches, skipped ones included.
RecordFinds(r) ==
    LET f == req[r].file
    IN  /\ At(r, "finds")
        /\ found' = IF ShouldMarkFound(r) THEN found \cup Batch(f) ELSE found
        /\ Goto(r, "parsed")
        /\ UNCHANGED <<rows, wpts, derived, uploads, disk, faults, raced>>

MarkParsed(r) ==
    /\ At(r, "parsed")
    /\ uploads' = [uploads EXCEPT ![req[r].upload].status = "parsed"]
    /\ Succeed(r, FALSE)
    /\ UNCHANGED <<rows, wpts, found, derived, disk, faults, raced>>

----------------------------------------------------------------------------
(***************************************************************************)
(* What goes wrong.                                                        *)
(***************************************************************************)

Running(r) == req[r].pc \notin {"unused", "done", "failed"}

\* Request r waits for a row that q has written.
WaitsFor(r, q) ==
    /\ q # r
    /\ At(r, "upsert")
    /\ ~IsStale(r, Current(r))
    /\ Current(r) \in Locked(q)

\* Postgres ends one of the transactions that wait for each other.
DeadlockDetected(r) ==
    /\ \E S \in SUBSET Requests :
          r \in S /\ \A s \in S : \E t \in S : WaitsFor(s, t)
    /\ Fail(r)
    /\ UNCHANGED <<rows, wpts, found, derived, uploads, disk, faults, raced>>

\* A statement or a file operation fails.
StepFails(r) ==
    /\ Running(r)
    /\ Inject("db")
    /\ Fail(r)
    /\ UNCHANGED <<rows, wpts, found, derived, uploads, disk, raced>>

\* The API process dies, and every request with it.
Crash ==
    /\ \E r \in Requests : Running(r)
    /\ Inject("crash")
    /\ req' = [r \in Requests |->
                  IF Running(r) THEN [Unused EXCEPT !.pc = "failed"] ELSE req[r]]
    /\ UNCHANGED <<rows, wpts, found, derived, uploads, disk, raced>>

----------------------------------------------------------------------------
(***************************************************************************)
(* The rest of the system.                                                 *)
(***************************************************************************)

Reverted(row) ==
    [row EXCEPT !.solved = FALSE,
                !.loc = IF row.published = None THEN row.loc ELSE row.published]

\* DELETE /caches/:id/solved-coordinates, one transaction that waits for the row.
ClearSolved(c) ==
    /\ rows[c] # None
    /\ rows[c].solved
    /\ \A r \in Requests : c \notin Locked(r)
    /\ rows' = [rows EXCEPT ![c] = Reverted(rows[c])]
    /\ derived' = [derived EXCEPT ![c] = None]
    /\ UNCHANGED <<wpts, found, uploads, disk, req, faults, raced>>

\* The re-warm: a job derives what is missing from the committed location.
\* (In one step; a job that reads before a move and writes after it is the
\* subject of WalkingSystem.)
Warm(c) ==
    /\ rows[c] # None
    /\ derived[c] = None
    /\ derived' = [derived EXCEPT ![c] = rows[c].loc]
    /\ UNCHANGED <<rows, wpts, found, uploads, disk, req, faults, raced>>

----------------------------------------------------------------------------

Ingest(r) == Lookup(r) \/ InsertReceivedUpload(r) \/ Save(r) \/ MarkRawStored(r)

Upsert(r) ==
    ReadExisting(r) \/ SkipStale(r) \/ UpsertOne(r) \/ ReplaceWaypoints(r) \/ Commit(r)

Finish(r) == RecordFinds(r) \/ MarkParsed(r)

Serve(r) == Ingest(r) \/ ParseGpx(r) \/ Upsert(r) \/ Finish(r) \/ DeadlockDetected(r)

Next ==
    \/ \E r \in Requests, f \in Files : \E opts \in Options[f] : Post(r, f, opts)
    \/ \E r \in Requests, u \in Uploads : Reprocess(r, u)
    \/ \E r \in Requests : Serve(r)
    \/ \E r \in Requests : StepFails(r)
    \/ Crash
    \/ \E c \in Codes : ClearSolved(c)
    \/ \E c \in Codes : Warm(c)

Spec == Init /\ [][Next]_vars

\* Fairness: the event loop runs what a request can do, and Postgres breaks
\* deadlocks.  Users owe nothing.
FairSpec == Spec /\ \A r \in Requests : WF_vars(Serve(r))

----------------------------------------------------------------------------
(***************************************************************************)
(* Properties.  Where two requests, or a request and a removal, race for a *)
(* cache, the later write may rest on a read that is no longer true;       *)
(* `raced` names exactly these caches, and the others are kept right in    *)
(* every interleaving.                                                     *)
(***************************************************************************)

\* The coordinates the owner's corrected files give for cache c.
Corrected(c) == {File[f].at[c] : f \in {g \in Files : File[g].corrected /\ c \in Batch(g)}}

SolvedIsCorrected(c) ==
    (rows[c] # None /\ rows[c].solved) => rows[c].loc \in Corrected(c)

\* A normal upload, a reprocessed one, a retry or a crash does not move a
\* solved cache off the coordinate its owner solved.
SolvedCoordinateSurvives == \A c \in Codes \ raced : SolvedIsCorrected(c)

\* The planner walks to `location`: for a cache that is not solved it is the
\* posted coordinate, once there is one, also after a solved coordinate was
\* taken back.
LocationIsEffective ==
    \A c \in Codes \ raced :
        (rows[c] # None /\ ~rows[c].solved /\ rows[c].published # None)
        => rows[c].loc = rows[c].published

\* An older export does not replace what a newer one stored, in whatever
\* order files are uploaded, repeated and reprocessed.
NewestExportWins ==
    [][\A c \in Codes \ raced' :
          (/\ rows[c] # None
           /\ rows'[c] # None
           /\ rows[c].exported # None
           /\ rows'[c].exported # None)
          => rows'[c].exported >= rows[c].exported]_vars

\* Walking legs and landuse of a cache are never those of a place it has
\* left: every way of moving one invalidates them with the move.
DerivedFollowsLocation ==
    \A c \in Codes \ raced : derived[c] # None => derived[c] = rows[c].loc

\* A cache has the waypoints of one file, however caches and waypoints are
\* split over files and repeated ("otherwise a re-uploaded -wpts.gpx would
\* double-insert").
WaypointsOfOneFile == \A c \in Codes \ raced : \A u, v \in wpts[c] : u = v

\* A request that is answered with success, as a duplicate or after work of
\* its own, has its caches stored and the finds of a My Finds file recorded.
\* The finds its user asked for with the request are recorded too, unless the
\* answer is "duplicate", which looks at no option of the request.
SuccessMeansStored ==
    \A r \in Requests :
        At(r, "done") =>
            /\ \A c \in Batch(req[r].file) : rows[c] # None
            /\ File[req[r].file].finds \/ (req[r].markAsFound /\ ~req[r].duplicate)
                  => Batch(req[r].file) \subseteq found

\* Every request is answered, although requests wait for each other's rows.
RequestsAreAnswered == \A r \in Requests : Running(r) ~> ~Running(r)

----------------------------------------------------------------------------
(***************************************************************************)
(* What holds in every state: the strengthening that makes the properties  *)
(* above inductive.                                                        *)
(***************************************************************************)

Transaction == {"upsert", "waypoints", "commit"}

\* A request knows its file; only a corrected file is taken for solved; a
\* request has written rows only within its transaction.
KnowsItsFile(me) ==
    /\ me.pc \notin {"unused", "failed"} => me.file \in Files
    /\ me.solved => me.file \in Files /\ File[me.file].corrected
    /\ me.pc = "upsert" => me.next \in 1..Len(File[me.file].caches)
    /\ me.pc \notin Transaction => me.next = 1 /\ me.mine = NoRows
    /\ me.pc = "commit" => me.matched \subseteq me.wiped

RequestsKnow ==
    \A r \in Requests :
        /\ KnowsItsFile(req[r])
        /\ req[r].pc \in {"save", "stored"} => req[r].upload = r
        /\ req[r].pc \notin {"unused", "done", "failed", "lookup", "insert"}
              => req[r].upload \in Uploads /\ uploads[req[r].upload].file \in Files

StoredUploadsKnow == \A u \in Uploads : uploads[u].raw => uploads[u].file \in Files

\* A row whose coordinates are in order.
IsSound(c, row) ==
    row # None =>
        /\ row.solved => row.loc \in Corrected(c)
        /\ ~row.solved /\ row.published # None => row.loc = row.published

\* Committed or not.
RowsAreSound ==
    \A c \in Codes \ raced :
        /\ IsSound(c, rows[c])
        /\ \A r \in Requests : IsSound(c, req[r].mine[c])

\* A row is written by one transaction at a time.
LocksAreExclusive ==
    \A q, r \in Requests : q # r => Locked(q) \cap Locked(r) = {}

\* What a transaction has done to the row it read: an export is not older
\* than the one before it, and a move is known.
IsUpdateOf(existing, row, moved) ==
    existing # None =>
        /\ row.loc # existing.loc => moved
        /\ existing.exported # None /\ row.exported # None
              => row.exported >= existing.exported

\* A locked row is still the one that was read, except in a race.
LockedRowsAreCurrent ==
    \A r \in Requests : \A c \in Locked(r) \ raced :
        /\ rows[c] = req[r].existing[c]
        /\ IsUpdateOf(req[r].existing[c], req[r].mine[c], c \in req[r].relocated)

OnlyRowsAreDerivedFrom == \A c \in Codes : rows[c] = None => derived[c] = None

Inv ==
    /\ TypeOK
    /\ RequestsKnow
    /\ StoredUploadsKnow
    /\ RowsAreSound
    /\ LocksAreExclusive
    /\ LockedRowsAreCurrent
    /\ OnlyRowsAreDerivedFrom
    /\ DerivedFollowsLocation
    /\ WaypointsOfOneFile

=============================================================================

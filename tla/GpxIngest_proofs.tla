-------------------------- MODULE GpxIngest_proofs --------------------------
(***************************************************************************)
(* Theorems about GpxIngest, for every set of files, caches and requests.  *)
(***************************************************************************)
EXTENDS GpxIngest, TLAPS

----------------------------------------------------------------------------
(***************************************************************************)
(* Files and rows.                                                         *)
(***************************************************************************)

LEMMA FilesAreTyped ==
    ASSUME NEW f \in Files
    PROVE  /\ File[f].caches \in Seq(Codes)
           /\ File[f].at \in [Codes -> Coords]
           /\ File[f].wpts \in SUBSET Codes
           /\ File[f].exported \in Times
           /\ File[f].corrected \in BOOLEAN
           /\ File[f].finds \in BOOLEAN
BY GpxIngestAssumption DEF FileRecord

\* The caches of a file are caches.
LEMMA BatchIsTyped ==
    ASSUME NEW f \in Files
    PROVE  /\ Batch(f) \in SUBSET Codes
           /\ \A i \in 1..Len(File[f].caches) : File[f].caches[i] \in Batch(f)
           /\ Batch(f) # {} => 1 \in 1..Len(File[f].caches)
<1>1. File[f].caches \in Seq(Codes)
  BY FilesAreTyped
<1>2. Batch(f) = {File[f].caches[i] : i \in DOMAIN File[f].caches}
  BY DEF Batch, ToSet
<1>3. DOMAIN File[f].caches = 1..Len(File[f].caches)
  BY <1>1
<1> QED BY <1>1, <1>2, <1>3

\* What a file inserts is a row in order.
LEMMA InsertedIsSound ==
    ASSUME NEW f \in Files, NEW c \in Batch(f), NEW solved \in BOOLEAN,
           solved => File[f].corrected
    PROVE  /\ Inserted(f, c, solved) \in Cache
           /\ Inserted(f, c, solved) # None => IsSound(c, Inserted(f, c, solved))
<1>1. c \in Codes
  BY BatchIsTyped
<1>2. File[f].at[c] \in Coords /\ File[f].exported \in Times
  BY <1>1, FilesAreTyped
<1>3. Inserted(f, c, solved) \in Cache
  BY <1>2 DEF Inserted, Cache
<1>4. solved => File[f].at[c] \in Corrected(c)
  BY DEF Corrected
<1> QED BY <1>3, <1>4 DEF Inserted, IsSound

----------------------------------------------------------------------------
(***************************************************************************)
(* Types, and what a request knows.                                        *)
(***************************************************************************)

Known == TypeOK /\ RequestsKnow /\ StoredUploadsKnow

Early == {"unused", "done", "failed", "lookup", "insert"}

LEMMA OptionsAreTyped ==
    ASSUME NEW f \in Files, NEW opts \in Options[f]
    PROVE  /\ opts.force \in BOOLEAN /\ opts.markAsFound \in BOOLEAN
           /\ opts.solvedCoordinates \in BOOLEAN
           /\ opts.solvedCoordinates => File[f].corrected
<1>1. opts \in IngestOptions
  BY GpxIngestAssumption
<1> QED BY <1>1, GpxIngestAssumption DEF IngestOptions

\* The record of an idle or finished request is well-formed.
LEMMA UnusedIsTyped ==
    /\ Unused \in Request /\ KnowsItsFile(Unused) /\ Unused.pc = "unused"
    /\ [Unused EXCEPT !.pc = "failed"] \in Request
    /\ KnowsItsFile([Unused EXCEPT !.pc = "failed"])
<1>1. NoRows \in [Codes -> Cache \cup {None}] /\ NoWaypoints \in [Codes -> SUBSET Uploads]
  BY DEF NoRows, NoWaypoints
<1>2. Unused \in Request
  BY <1>1 DEF Unused, Request
<1> QED BY <1>1, <1>2 DEF Unused, Request, KnowsItsFile, Transaction

\* A step of one request: its new record has to be well-formed.
LEMMA RequestMoves ==
    ASSUME Known,
           NEW r \in Requests, NEW me \in Request,
           req' = [req EXCEPT ![r] = me],
           KnowsItsFile(me),
           me.pc \in {"save", "stored"} => me.upload = r,
           me.pc \notin Early => me.upload \in Uploads /\ uploads'[me.upload].file \in Files,
           \A u \in Uploads : uploads[u].file \in Files => uploads'[u].file \in Files
    PROVE  req' \in [Requests -> Request] /\ RequestsKnow'
<1>1. req \in [Requests -> Request]
  BY DEF Known, TypeOK
<1>2. req'[r] = me /\ \A q \in Requests \ {r} : req'[q] = req[q]
  BY <1>1
<1>3. req' \in [Requests -> Request]
  BY <1>1
<1>4. ASSUME NEW q \in Requests
      PROVE  /\ KnowsItsFile(req'[q])
             /\ req'[q].pc \in {"save", "stored"} => req'[q].upload = q
             /\ req'[q].pc \notin Early
                   => req'[q].upload \in Uploads /\ uploads'[req'[q].upload].file \in Files
  <2>1. CASE q = r
    BY <2>1, <1>2
  <2>2. CASE q # r
    BY <2>2, <1>2 DEF Known, RequestsKnow, Early
  <2> QED BY <2>1, <2>2
<1>5. RequestsKnow'
  BY <1>4 DEF RequestsKnow, KnowsItsFile, Early
<1> QED BY <1>3, <1>5

\* The request fails: the rest of its record is gone.
LEMMA FailingKeepsKnown ==
    ASSUME Known, NEW r \in Requests, Fail(r),
           \A u \in Uploads : uploads[u].file \in Files => uploads'[u].file \in Files
    PROVE  req' \in [Requests -> Request] /\ RequestsKnow'
<1> DEFINE me == [Unused EXCEPT !.pc = "failed"]
<1>1. me \in Request /\ KnowsItsFile(me)
  BY UnusedIsTyped
<1>2. me.pc = "failed"
  BY DEF Unused
<1>3. req' = [req EXCEPT ![r] = me]
  BY DEF Fail
<1> HIDE DEF me
<1> QED BY <1>1, <1>2, <1>3, RequestMoves DEF Early

\* It is answered.
LEMMA SucceedingKeepsKnown ==
    ASSUME Known, NEW r \in Requests, NEW duplicate \in BOOLEAN, Succeed(r, duplicate),
           req[r].file \in Files,
           \A u \in Uploads : uploads[u].file \in Files => uploads'[u].file \in Files
    PROVE  req' \in [Requests -> Request] /\ RequestsKnow'
<1> DEFINE me == [Unused EXCEPT !.pc = "done", !.file = req[r].file,
                              !.markAsFound = req[r].markAsFound, !.duplicate = duplicate]
<1>0. req[r].markAsFound \in BOOLEAN
  BY DEF Known, TypeOK, Request
<1>1. me \in Request
  BY <1>0, UnusedIsTyped DEF Unused, Request
<1>2. me.pc = "done" /\ KnowsItsFile(me)
  BY DEF Unused, KnowsItsFile, Transaction
<1>3. req' = [req EXCEPT ![r] = me]
  BY DEF Succeed
<1> HIDE DEF me
<1> QED BY <1>1, <1>2, <1>3, RequestMoves DEF Early

\* Where only `pc` changes, to a step that needs no more than the one before.
LEMMA GoingKeepsKnown ==
    ASSUME Known, NEW r \in Requests,
           NEW pc \in {"stored", "parse", "read", "finds", "parsed"},
           Goto(r, pc), req[r].pc \notin Early \cup Transaction,
           pc = "stored" => req[r].pc = "save",
           \A u \in Uploads : uploads[u].file \in Files => uploads'[u].file \in Files
    PROVE  req' \in [Requests -> Request] /\ RequestsKnow'
<1> DEFINE me == [req[r] EXCEPT !.pc = pc]
<1>1. req[r] \in Request /\ req \in [Requests -> Request]
  BY DEF Known, TypeOK
<1>2. me \in Request
  BY <1>1 DEF Request
<1>3. KnowsItsFile(req[r]) /\ req[r].upload \in Uploads /\ uploads[req[r].upload].file \in Files
  BY DEF Known, RequestsKnow, Early
<1>4. /\ me.pc = pc /\ me.upload = req[r].upload /\ me.file = req[r].file
      /\ me.solved = req[r].solved /\ me.next = req[r].next /\ me.mine = req[r].mine
  BY <1>1 DEF Request
<1>5. KnowsItsFile(me)
  BY <1>3, <1>4 DEF KnowsItsFile, Transaction, Early
<1>6. me.pc \in {"save", "stored"} => me.upload = r
  BY <1>4 DEF Known, RequestsKnow
<1>7. req' = [req EXCEPT ![r] = me]
  BY <1>1 DEF Goto
<1> HIDE DEF me
<1> QED BY <1>2, <1>3, <1>4, <1>5, <1>6, <1>7, RequestMoves

LEMMA InitIsKnown == Init => Known
<1> SUFFICES ASSUME Init PROVE Known
  OBVIOUS
<1>1. PICK before \in {f \in Files : File[f].valid} \cup {None} :
        LET batch == IF before = None THEN {} ELSE Batch(before)
        IN  /\ rows = [c \in Codes |->
                          IF c \in batch THEN Inserted(before, c, File[before].corrected)
                                         ELSE None]
            /\ wpts = [c \in Codes |->
                          IF c \in batch /\ c \in File[before].wpts THEN {before} ELSE {}]
            /\ found = IF before # None /\ File[before].finds THEN batch ELSE {}
            /\ derived = [c \in Codes |-> None]
            /\ uploads = [u \in Uploads |->
                             IF u = before
                             THEN [status |-> "parsed", file |-> u, raw |-> TRUE]
                             ELSE [status |-> "none", file |-> None, raw |-> FALSE]]
            /\ disk = {before} \ {None}
            /\ req = [r \in Requests |-> Unused]
            /\ faults = 0
            /\ raced = {}
  BY DEF Init
<1> DEFINE batch == IF before = None THEN {} ELSE Batch(before)
<1>2. before # None => before \in Files
  BY <1>1
<1>3. batch \in SUBSET Codes
  BY <1>2, BatchIsTyped
<1>4. \A c \in batch : Inserted(before, c, File[before].corrected) \in Cache
  BY <1>2, InsertedIsSound, FilesAreTyped
<1>5. rows \in [Codes -> Cache \cup {None}]
  BY <1>1, <1>4
<1>6. wpts \in [Codes -> SUBSET Uploads] /\ disk \in SUBSET Uploads
  BY <1>1, <1>2 DEF Uploads
<1>7. found \in SUBSET Codes /\ raced \in SUBSET Codes /\ faults \in 0..MaxFaults
  BY <1>1, <1>3, GpxIngestAssumption
<1>8. derived \in [Codes -> Coords \cup {None}]
  BY <1>1
<1>9. uploads \in [Uploads -> Upload]
  <2>1. \A u \in Uploads : u = before => u \in Files
    BY <1>2, GpxIngestAssumption DEF Uploads
  <2>2. ASSUME NEW u \in Uploads PROVE uploads[u] \in Upload
    BY <1>1, <2>1 DEF Upload
  <2>3. uploads = [u \in Uploads |-> uploads[u]]
    BY <1>1
  <2> QED BY <2>2, <2>3
<1>10. req \in [Requests -> Request] /\ RequestsKnow
  BY <1>1, UnusedIsTyped DEF RequestsKnow
<1>11. StoredUploadsKnow
  <2>1. ASSUME NEW u \in Uploads, uploads[u].raw PROVE uploads[u].file \in Files
    <3>1. CASE u = before
      BY <3>1, <1>1, <1>2, GpxIngestAssumption DEF Uploads
    <3>2. CASE u # before
      BY <3>2, <1>1, <2>1
    <3> QED BY <3>1, <3>2
  <2> QED BY <2>1 DEF StoredUploadsKnow
<1> QED BY <1>5, <1>6, <1>7, <1>8, <1>9, <1>10, <1>11 DEF Known, TypeOK

\* Posting a file, or asking for one to be reprocessed.
LEMMA StartingKeepsKnown ==
    ASSUME Known, NEW r \in Requests,
           \/ \E f \in Files : \E opts \in Options[f] : Post(r, f, opts)
           \/ \E u \in Uploads : Reprocess(r, u)
    PROVE  Known'
<1> USE DEF Early
<1>1. UNCHANGED <<rows, wpts, found, derived, uploads, disk, faults, raced>>
  BY DEF Post, Reprocess
<1>2. req' \in [Requests -> Request] /\ RequestsKnow'
  <2>1. CASE \E f \in Files : \E opts \in Options[f] : Post(r, f, opts)
    <3>0. PICK f \in Files : \E opts \in Options[f] : Post(r, f, opts)
      BY <2>1
    <3>1. PICK opts \in Options[f] : Post(r, f, opts)
      BY <3>0
    <3> DEFINE me == [Unused EXCEPT !.pc = "lookup", !.file = f, !.force = opts.force,
                                    !.solved = opts.solvedCoordinates,
                                    !.markAsFound = opts.markAsFound]
    <3>2. me \in Request
      BY UnusedIsTyped, OptionsAreTyped DEF Unused, Request
    <3>3. me.pc = "lookup" /\ KnowsItsFile(me)
      BY OptionsAreTyped DEF Unused, KnowsItsFile, Transaction
    <3>4. req' = [req EXCEPT ![r] = me]
      BY <3>1 DEF Post
    <3> HIDE DEF me
    <3> QED BY <1>1, <3>2, <3>3, <3>4, RequestMoves
  <2>2. CASE \E u \in Uploads : Reprocess(r, u)
    <3>1. PICK u \in Uploads : Reprocess(r, u)
      BY <2>2
    <3>2. CASE uploads[u].raw /\ u \in disk
      <4> DEFINE me == [Unused EXCEPT !.pc = "parse", !.file = uploads[u].file, !.upload = u]
      <4>1. uploads[u].file \in Files
        BY <3>2 DEF Known, StoredUploadsKnow
      <4>2. me \in Request
        BY <4>1, UnusedIsTyped DEF Unused, Request
      <4>3. me.pc = "parse" /\ me.upload = u /\ KnowsItsFile(me)
        BY <4>1 DEF Unused, KnowsItsFile, Transaction
      <4>4. req' = [req EXCEPT ![r] = me]
        BY <3>1, <3>2 DEF Reprocess
      <4> HIDE DEF me
      <4> QED BY <1>1, <4>1, <4>2, <4>3, <4>4, RequestMoves
    <3>3. CASE ~(uploads[u].raw /\ u \in disk)
      <4>1. Fail(r)
        BY <3>1, <3>3 DEF Reprocess, Fail
      <4> QED BY <4>1, <1>1, FailingKeepsKnown
    <3> QED BY <3>2, <3>3
  <2> QED BY <2>1, <2>2
<1> QED BY <1>1, <1>2 DEF Known, TypeOK, StoredUploadsKnow

\* The way to the parsed file.
LEMMA IngestKeepsKnown ==
    ASSUME Known, NEW r \in Requests, Ingest(r)
    PROVE  Known'
<1> USE DEF Early
<1>1. req[r] \in Request /\ req \in [Requests -> Request] /\ uploads \in [Uploads -> Upload]
  BY DEF Known, TypeOK
<1>2. UNCHANGED <<rows, wpts, found, derived, faults, raced>>
  BY DEF Ingest, Lookup, InsertReceivedUpload, Save, MarkRawStored
<1>3. KnowsItsFile(req[r]) /\ req[r].file \in Files
  BY DEF Known, RequestsKnow, KnowsItsFile, Ingest, Lookup, InsertReceivedUpload,
         Save, MarkRawStored, At
<1>4. r \in Uploads
  BY DEF Uploads
<1>5. CASE Lookup(r)
  <2>1. UNCHANGED <<uploads, disk>> /\ req[r].pc = "lookup"
    BY <1>5 DEF Lookup, At
  <2>2. req' \in [Requests -> Request] /\ RequestsKnow'
    <3>1. CASE Succeed(r, TRUE)
      BY <3>1, <2>1, <1>3, SucceedingKeepsKnown
    <3>2. CASE req' = [req EXCEPT ![r].pc = "insert", ![r].force = FALSE]
      <4> DEFINE me == [req[r] EXCEPT !.pc = "insert", !.force = FALSE]
      <4>1. me \in Request
        BY <1>1 DEF Request
      <4>2. me.pc = "insert" /\ KnowsItsFile(me)
        BY <1>1, <1>3, <2>1 DEF Request, KnowsItsFile, Transaction
      <4>3. req' = [req EXCEPT ![r] = me]
        BY <1>1, <3>2
      <4> HIDE DEF me
      <4> QED BY <2>1, <4>1, <4>2, <4>3, RequestMoves
    <3>3. CASE \E u \in ParsedUploadsByHash(req[r].file) :
                  req' = [req EXCEPT ![r].pc = "parse", ![r].force = FALSE, ![r].upload = u]
      <4>1. PICK u \in ParsedUploadsByHash(req[r].file) :
               req' = [req EXCEPT ![r].pc = "parse", ![r].force = FALSE, ![r].upload = u]
        BY <3>3
      <4>2. u \in Uploads /\ uploads[u].file \in Files
        BY <1>3 DEF ParsedUploadsByHash
      <4> DEFINE me == [req[r] EXCEPT !.pc = "parse", !.force = FALSE, !.upload = u]
      <4>3. me \in Request
        BY <1>1, <4>2 DEF Request
      <4>4. me.pc = "parse" /\ me.upload = u /\ KnowsItsFile(me)
        BY <1>1, <1>3, <2>1 DEF Request, KnowsItsFile, Transaction
      <4>5. req' = [req EXCEPT ![r] = me]
        BY <1>1, <4>1
      <4> HIDE DEF me
      <4> QED BY <2>1, <4>2, <4>3, <4>4, <4>5, RequestMoves
    <3> QED BY <1>5, <3>1, <3>2, <3>3 DEF Lookup
  <2> QED BY <1>2, <2>1, <2>2 DEF Known, TypeOK, StoredUploadsKnow
<1>6. CASE InsertReceivedUpload(r)
  <2> DEFINE me == [req[r] EXCEPT !.pc = "save", !.upload = r]
             row == [status |-> "received", file |-> req[r].file, raw |-> FALSE]
  <2>1. row \in Upload /\ uploads' = [uploads EXCEPT ![r] = row] /\ UNCHANGED disk
    BY <1>3, <1>6 DEF InsertReceivedUpload, Upload
  <2>2. uploads' \in [Uploads -> Upload] /\ uploads'[r].file \in Files
    BY <1>1, <1>3, <1>4, <2>1
  <2>3. \A u \in Uploads : uploads[u].file \in Files => uploads'[u].file \in Files
    BY <1>1, <1>3, <1>4, <2>1
  <2>4. StoredUploadsKnow'
    BY <1>1, <1>4, <2>1, <2>2 DEF Known, StoredUploadsKnow
  <2>5. me \in Request
    BY <1>1, <1>4 DEF Request
  <2>6. me.pc = "save" /\ me.upload = r /\ KnowsItsFile(me)
    BY <1>1, <1>3, <1>6 DEF Request, KnowsItsFile, Transaction, InsertReceivedUpload, At
  <2>7. req' = [req EXCEPT ![r] = me]
    BY <1>1, <1>6 DEF InsertReceivedUpload
  <2> HIDE DEF me, row
  <2>8. req' \in [Requests -> Request] /\ RequestsKnow'
    BY <1>4, <2>2, <2>3, <2>5, <2>6, <2>7, RequestMoves
  <2> QED BY <1>2, <2>1, <2>2, <2>4, <2>8 DEF Known, TypeOK
<1>7. CASE Save(r)
  <2>1. /\ UNCHANGED uploads /\ disk' = disk \cup {r}
        /\ Goto(r, "stored") /\ req[r].pc = "save"
    BY <1>7 DEF Save, At
  <2>2. req' \in [Requests -> Request] /\ RequestsKnow'
    BY <2>1, GoingKeepsKnown DEF Transaction
  <2>3. disk' \in SUBSET Uploads
    BY <2>1, <1>4 DEF Known, TypeOK
  <2> QED BY <1>2, <2>1, <2>2, <2>3 DEF Known, TypeOK, StoredUploadsKnow
<1>8. CASE MarkRawStored(r)
  <2>1. /\ UNCHANGED disk /\ uploads' = [uploads EXCEPT ![r].raw = TRUE]
        /\ Goto(r, "parse") /\ req[r].pc = "stored"
    BY <1>8 DEF MarkRawStored, At
  <2>2. uploads[r].file \in Files
    BY <2>1 DEF Known, RequestsKnow
  <2>3. uploads' \in [Uploads -> Upload]
    BY <1>1, <2>1 DEF Upload
  <2>4. \A u \in Uploads : uploads'[u].file = uploads[u].file
    BY <1>1, <2>1 DEF Upload
  <2>5. \A u \in Uploads \ {r} : uploads'[u] = uploads[u]
    BY <1>1, <2>1
  <2>6. StoredUploadsKnow'
    BY <2>2, <2>4, <2>5 DEF Known, StoredUploadsKnow
  <2>7. req' \in [Requests -> Request] /\ RequestsKnow'
    BY <2>1, <2>4, GoingKeepsKnown DEF Transaction
  <2> QED BY <1>2, <2>1, <2>3, <2>6, <2>7 DEF Known, TypeOK
<1> QED BY <1>5, <1>6, <1>7, <1>8 DEF Ingest

\* Parsing, and what comes after the transaction.
LEMMA FinishKeepsKnown ==
    ASSUME Known, NEW r \in Requests, ParseGpx(r) \/ Finish(r)
    PROVE  Known'
<1> USE DEF Early
<1>1. req[r] \in Request /\ req \in [Requests -> Request] /\ uploads \in [Uploads -> Upload]
  BY DEF Known, TypeOK
<1>2. UNCHANGED <<rows, wpts, derived, disk, faults, raced>>
  BY DEF ParseGpx, Finish, RecordFinds, MarkParsed
<1>3. req[r].pc \in {"parse", "finds", "parsed"}
  BY DEF ParseGpx, Finish, RecordFinds, MarkParsed, At
<1>4. req[r].file \in Files /\ req[r].upload \in Uploads
  BY <1>3 DEF Known, RequestsKnow, KnowsItsFile
<1>5. CASE ParseGpx(r)
  <2>1. UNCHANGED found
    BY <1>5 DEF ParseGpx
  <2>2. CASE UNCHANGED uploads /\ \E pc \in {"finds", "read"} : Goto(r, pc)
    <3>1. req' \in [Requests -> Request] /\ RequestsKnow'
      BY <1>3, <2>2, GoingKeepsKnown DEF Transaction
    <3> QED BY <1>2, <2>1, <2>2, <3>1 DEF Known, TypeOK, StoredUploadsKnow
  <2>3. CASE /\ uploads' = [uploads EXCEPT ![req[r].upload].status = "failed"]
             /\ Fail(r)
    <3>1. uploads' \in [Uploads -> Upload]
      BY <1>1, <2>3 DEF Upload
    <3>2. \A u \in Uploads : uploads'[u].file = uploads[u].file /\ uploads'[u].raw = uploads[u].raw
      BY <1>1, <2>3 DEF Upload
    <3>3. req' \in [Requests -> Request] /\ RequestsKnow'
      BY <2>3, <3>2, FailingKeepsKnown
    <3> QED BY <1>2, <2>1, <3>1, <3>2, <3>3 DEF Known, TypeOK, StoredUploadsKnow
  <2> QED BY <1>5, <2>2, <2>3 DEF ParseGpx
<1>6. CASE RecordFinds(r)
  <2>1. UNCHANGED uploads /\ Goto(r, "parsed")
    BY <1>6 DEF RecordFinds
  <2>2. found' \in SUBSET Codes
    BY <1>4, <1>6, BatchIsTyped DEF RecordFinds, Known, TypeOK
  <2>3. req[r].pc = "finds"
    BY <1>6 DEF RecordFinds, At
  <2>4. req' \in [Requests -> Request] /\ RequestsKnow'
    BY <2>1, <2>3, GoingKeepsKnown DEF Transaction
  <2> QED BY <1>2, <2>1, <2>2, <2>4 DEF Known, TypeOK, StoredUploadsKnow
<1>7. CASE MarkParsed(r)
  <2>1. /\ UNCHANGED found /\ Succeed(r, FALSE)
        /\ uploads' = [uploads EXCEPT ![req[r].upload].status = "parsed"]
    BY <1>7 DEF MarkParsed
  <2>2. uploads' \in [Uploads -> Upload]
    BY <1>1, <2>1 DEF Upload
  <2>3. \A u \in Uploads : uploads'[u].file = uploads[u].file /\ uploads'[u].raw = uploads[u].raw
    BY <1>1, <2>1 DEF Upload
  <2>4. req' \in [Requests -> Request] /\ RequestsKnow'
    BY <1>4, <2>1, <2>3, SucceedingKeepsKnown
  <2> QED BY <1>2, <2>1, <2>2, <2>3, <2>4 DEF Known, TypeOK, StoredUploadsKnow
<1> QED BY <1>5, <1>6, <1>7 DEF Finish

\* What the upsert writes is a row.
LEMMA UpsertedIsTyped ==
    ASSUME Known, NEW r \in Requests, At(r, "upsert")
    PROVE  /\ Current(r) \in Codes /\ Current(r) \in Batch(req[r].file)
           /\ req[r].file \in Files
           /\ Upserted(r, Current(r)) \in Cache
<1> DEFINE c == Current(r)
           f == req[r].file
<1>1. f \in Files /\ req[r].next \in 1..Len(File[f].caches) /\ (req[r].solved => File[f].corrected)
  BY DEF Known, RequestsKnow, KnowsItsFile, At
<1>2. c \in Batch(f)
  BY <1>1, BatchIsTyped DEF Current
<1>3. c \in Codes
  BY <1>1, <1>2, BatchIsTyped
<1>4. File[f].at[c] \in Coords /\ File[f].exported \in Times
  BY <1>1, <1>3, FilesAreTyped
<1>5. req[r] \in Request /\ rows[c] \in Cache \cup {None}
  BY <1>3 DEF Known, TypeOK
<1>6. req[r].solved \in BOOLEAN
  BY <1>5 DEF Request
<1>7. Inserted(f, c, req[r].solved) \in Cache
  BY <1>1, <1>2, <1>6, InsertedIsSound
<1>8. rows[c] # None => Upserted(r, c) \in Cache
  <2> SUFFICES ASSUME rows[c] # None PROVE Upserted(r, c) \in Cache
    OBVIOUS
  <2>1. rows[c] \in Cache
    BY <1>5
  <2>2. CASE req[r].solved
    BY <1>4, <2>1, <2>2 DEF Upserted, Cache
  <2>3. CASE ~req[r].solved
    <3>1. Upserted(r, c) = [rows[c] EXCEPT
              !.loc = IF WritesLocation(r, c) THEN File[f].at[c] ELSE rows[c].loc,
              !.published = File[f].at[c],
              !.exported = File[f].exported]
      BY <2>1, <2>3 DEF Upserted, Cache
    <3>2. (IF WritesLocation(r, c) THEN File[f].at[c] ELSE rows[c].loc) \in Coords
      BY <1>4, <2>1 DEF Cache
    <3> QED BY <1>4, <2>1, <3>1, <3>2 DEF Cache
  <2> QED BY <2>2, <2>3
<1>9. rows[c] = None => Upserted(r, c) \in Cache
  BY <1>7 DEF Upserted
<1> QED BY <1>1, <1>2, <1>3, <1>8, <1>9

\* What Matched and Wiped select are caches, and what is inserted was wiped.
LEMMA WipedIsTyped ==
    ASSUME NEW r \in Requests, req[r].file \in Files
    PROVE  Matched(r) \in SUBSET Codes /\ Wiped(r) \in SUBSET Codes /\ Matched(r) \subseteq Wiped(r)
BY FilesAreTyped, BatchIsTyped DEF Matched, Wiped

\* The loop goes on to the next cache, or ends.
LEMMA LoopAdvances ==
    ASSUME Known, NEW r \in Requests, At(r, "upsert")
    PROVE  /\ req[r].next + 1 \in Nat
           /\ ~IsLast(r) => req[r].next + 1 \in 1..Len(File[req[r].file].caches)
<1>1. req[r].file \in Files /\ req[r].next \in 1..Len(File[req[r].file].caches)
  BY DEF Known, RequestsKnow, KnowsItsFile, At
<1>2. Len(File[req[r].file].caches) \in Nat
  BY <1>1, FilesAreTyped
<1> QED BY <1>1, <1>2 DEF IsLast

\* The transaction.
LEMMA UpsertKeepsKnown ==
    ASSUME Known, NEW r \in Requests, Upsert(r)
    PROVE  Known'
<1> USE DEF Early
<1>1. req[r] \in Request /\ req \in [Requests -> Request]
  BY DEF Known, TypeOK
<1>2. UNCHANGED <<found, uploads, disk, faults>>
  BY DEF Upsert, ReadExisting, SkipStale, UpsertOne, ReplaceWaypoints, Commit
<1>3. req[r].pc \in {"read"} \cup Transaction
  BY DEF Upsert, ReadExisting, SkipStale, UpsertOne, ReplaceWaypoints, Commit, At, Transaction
<1>4. /\ KnowsItsFile(req[r]) /\ req[r].file \in Files /\ req[r].upload \in Uploads
      /\ uploads[req[r].upload].file \in Files
  BY <1>3 DEF Known, RequestsKnow, KnowsItsFile, Transaction
<1>5. NoRows \in [Codes -> Cache \cup {None}]
  BY DEF NoRows
<1>6. CASE ReadExisting(r)
  <2>1. UNCHANGED <<rows, wpts, derived, raced>> /\ req[r].pc = "read"
    BY <1>6 DEF ReadExisting, At
  <2> DEFINE existing == [c \in Codes |-> IF c \in Batch(req[r].file) THEN rows[c] ELSE None]
             pc == IF Batch(req[r].file) = {} THEN "waypoints" ELSE "upsert"
             me == [req[r] EXCEPT !.existing = existing, !.pc = pc]
  <2>2. existing \in [Codes -> Cache \cup {None}]
    BY DEF Known, TypeOK
  <2>3. pc \in {"waypoints", "upsert"}
    OBVIOUS
  <2>4. pc = "upsert" => 1 \in 1..Len(File[req[r].file].caches)
    BY <1>4, BatchIsTyped
  <2>5. req' = [req EXCEPT ![r] = me]
    BY <1>1, <1>6 DEF ReadExisting
  <2> HIDE DEF existing, pc
  <2>6. me \in Request
    BY <1>1, <2>2, <2>3 DEF Request
  <2>7. /\ me.pc = pc /\ me.upload = req[r].upload /\ me.file = req[r].file
        /\ me.solved = req[r].solved /\ me.next = req[r].next
    BY <1>1 DEF Request
  <2>8. req[r].next = 1
    BY <1>4, <2>1 DEF KnowsItsFile, Transaction
  <2>9. KnowsItsFile(me)
    BY <1>4, <2>3, <2>4, <2>7, <2>8 DEF KnowsItsFile, Transaction
  <2> HIDE DEF me
  <2>10. req' \in [Requests -> Request] /\ RequestsKnow'
    BY <1>2, <1>4, <2>3, <2>5, <2>6, <2>7, <2>9, RequestMoves
  <2> QED BY <1>2, <2>1, <2>10 DEF Known, TypeOK, StoredUploadsKnow
<1>7. CASE SkipStale(r)
  <2>1. UNCHANGED <<rows, wpts, derived, raced>> /\ At(r, "upsert")
    BY <1>7 DEF SkipStale
  <2> DEFINE pc == IF IsLast(r) THEN "waypoints" ELSE "upsert"
             me == [req[r] EXCEPT !.next = req[r].next + 1, !.pc = pc]
  <2>2. pc \in {"waypoints", "upsert"} /\ (pc = "upsert" => ~IsLast(r))
    OBVIOUS
  <2>3. req' = [req EXCEPT ![r] = me]
    BY <1>1, <1>7 DEF SkipStale
  <2> HIDE DEF pc
  <2>4. me \in Request
    BY <1>1, <2>1, <2>2, LoopAdvances DEF Request
  <2>5. /\ me.pc = pc /\ me.upload = req[r].upload /\ me.file = req[r].file
        /\ me.solved = req[r].solved /\ me.next = req[r].next + 1
    BY <1>1 DEF Request
  <2>6. KnowsItsFile(me)
    BY <1>4, <2>1, <2>2, <2>5, LoopAdvances DEF KnowsItsFile, Transaction
  <2> HIDE DEF me
  <2>7. req' \in [Requests -> Request] /\ RequestsKnow'
    BY <1>2, <1>4, <2>2, <2>3, <2>4, <2>5, <2>6, RequestMoves
  <2> QED BY <1>2, <2>1, <2>7 DEF Known, TypeOK, StoredUploadsKnow
<1>8. CASE UpsertOne(r)
  <2>1. UNCHANGED <<rows, wpts, derived>> /\ At(r, "upsert")
    BY <1>8 DEF UpsertOne
  <2> DEFINE c == Current(r)
             pc == IF IsLast(r) THEN "waypoints" ELSE "upsert"
             mine == [req[r].mine EXCEPT ![c] = Upserted(r, c)]
             relocated == IF Relocates(r, c) THEN req[r].relocated \cup {c} ELSE req[r].relocated
             me == [req[r] EXCEPT !.mine = mine, !.relocated = relocated,
                                  !.next = req[r].next + 1, !.pc = pc]
  <2>2. pc \in {"waypoints", "upsert"} /\ (pc = "upsert" => ~IsLast(r))
    OBVIOUS
  <2>3. mine \in [Codes -> Cache \cup {None}] /\ relocated \in SUBSET Codes /\ c \in Codes
    BY <1>1, <2>1, UpsertedIsTyped DEF Request
  <2>4. req' = [req EXCEPT ![r] = me]
    BY <1>1, <1>8 DEF UpsertOne
  <2>5. raced' \in SUBSET Codes
    BY <1>8, <2>3 DEF UpsertOne, Known, TypeOK
  <2> HIDE DEF pc, mine, relocated
  <2>6. me \in Request
    BY <1>1, <2>1, <2>2, <2>3, LoopAdvances DEF Request
  <2>7. /\ me.pc = pc /\ me.upload = req[r].upload /\ me.file = req[r].file
        /\ me.solved = req[r].solved /\ me.next = req[r].next + 1
    BY <1>1 DEF Request
  <2>8. KnowsItsFile(me)
    BY <1>4, <2>1, <2>2, <2>7, LoopAdvances DEF KnowsItsFile, Transaction
  <2> HIDE DEF me
  <2>9. req' \in [Requests -> Request] /\ RequestsKnow'
    BY <1>2, <1>4, <2>2, <2>4, <2>6, <2>7, <2>8, RequestMoves
  <2> QED BY <1>2, <2>1, <2>5, <2>9 DEF Known, TypeOK, StoredUploadsKnow
<1>9. CASE ReplaceWaypoints(r)
  <2>1. UNCHANGED <<rows, wpts, derived, raced>> /\ At(r, "waypoints")
    BY <1>9 DEF ReplaceWaypoints
  <2> DEFINE seen == [c \in Codes |-> IF c \in Matched(r) \cup Wiped(r) THEN wpts[c] ELSE {}]
             me == [req[r] EXCEPT !.matched = Matched(r), !.wiped = Wiped(r),
                                  !.seen = seen, !.pc = "commit"]
  <2>2. seen \in [Codes -> SUBSET Uploads]
    BY DEF Known, TypeOK
  <2>3. req' = [req EXCEPT ![r] = me]
    BY <1>1, <1>9 DEF ReplaceWaypoints
  <2> HIDE DEF seen
  <2>4. me \in Request
    BY <1>1, <1>4, <2>2, WipedIsTyped DEF Request
  <2>5. /\ me.pc = "commit" /\ me.upload = req[r].upload /\ me.file = req[r].file
        /\ me.solved = req[r].solved /\ me.matched = Matched(r) /\ me.wiped = Wiped(r)
    BY <1>1 DEF Request
  <2>6. KnowsItsFile(me)
    BY <1>4, <2>5, WipedIsTyped DEF KnowsItsFile, Transaction
  <2> HIDE DEF me
  <2>7. req' \in [Requests -> Request] /\ RequestsKnow'
    BY <1>2, <1>4, <2>3, <2>4, <2>5, <2>6, RequestMoves
  <2> QED BY <1>2, <2>1, <2>7 DEF Known, TypeOK, StoredUploadsKnow
<1>10. CASE Commit(r)
  <2> DEFINE me == [Unused EXCEPT !.pc = "finds", !.file = req[r].file,
                                !.markAsFound = req[r].markAsFound, !.upload = req[r].upload]
  <2>1. me \in Request
    BY <1>1, <1>4, UnusedIsTyped DEF Unused, Request
  <2>2. me.pc = "finds" /\ me.upload = req[r].upload /\ KnowsItsFile(me)
    BY <1>4 DEF Unused, KnowsItsFile, Transaction
  <2>3. req' = [req EXCEPT ![r] = me]
    BY <1>10 DEF Commit
  <2>4. rows' \in [Codes -> Cache \cup {None}]
    BY <1>1, <1>10 DEF Commit, Known, TypeOK, Request
  <2>5. wpts' \in [Codes -> SUBSET Uploads]
    <3>1. r \in Uploads
      BY DEF Uploads
    <3>2. \A c \in Codes : wpts[c] \in SUBSET Uploads
      BY DEF Known, TypeOK
    <3> QED BY <1>10, <3>1, <3>2 DEF Commit
  <2>6. derived' \in [Codes -> Coords \cup {None}]
    BY <1>10 DEF Commit, Known, TypeOK
  <2>7. raced' \in SUBSET Codes
    BY <1>1, <1>10 DEF Commit, Known, TypeOK, Request
  <2> HIDE DEF me
  <2>8. req' \in [Requests -> Request] /\ RequestsKnow'
    BY <1>2, <1>4, <2>1, <2>2, <2>3, RequestMoves
  <2> QED BY <1>2, <2>4, <2>5, <2>6, <2>7, <2>8 DEF Known, TypeOK, StoredUploadsKnow
<1> QED BY <1>6, <1>7, <1>8, <1>9, <1>10 DEF Upsert

LEMMA RevertedIsTyped ==
    ASSUME NEW row \in Cache
    PROVE  Reverted(row) \in Cache
<1>1. (IF row.published = None THEN row.loc ELSE row.published) \in Coords
  BY DEF Cache
<1> QED BY <1>1 DEF Reverted, Cache

\* Every step keeps the types.
LEMMA StepKeepsKnown ==
    ASSUME Known, [Next]_vars
    PROVE  Known'
<1>1. ASSUME NEW r \in Requests, NEW f \in Files, NEW opts \in Options[f], Post(r, f, opts)
      PROVE  Known'
  BY <1>1, StartingKeepsKnown
<1>2. ASSUME NEW r \in Requests, NEW u \in Uploads, Reprocess(r, u) PROVE Known'
  BY <1>2, StartingKeepsKnown
<1>3. ASSUME NEW r \in Requests, Serve(r) PROVE Known'
  <2>1. CASE DeadlockDetected(r)
    <3>1. Fail(r) /\ UNCHANGED <<rows, wpts, found, derived, uploads, disk, faults, raced>>
      BY <2>1 DEF DeadlockDetected
    <3> QED BY <3>1, FailingKeepsKnown DEF Known, TypeOK, StoredUploadsKnow
  <2> QED BY <1>3, <2>1, IngestKeepsKnown, FinishKeepsKnown, UpsertKeepsKnown DEF Serve
<1>4. ASSUME NEW r \in Requests, StepFails(r) PROVE Known'
  <2>1. Fail(r) /\ UNCHANGED <<rows, wpts, found, derived, uploads, disk, raced>>
    BY <1>4 DEF StepFails
  <2>2. faults' \in 0..MaxFaults
    BY <1>4, GpxIngestAssumption DEF StepFails, Inject, Known, TypeOK
  <2> QED BY <2>1, <2>2, FailingKeepsKnown DEF Known, TypeOK, StoredUploadsKnow
<1>5. CASE Crash
  <2>1. UNCHANGED <<rows, wpts, found, derived, uploads, disk, raced>>
    BY <1>5 DEF Crash
  <2>2. faults' \in 0..MaxFaults
    BY <1>5, GpxIngestAssumption DEF Crash, Inject, Known, TypeOK
  <2> DEFINE gone == [Unused EXCEPT !.pc = "failed"]
  <2>3. gone \in Request /\ KnowsItsFile(gone) /\ gone.pc = "failed"
    BY UnusedIsTyped DEF Unused
  <2>4. req' = [r \in Requests |-> IF Running(r) THEN gone ELSE req[r]]
    BY <1>5 DEF Crash
  <2> HIDE DEF gone
  <2>5. req' \in [Requests -> Request]
    BY <2>3, <2>4 DEF Known, TypeOK
  <2>6. RequestsKnow'
    BY <2>1, <2>3, <2>4 DEF Known, RequestsKnow, KnowsItsFile
  <2> QED BY <2>1, <2>2, <2>5, <2>6 DEF Known, TypeOK, StoredUploadsKnow
<1>6. ASSUME NEW c \in Codes, ClearSolved(c) PROVE Known'
  <2>1. rows[c] \in Cache
    BY <1>6 DEF ClearSolved, Known, TypeOK
  <2>2. rows' \in [Codes -> Cache \cup {None}]
    BY <1>6, <2>1, RevertedIsTyped DEF ClearSolved, Known, TypeOK
  <2>3. derived' \in [Codes -> Coords \cup {None}]
    BY <1>6 DEF ClearSolved, Known, TypeOK
  <2>4. UNCHANGED <<wpts, found, uploads, disk, req, faults, raced>>
    BY <1>6 DEF ClearSolved
  <2> QED BY <2>2, <2>3, <2>4 DEF Known, TypeOK, StoredUploadsKnow, RequestsKnow
<1>7. ASSUME NEW c \in Codes, Warm(c) PROVE Known'
  <2>1. rows[c].loc \in Coords
    BY <1>7 DEF Warm, Known, TypeOK, Cache
  <2>2. derived' \in [Codes -> Coords \cup {None}]
    BY <1>7, <2>1 DEF Warm, Known, TypeOK
  <2>3. UNCHANGED <<rows, wpts, found, uploads, disk, req, faults, raced>>
    BY <1>7 DEF Warm
  <2> QED BY <2>2, <2>3 DEF Known, TypeOK, StoredUploadsKnow, RequestsKnow
<1>8. CASE UNCHANGED vars
  BY <1>8 DEF vars, Known, TypeOK, StoredUploadsKnow, RequestsKnow
<1> QED BY <1>1, <1>2, <1>3, <1>4, <1>5, <1>6, <1>7, <1>8 DEF Next

\* Every variable keeps its type: a row keeps a coordinate whatever is done
\* to it, and an upload a status and a file.
THEOREM IngestIsTyped == Spec => []TypeOK
<1>1. Known /\ [Next]_vars => Known'
  BY StepKeepsKnown
<1>2. Known => TypeOK
  BY DEF Known
<1> QED BY <1>1, <1>2, InitIsKnown, PTL DEF Spec

----------------------------------------------------------------------------
(***************************************************************************)
(* The steps that touch no row.                                            *)
(***************************************************************************)

\* The transaction of r is where it was, or over.
KeepsOrDrops(r) ==
    \/ /\ req'[r].mine = req[r].mine
       /\ req'[r].existing = req[r].existing
       /\ req'[r].relocated = req[r].relocated
    \/ req'[r].mine = NoRows

Quiet ==
    /\ UNCHANGED <<rows, derived, raced>>
    /\ \A r \in Requests : KeepsOrDrops(r)

LEMMA OneMoves ==
    ASSUME req \in [Requests -> Request], NEW r \in Requests, NEW me,
           req' = [req EXCEPT ![r] = me],
           \/ me.mine = NoRows
           \/ /\ me.mine = req[r].mine
              /\ me.existing = req[r].existing
              /\ me.relocated = req[r].relocated
    PROVE  \A q \in Requests : KeepsOrDrops(q)
<1>1. ASSUME NEW q \in Requests PROVE KeepsOrDrops(q)
  <2>1. CASE q = r
    BY <2>1 DEF KeepsOrDrops
  <2>2. CASE q # r
    <3>1. req'[q] = req[q]
      BY <2>2
    <3> QED BY <3>1 DEF KeepsOrDrops
  <2> QED BY <2>1, <2>2
<1> QED BY <1>1

LEMMA GoingIsQuiet ==
    ASSUME req \in [Requests -> Request], NEW r \in Requests, NEW pc, Goto(r, pc)
    PROVE  \A q \in Requests : KeepsOrDrops(q)
<1> DEFINE me == [req[r] EXCEPT !.pc = pc]
<1>1. req' = [req EXCEPT ![r] = me]
  BY DEF Goto
<1>2. me.mine = req[r].mine /\ me.existing = req[r].existing /\ me.relocated = req[r].relocated
  BY DEF Request
<1> HIDE DEF me
<1> QED BY <1>1, <1>2, OneMoves

LEMMA EndingIsQuiet ==
    ASSUME req \in [Requests -> Request], NEW r \in Requests, NEW duplicate,
           Fail(r) \/ Succeed(r, duplicate)
    PROVE  \A q \in Requests : KeepsOrDrops(q)
<1> DEFINE lost == [Unused EXCEPT !.pc = "failed"]
           won == [Unused EXCEPT !.pc = "done", !.file = req[r].file,
                                 !.markAsFound = req[r].markAsFound, !.duplicate = duplicate]
<1>1. req' = [req EXCEPT ![r] = lost] \/ req' = [req EXCEPT ![r] = won]
  BY DEF Fail, Succeed
<1>2. lost.mine = NoRows /\ won.mine = NoRows
  BY DEF Unused
<1> HIDE DEF lost, won
<1> QED BY <1>1, <1>2, OneMoves

LEMMA LookupIsQuiet ==
    ASSUME req \in [Requests -> Request], NEW r \in Requests, Lookup(r)
    PROVE  \A q \in Requests : KeepsOrDrops(q)
<1>1. CASE Succeed(r, TRUE)
  BY <1>1, EndingIsQuiet
<1>2. CASE req' = [req EXCEPT ![r].pc = "insert", ![r].force = FALSE]
  <2> DEFINE me == [req[r] EXCEPT !.pc = "insert", !.force = FALSE]
  <2>1. req' = [req EXCEPT ![r] = me]
    BY <1>2
  <2>2. me.mine = req[r].mine /\ me.existing = req[r].existing /\ me.relocated = req[r].relocated
    BY DEF Request
  <2> HIDE DEF me
  <2> QED BY <2>1, <2>2, OneMoves
<1>3. ASSUME NEW u,
             req' = [req EXCEPT ![r].pc = "parse", ![r].force = FALSE, ![r].upload = u]
      PROVE  \A q \in Requests : KeepsOrDrops(q)
  <2> DEFINE me == [req[r] EXCEPT !.pc = "parse", !.force = FALSE, !.upload = u]
  <2>1. req' = [req EXCEPT ![r] = me]
    BY <1>3
  <2>2. me.mine = req[r].mine /\ me.existing = req[r].existing /\ me.relocated = req[r].relocated
    BY DEF Request
  <2> HIDE DEF me
  <2> QED BY <2>1, <2>2, OneMoves
<1> QED BY <1>1, <1>2, <1>3 DEF Lookup

LEMMA WaypointsAreQuiet ==
    ASSUME req \in [Requests -> Request], NEW r \in Requests, ReplaceWaypoints(r)
    PROVE  \A q \in Requests : KeepsOrDrops(q)
<1> DEFINE matched == Matched(r)
           wiped == Wiped(r)
           seen == [c \in Codes |-> IF c \in matched \cup wiped THEN wpts[c] ELSE {}]
<1>1. req' = [req EXCEPT ![r].matched = matched, ![r].wiped = wiped,
                         ![r].seen = seen, ![r].pc = "commit"]
  BY DEF ReplaceWaypoints
<1> HIDE DEF matched, wiped, seen
<1> DEFINE me == [req[r] EXCEPT !.matched = matched, !.wiped = wiped,
                                !.seen = seen, !.pc = "commit"]
<1>2. req' = [req EXCEPT ![r] = me]
  BY <1>1
<1>3. me.mine = req[r].mine /\ me.existing = req[r].existing /\ me.relocated = req[r].relocated
  BY DEF Request
<1> HIDE DEF me
<1> QED BY <1>2, <1>3, OneMoves

LEMMA QuietSteps ==
    ASSUME Known, [Next]_vars,
           ~ \E r \in Requests : UpsertOne(r) \/ Commit(r),
           ~ \E c \in Codes : ClearSolved(c) \/ Warm(c)
    PROVE  Quiet
<1>1. req \in [Requests -> Request]
  BY DEF Known, TypeOK
<1>2. Unused.mine = NoRows
  BY DEF Unused
<1>3. ASSUME NEW r \in Requests, NEW f \in Files, NEW opts \in Options[f], Post(r, f, opts)
      PROVE  Quiet
  BY <1>1, <1>2, <1>3 DEF Post, Unused, Quiet, KeepsOrDrops
<1>4. ASSUME NEW r \in Requests, NEW u \in Uploads, Reprocess(r, u) PROVE Quiet
  BY <1>1, <1>2, <1>4 DEF Reprocess, Unused, Quiet, KeepsOrDrops
<1>6. ASSUME NEW r \in Requests, Serve(r) PROVE Quiet
  <2>1. CASE Ingest(r)
    <3>1. UNCHANGED <<rows, derived, raced>>
      BY <2>1 DEF Ingest, Lookup, InsertReceivedUpload, Save, MarkRawStored
    <3>2. CASE Lookup(r)
      BY <1>1, <3>1, <3>2, LookupIsQuiet DEF Quiet
    <3>3. CASE InsertReceivedUpload(r)
      BY <1>1, <3>1, <3>3 DEF InsertReceivedUpload, Request, Quiet, KeepsOrDrops
    <3>4. CASE Save(r) \/ MarkRawStored(r)
      <4>1. Goto(r, "stored") \/ Goto(r, "parse")
        BY <3>4 DEF Save, MarkRawStored
      <4> QED BY <1>1, <3>1, <4>1, GoingIsQuiet DEF Quiet
    <3> QED BY <2>1, <3>2, <3>3, <3>4 DEF Ingest
  <2>2. CASE ParseGpx(r)
    <3>1. /\ UNCHANGED <<rows, derived, raced>>
          /\ Fail(r) \/ Goto(r, "finds") \/ Goto(r, "read")
      BY <2>2 DEF ParseGpx
    <3> QED BY <1>1, <3>1, GoingIsQuiet, EndingIsQuiet DEF Quiet
  <2>3. CASE Finish(r)
    <3>1. UNCHANGED <<rows, derived, raced>> /\ (Succeed(r, FALSE) \/ Goto(r, "parsed"))
      BY <2>3 DEF Finish, RecordFinds, MarkParsed
    <3> QED BY <1>1, <3>1, GoingIsQuiet, EndingIsQuiet DEF Quiet
  <2>4. CASE ReadExisting(r)
    <3>1. req[r].mine = NoRows
      BY <2>4 DEF ReadExisting, At, Known, RequestsKnow, KnowsItsFile, Transaction
    <3>2. req'[r].mine = req[r].mine /\ \A q \in Requests \ {r} : req'[q] = req[q]
      BY <1>1, <2>4 DEF ReadExisting, Request
    <3>3. UNCHANGED <<rows, derived, raced>>
      BY <2>4 DEF ReadExisting
    <3> QED BY <3>1, <3>2, <3>3 DEF Quiet, KeepsOrDrops
  <2>5. CASE SkipStale(r)
    BY <1>1, <2>5 DEF SkipStale, Request, Quiet, KeepsOrDrops
  <2>6. CASE ReplaceWaypoints(r)
    BY <1>1, <2>6, WaypointsAreQuiet DEF ReplaceWaypoints, Quiet
  <2>7. CASE DeadlockDetected(r)
    BY <1>1, <2>7, EndingIsQuiet DEF DeadlockDetected, Quiet
  <2> QED BY <1>6, <2>1, <2>2, <2>3, <2>4, <2>5, <2>6, <2>7 DEF Serve, Upsert
<1>7. ASSUME NEW r \in Requests, StepFails(r) PROVE Quiet
  BY <1>1, <1>7, EndingIsQuiet DEF StepFails, Quiet
<1>8. CASE Crash
  <2>1. ASSUME NEW r \in Requests PROVE KeepsOrDrops(r)
    BY <1>2, <1>8 DEF Crash, Unused, KeepsOrDrops
  <2> QED BY <1>8, <2>1 DEF Crash, Quiet
<1>9. CASE UNCHANGED vars
  BY <1>9 DEF vars, Quiet, KeepsOrDrops
<1> QED BY <1>3, <1>4, <1>6, <1>7, <1>8, <1>9 DEF Next

----------------------------------------------------------------------------
(***************************************************************************)
(* The rows: committed, locked, and what is derived from them.             *)
(***************************************************************************)

RowInv ==
    /\ RowsAreSound
    /\ LocksAreExclusive
    /\ LockedRowsAreCurrent
    /\ OnlyRowsAreDerivedFrom
    /\ DerivedFollowsLocation

LEMMA InitHasRowInv == Init => RowInv
<1> SUFFICES ASSUME Init PROVE RowInv
  OBVIOUS
<1>1. \A r \in Requests : req[r].mine = NoRows /\ Locked(r) = {}
  BY DEF Init, Unused, Locked, NoRows
<1>2. \A c \in Codes : derived[c] = None
  BY DEF Init
<1>3. ASSUME NEW c \in Codes PROVE IsSound(c, rows[c])
  <2> PICK before \in {f \in Files : File[f].valid} \cup {None} :
          rows = [d \in Codes |->
                     IF d \in (IF before = None THEN {} ELSE Batch(before))
                     THEN Inserted(before, d, File[before].corrected) ELSE None]
    BY DEF Init
  <2>1. CASE before # None /\ c \in Batch(before)
    <3>1. before \in Files /\ File[before].corrected \in BOOLEAN
      BY <2>1, FilesAreTyped
    <3>2. rows[c] = Inserted(before, c, File[before].corrected)
      BY <2>1
    <3>3. rows[c] # None => IsSound(c, rows[c])
      BY <2>1, <3>1, <3>2, InsertedIsSound
    <3> QED BY <3>3 DEF IsSound
  <2>2. CASE ~(before # None /\ c \in Batch(before))
    <3>1. rows[c] = None
      BY <2>2
    <3> QED BY <3>1 DEF IsSound
  <2> QED BY <2>1, <2>2
<1>4. RowsAreSound
  BY <1>1, <1>3 DEF RowsAreSound, IsSound, NoRows
<1> QED BY <1>1, <1>2, <1>4
        DEF RowInv, LocksAreExclusive, LockedRowsAreCurrent, OnlyRowsAreDerivedFrom,
            DerivedFollowsLocation

LEMMA QuietKeepsRows ==
    ASSUME Known, RowInv, Quiet
    PROVE  RowInv'
<1>1. UNCHANGED <<rows, derived, raced>> /\ \A r \in Requests : KeepsOrDrops(r)
  BY DEF Quiet
<1>2. \A r \in Requests, c \in Codes :
          req'[r].mine[c] = None \/ (/\ req'[r].mine = req[r].mine
                                     /\ req'[r].existing = req[r].existing
                                     /\ req'[r].relocated = req[r].relocated)
  BY <1>1 DEF KeepsOrDrops, NoRows
<1>3. \A r \in Requests : Locked(r)' \subseteq Locked(r)
  BY <1>2 DEF Locked
<1>4. RowsAreSound'
  BY <1>1, <1>2 DEF RowInv, RowsAreSound, IsSound
<1>5. LocksAreExclusive'
  BY <1>3 DEF RowInv, LocksAreExclusive
<1>6. LockedRowsAreCurrent'
  <2> SUFFICES ASSUME NEW r \in Requests, NEW c \in Locked(r)' \ raced'
               PROVE  /\ rows'[c] = req'[r].existing[c]
                      /\ IsUpdateOf(req'[r].existing[c], req'[r].mine[c],
                                    c \in req'[r].relocated)
    BY DEF LockedRowsAreCurrent
  <2>1. c \in Codes /\ c \in Locked(r) \ raced /\ req'[r].mine[c] # None
    BY <1>1, <1>3 DEF Locked
  <2>2. /\ req'[r].mine = req[r].mine /\ req'[r].existing = req[r].existing
        /\ req'[r].relocated = req[r].relocated
    BY <1>2, <2>1
  <2>3. /\ rows[c] = req[r].existing[c]
        /\ IsUpdateOf(req[r].existing[c], req[r].mine[c], c \in req[r].relocated)
    BY <2>1 DEF RowInv, LockedRowsAreCurrent
  <2> QED BY <1>1, <2>2, <2>3
<1>7. OnlyRowsAreDerivedFrom' /\ DerivedFollowsLocation'
  BY <1>1 DEF RowInv, OnlyRowsAreDerivedFrom, DerivedFollowsLocation
<1> QED BY <1>4, <1>5, <1>6, <1>7 DEF RowInv

\* What an upsert makes of a row that is still the one it read.
LEMMA UpsertedIsSound ==
    ASSUME Known, RowInv, NEW r \in Requests, At(r, "upsert"), ~IsStale(r, Current(r)),
           Current(r) \notin raced, rows[Current(r)] = req[r].existing[Current(r)]
    PROVE  /\ IsSound(Current(r), Upserted(r, Current(r)))
           /\ IsUpdateOf(rows[Current(r)], Upserted(r, Current(r)), Relocates(r, Current(r)))
<1> DEFINE c == Current(r)
           f == req[r].file
           row == rows[c]
<1>1. c \in Codes /\ c \in Batch(f) /\ f \in Files
  BY UpsertedIsTyped
<1>2. /\ req[r].solved \in BOOLEAN
      /\ req[r].solved => File[f].corrected
  BY DEF Known, TypeOK, Request, RequestsKnow, KnowsItsFile
<1>3. /\ row \in Cache \cup {None} /\ IsSound(c, row)
      /\ File[f].at[c] \in Coords /\ File[f].exported \in Times
  BY <1>1, FilesAreTyped DEF Known, TypeOK, RowInv, RowsAreSound
<1>4. req[r].solved => File[f].at[c] \in Corrected(c)
  BY <1>1, <1>2 DEF Corrected
<1>5. row = req[r].existing[c] /\ ~IsStale(r, c)
  OBVIOUS
<1> HIDE DEF c, f
<1>6. CASE row = None
  <2>1. Upserted(r, c) = Inserted(f, c, req[r].solved)
    BY <1>6 DEF Upserted, f
  <2>2. IsSound(c, Upserted(r, c))
    BY <1>1, <1>2, <2>1, InsertedIsSound DEF IsSound
  <2>3. IsUpdateOf(row, Upserted(r, c), Relocates(r, c))
    BY <1>6 DEF IsUpdateOf
  <2> QED BY <2>2, <2>3 DEF c
<1>7. CASE row # None /\ req[r].solved
  <2>1. Upserted(r, c) = [row EXCEPT !.loc = File[f].at[c], !.solved = TRUE]
    BY <1>7 DEF Upserted, f
  <2>2. row \in Cache
    BY <1>3, <1>7
  <2>3. /\ Upserted(r, c).loc = File[f].at[c] /\ Upserted(r, c).solved
        /\ Upserted(r, c).exported = row.exported
    BY <2>1, <2>2 DEF Cache
  <2>4. IsSound(c, Upserted(r, c))
    BY <1>4, <1>7, <2>3 DEF IsSound
  <2>5. row.loc # File[f].at[c] => Relocates(r, c)
    BY <1>5, <1>7 DEF Relocates, WritesLocation, f
  <2>6. row.exported \in Nat \cup {None}
    BY <2>2 DEF Cache, Times
  <2>7. IsUpdateOf(row, Upserted(r, c), Relocates(r, c))
    BY <2>3, <2>5, <2>6 DEF IsUpdateOf
  <2> QED BY <2>4, <2>7 DEF c
<1>8. CASE row # None /\ ~req[r].solved
  <2>1. Upserted(r, c) =
            [row EXCEPT !.loc = IF WritesLocation(r, c) THEN File[f].at[c] ELSE @,
                        !.published = File[f].at[c], !.exported = File[f].exported]
    BY <1>8 DEF Upserted, f
  <2>2. row \in Cache
    BY <1>3, <1>8
  <2>3. /\ Upserted(r, c).loc = IF WritesLocation(r, c) THEN File[f].at[c] ELSE row.loc
        /\ Upserted(r, c).solved = row.solved
        /\ Upserted(r, c).published = File[f].at[c]
        /\ Upserted(r, c).exported = File[f].exported
    BY <2>1, <2>2 DEF Cache
  <2>4. WritesLocation(r, c) <=> ~row.solved
    BY <1>5, <1>8 DEF WritesLocation
  <2>5. IsSound(c, Upserted(r, c))
    BY <1>3, <1>8, <2>3, <2>4 DEF IsSound
  <2>6. Upserted(r, c).loc # row.loc => Relocates(r, c)
    BY <1>5, <1>8, <2>3 DEF Relocates, f
  <2>7. row.exported # None /\ File[f].exported # None => File[f].exported >= row.exported
    <3>1. row.exported # None /\ File[f].exported # None
              => ~(File[f].exported < row.exported)
      BY <1>5, <1>8 DEF IsStale, f
    <3>2. row.exported \in Nat \cup {None} /\ File[f].exported \in Nat \cup {None}
      BY <1>3, <2>2 DEF Cache, Times
    <3> QED BY <3>1, <3>2
  <2>8. IsUpdateOf(row, Upserted(r, c), Relocates(r, c))
    BY <2>3, <2>6, <2>7 DEF IsUpdateOf
  <2> QED BY <2>5, <2>8 DEF c
<1> QED BY <1>6, <1>7, <1>8

\* A transaction writes one more row.
LEMMA UpsertOneKeepsRows ==
    ASSUME Known, RowInv, NEW r \in Requests, UpsertOne(r)
    PROVE  RowInv'
<1> DEFINE c == Current(r)
           row == Upserted(r, c)
           moved == Relocates(r, c)
<1>1. /\ At(r, "upsert") /\ ~IsStale(r, c) /\ IsFree(r, c)
      /\ UNCHANGED <<rows, derived>>
      /\ raced' = IF rows[c] = req[r].existing[c] THEN raced ELSE raced \cup {c}
  BY DEF UpsertOne
<1>2. c \in Codes
  BY <1>1, UpsertedIsTyped
<1>3. c \notin raced' => /\ rows[c] = req[r].existing[c]
                         /\ IsSound(c, row)
                         /\ IsUpdateOf(rows[c], row, moved)
  BY <1>1, UpsertedIsSound
<1>4. /\ req \in [Requests -> Request] /\ req[r] \in Request
  BY DEF Known, TypeOK
<1> HIDE DEF c, row, moved
<1>5. /\ req'[r].mine = [req[r].mine EXCEPT ![c] = row]
      /\ req'[r].relocated = IF moved THEN req[r].relocated \cup {c} ELSE req[r].relocated
      /\ req'[r].existing = req[r].existing
      /\ \A q \in Requests \ {r} : req'[q] = req[q]
  BY <1>4 DEF UpsertOne, Request, c, row, moved
<1>6. \A d \in Codes : req'[r].mine[d] = IF d = c THEN row ELSE req[r].mine[d]
  BY <1>2, <1>4, <1>5 DEF Request
<1>7. Locked(r)' \subseteq Locked(r) \cup {c} /\ \A q \in Requests \ {r} : Locked(q)' = Locked(q)
  BY <1>5, <1>6 DEF Locked
<1>8. raced \subseteq raced'
  BY <1>1
<1>9. RowsAreSound'
  <2> SUFFICES ASSUME NEW d \in Codes \ raced', NEW q \in Requests
               PROVE  IsSound(d, rows'[d]) /\ IsSound(d, req'[q].mine[d])
    BY DEF RowsAreSound, IsSound
  <2>1. IsSound(d, rows[d]) /\ IsSound(d, req[q].mine[d])
    BY <1>8 DEF RowInv, RowsAreSound
  <2>2. req'[q].mine[d] = req[q].mine[d] \/ (d = c /\ req'[q].mine[d] = row)
    BY <1>5, <1>6
  <2> QED BY <1>1, <1>3, <2>1, <2>2
<1>10. LocksAreExclusive'
  <2>1. \A q \in Requests \ {r} : Locked(q) \cap Locked(r) = {} /\ c \notin Locked(q)
    BY <1>1 DEF RowInv, LocksAreExclusive, IsFree, c
  <2> QED BY <1>7, <2>1 DEF RowInv, LocksAreExclusive
<1>11. LockedRowsAreCurrent'
  <2> SUFFICES ASSUME NEW q \in Requests, NEW d \in Locked(q)' \ raced'
               PROVE  /\ rows'[d] = req'[q].existing[d]
                      /\ IsUpdateOf(req'[q].existing[d], req'[q].mine[d],
                                    d \in req'[q].relocated)
    BY DEF LockedRowsAreCurrent
  <2>1. d \in Codes
    BY DEF Locked
  <2>2. CASE q = r /\ d = c
    <3>1. req'[r].mine[c] = row /\ (moved => c \in req'[r].relocated)
      BY <1>2, <1>5, <1>6
    <3> QED BY <1>1, <1>3, <1>5, <2>2, <3>1 DEF IsUpdateOf
  <2>3. CASE ~(q = r /\ d = c)
    <3>1. d \in Locked(q) \ raced
      BY <1>7, <1>8, <2>3
    <3>2. /\ rows[d] = req[q].existing[d]
          /\ IsUpdateOf(req[q].existing[d], req[q].mine[d], d \in req[q].relocated)
      BY <3>1 DEF RowInv, LockedRowsAreCurrent
    <3>3. /\ req'[q].existing = req[q].existing /\ req'[q].mine[d] = req[q].mine[d]
          /\ (d \in req[q].relocated <=> d \in req'[q].relocated)
      BY <1>5, <1>6, <2>1, <2>3
    <3> QED BY <1>1, <3>2, <3>3 DEF IsUpdateOf
  <2> QED BY <2>2, <2>3
<1>12. OnlyRowsAreDerivedFrom' /\ DerivedFollowsLocation'
  BY <1>1, <1>8 DEF RowInv, OnlyRowsAreDerivedFrom, DerivedFollowsLocation
<1> QED BY <1>9, <1>10, <1>11, <1>12 DEF RowInv

\* A transaction commits: what it moved is no longer derived from.
LEMMA CommitKeepsRows ==
    ASSUME Known, RowInv, NEW r \in Requests, Commit(r)
    PROVE  RowInv'
<1>1. req \in [Requests -> Request]
  BY DEF Known, TypeOK
<1>2. /\ \A c \in Codes : rows'[c] = IF c \in Locked(r) THEN req[r].mine[c] ELSE rows[c]
      /\ \A c \in Codes : derived'[c] = IF c \in req[r].relocated THEN None ELSE derived[c]
      /\ raced \subseteq raced'
  BY DEF Commit
<1>3. req'[r].mine = NoRows /\ \A q \in Requests \ {r} : req'[q] = req[q]
  <2> DEFINE me == [Unused EXCEPT !.pc = "finds", !.file = req[r].file,
                                !.markAsFound = req[r].markAsFound, !.upload = req[r].upload]
  <2>1. req' = [req EXCEPT ![r] = me]
    BY DEF Commit
  <2>2. me.mine = NoRows
    BY DEF Unused
  <2> HIDE DEF me
  <2> QED BY <1>1, <2>1, <2>2
<1>4. Locked(r)' = {} /\ \A q \in Requests \ {r} : Locked(q)' = Locked(q)
  BY <1>3 DEF Locked, NoRows
<1>5. RowsAreSound'
  <2> SUFFICES ASSUME NEW c \in Codes \ raced', NEW q \in Requests
               PROVE  IsSound(c, rows'[c]) /\ IsSound(c, req'[q].mine[c])
    BY DEF RowsAreSound, IsSound
  <2>1. IsSound(c, rows[c]) /\ \A s \in Requests : IsSound(c, req[s].mine[c])
    BY <1>2 DEF RowInv, RowsAreSound
  <2>2. IsSound(c, rows'[c])
    BY <1>2, <2>1
  <2>3. req'[q].mine[c] = None \/ req'[q].mine[c] = req[q].mine[c]
    BY <1>3 DEF NoRows
  <2>4. IsSound(c, req'[q].mine[c])
    BY <2>1, <2>3 DEF IsSound
  <2> QED BY <2>2, <2>4
<1>6. LocksAreExclusive'
  BY <1>4 DEF RowInv, LocksAreExclusive
<1>7. LockedRowsAreCurrent'
  <2> SUFFICES ASSUME NEW q \in Requests, NEW c \in Locked(q)' \ raced'
               PROVE  /\ rows'[c] = req'[q].existing[c]
                      /\ IsUpdateOf(req'[q].existing[c], req'[q].mine[c],
                                    c \in req'[q].relocated)
    BY DEF LockedRowsAreCurrent
  <2>1. q # r /\ c \in Codes /\ c \in Locked(q) \ raced /\ req'[q] = req[q]
    BY <1>2, <1>3, <1>4 DEF Locked
  <2>2. c \notin Locked(r)
    BY <2>1 DEF RowInv, LocksAreExclusive
  <2>3. rows'[c] = rows[c]
    BY <1>2, <2>1, <2>2
  <2> QED BY <2>1, <2>3 DEF RowInv, LockedRowsAreCurrent
<1>8. OnlyRowsAreDerivedFrom'
  BY <1>2 DEF RowInv, OnlyRowsAreDerivedFrom, Locked
<1>9. DerivedFollowsLocation'
  <2> SUFFICES ASSUME NEW c \in Codes \ raced', derived'[c] # None
               PROVE  derived'[c] = rows'[c].loc
    BY DEF DerivedFollowsLocation
  <2>1. c \notin req[r].relocated /\ derived'[c] = derived[c] /\ derived[c] = rows[c].loc
    BY <1>2 DEF RowInv, DerivedFollowsLocation
  <2>2. rows[c] # None
    BY <2>1 DEF RowInv, OnlyRowsAreDerivedFrom
  <2>3. CASE c \in Locked(r)
    <3>1. /\ rows[c] = req[r].existing[c]
          /\ IsUpdateOf(req[r].existing[c], req[r].mine[c], c \in req[r].relocated)
      BY <1>2, <2>3 DEF RowInv, LockedRowsAreCurrent
    <3>2. req[r].mine[c].loc = rows[c].loc
      BY <2>1, <2>2, <3>1 DEF IsUpdateOf
    <3> QED BY <1>2, <2>1, <2>3, <3>2
  <2>4. CASE c \notin Locked(r)
    BY <1>2, <2>1, <2>4
  <2> QED BY <2>3, <2>4
<1> QED BY <1>5, <1>6, <1>7, <1>8, <1>9 DEF RowInv

\* A solved coordinate is taken back, while no transaction has the row.
LEMMA ClearSolvedKeepsRows ==
    ASSUME Known, RowInv, NEW c \in Codes, ClearSolved(c)
    PROVE  RowInv'
<1>1. rows[c] \in Cache /\ rows[c] # None
  BY DEF ClearSolved, Known, TypeOK
<1>2. /\ rows' = [rows EXCEPT ![c] = Reverted(rows[c])]
      /\ derived' = [derived EXCEPT ![c] = None]
      /\ UNCHANGED <<req, raced>>
      /\ \A r \in Requests : c \notin Locked(r)
  BY DEF ClearSolved
<1>3. /\ \A d \in Codes \ {c} : rows'[d] = rows[d] /\ derived'[d] = derived[d]
      /\ rows'[c] = Reverted(rows[c]) /\ derived'[c] = None
  BY <1>2 DEF Known, TypeOK
<1>4. IsSound(c, Reverted(rows[c]))
  BY <1>1 DEF Reverted, Cache, IsSound
<1>5. RowsAreSound'
  BY <1>2, <1>3, <1>4 DEF RowInv, RowsAreSound, IsSound
<1>6. LocksAreExclusive' /\ \A r \in Requests : Locked(r)' = Locked(r)
  BY <1>2 DEF RowInv, LocksAreExclusive, Locked
<1>7. LockedRowsAreCurrent'
  <2> SUFFICES ASSUME NEW r \in Requests, NEW d \in Locked(r)' \ raced'
               PROVE  /\ rows'[d] = req'[r].existing[d]
                      /\ IsUpdateOf(req'[r].existing[d], req'[r].mine[d],
                                    d \in req'[r].relocated)
    BY DEF LockedRowsAreCurrent
  <2>1. d \in Locked(r) \ raced /\ d # c /\ d \in Codes
    BY <1>2, <1>6 DEF Locked
  <2> QED BY <1>2, <1>3, <2>1 DEF RowInv, LockedRowsAreCurrent
<1>8. OnlyRowsAreDerivedFrom' /\ DerivedFollowsLocation'
  BY <1>2, <1>3 DEF RowInv, OnlyRowsAreDerivedFrom, DerivedFollowsLocation
<1> QED BY <1>5, <1>6, <1>7, <1>8 DEF RowInv

LEMMA WarmKeepsRows ==
    ASSUME Known, RowInv, NEW c \in Codes, Warm(c)
    PROVE  RowInv'
<1>1. UNCHANGED <<rows, req, raced>> /\ rows[c] # None
  BY DEF Warm
<1>2. \A d \in Codes : derived'[d] = IF d = c THEN rows[c].loc ELSE derived[d]
  BY DEF Warm, Known, TypeOK
<1>3. RowsAreSound' /\ LocksAreExclusive'
  BY <1>1 DEF RowInv, RowsAreSound, IsSound, LocksAreExclusive, Locked
<1>4. LockedRowsAreCurrent'
  BY <1>1 DEF RowInv, LockedRowsAreCurrent, Locked, IsUpdateOf
<1>5. OnlyRowsAreDerivedFrom' /\ DerivedFollowsLocation'
  BY <1>1, <1>2 DEF RowInv, OnlyRowsAreDerivedFrom, DerivedFollowsLocation
<1> QED BY <1>3, <1>4, <1>5 DEF RowInv

LEMMA StepKeepsRows ==
    ASSUME Known, RowInv, [Next]_vars
    PROVE  RowInv'
<1>1. ASSUME NEW r \in Requests, UpsertOne(r) \/ Commit(r) PROVE RowInv'
  BY <1>1, UpsertOneKeepsRows, CommitKeepsRows
<1>2. ASSUME NEW c \in Codes, ClearSolved(c) \/ Warm(c) PROVE RowInv'
  BY <1>2, ClearSolvedKeepsRows, WarmKeepsRows
<1>3. CASE /\ ~ \E r \in Requests : UpsertOne(r) \/ Commit(r)
           /\ ~ \E c \in Codes : ClearSolved(c) \/ Warm(c)
  <2>1. Quiet
    BY <1>3, QuietSteps
  <2> QED BY <2>1, QuietKeepsRows
<1> QED BY <1>1, <1>2, <1>3

LEMMA RowsStayInOrder == Spec => [](Known /\ RowInv)
<1>1. Init => Known /\ RowInv
  BY InitIsKnown, InitHasRowInv
<1>2. Known /\ RowInv /\ [Next]_vars => (Known /\ RowInv)'
  BY StepKeepsKnown, StepKeepsRows
<1> QED BY <1>1, <1>2, PTL DEF Spec

\* However uploads of both modes, reprocessing, retries and crashes are
\* interleaved, a cache that nobody raced for is at the coordinate its owner
\* solved as long as it counts as solved.
THEOREM SolvedCoordinatesSurvive == Spec => []SolvedCoordinateSurvives
<1>1. RowInv => SolvedCoordinateSurvives
  BY DEF RowInv, RowsAreSound, IsSound, SolvedCoordinateSurvives, SolvedIsCorrected
<1> QED BY <1>1, RowsStayInOrder, PTL

\* And at the posted coordinate when it does not.
THEOREM LocationsAreEffective == Spec => []LocationIsEffective
<1>1. RowInv => LocationIsEffective
  BY DEF RowInv, RowsAreSound, IsSound, LocationIsEffective
<1> QED BY <1>1, RowsStayInOrder, PTL

\* Every way of moving a cache invalidates what was derived from its place.
THEOREM DerivedRowsFollow == Spec => []DerivedFollowsLocation
<1>1. RowInv => DerivedFollowsLocation
  BY DEF RowInv
<1> QED BY <1>1, RowsStayInOrder, PTL

\* An older export replaces no newer one: the row a transaction read, and
\* compared its file with, is the one it replaces.
THEOREM NewestExportsWin == Spec => NewestExportWins
<1> DEFINE Step ==
        \A c \in Codes \ raced' :
            (/\ rows[c] # None
             /\ rows'[c] # None
             /\ rows[c].exported # None
             /\ rows'[c].exported # None)
            => rows'[c].exported >= rows[c].exported
<1>1. ASSUME Known, RowInv, [Next]_vars PROVE Step
  <2> SUFFICES ASSUME NEW c \in Codes \ raced',
                      rows[c] # None, rows'[c] # None,
                      rows[c].exported # None, rows'[c].exported # None
               PROVE  rows'[c].exported >= rows[c].exported
    OBVIOUS
  <2>1. rows[c].exported \in Nat
    BY <1>1 DEF Known, TypeOK, Cache, Times
  <2>2. CASE rows'[c] = rows[c]
    BY <2>1, <2>2
  <2>3. ASSUME NEW r \in Requests, Commit(r), rows'[c] # rows[c]
        PROVE  rows'[c].exported >= rows[c].exported
    <3>1. c \in Locked(r) /\ rows'[c] = req[r].mine[c] /\ c \notin raced
      BY <2>3 DEF Commit
    <3>2. /\ rows[c] = req[r].existing[c]
          /\ IsUpdateOf(req[r].existing[c], req[r].mine[c], c \in req[r].relocated)
      BY <1>1, <3>1 DEF RowInv, LockedRowsAreCurrent
    <3> QED BY <3>1, <3>2 DEF IsUpdateOf
  <2>4. ASSUME NEW d \in Codes, ClearSolved(d), rows'[c] # rows[c]
        PROVE  rows'[c].exported >= rows[c].exported
    <3>1. d = c /\ rows'[c] = Reverted(rows[c])
      BY <1>1, <2>4 DEF ClearSolved, Known, TypeOK
    <3>2. rows'[c].exported = rows[c].exported
      BY <1>1, <3>1 DEF Reverted, Known, TypeOK, Cache
    <3> QED BY <2>1, <3>2
  <2>5. CASE /\ ~ \E r \in Requests : Commit(r)
             /\ ~ \E d \in Codes : ClearSolved(d)
    <3>1. rows' = rows
      <4>1. CASE \E r \in Requests : UpsertOne(r)
        BY <4>1 DEF UpsertOne
      <4>2. CASE \E d \in Codes : Warm(d)
        BY <4>2 DEF Warm
      <4>3. CASE /\ ~ \E r \in Requests : UpsertOne(r)
                 /\ ~ \E d \in Codes : Warm(d)
        BY <1>1, <2>5, <4>3, QuietSteps DEF Quiet
      <4> QED BY <4>1, <4>2, <4>3
    <3> QED BY <2>1, <3>1
  <2> QED BY <2>2, <2>3, <2>4, <2>5
<1>2. Known /\ RowInv /\ [Next]_vars => [Step]_vars
  BY <1>1
<1> QED BY <1>2, RowsStayInOrder, PTL DEF Spec, NewestExportWins

----------------------------------------------------------------------------
(***************************************************************************)
(* The waypoints.                                                          *)
(***************************************************************************)

LEMMA CommitKeepsWaypoints ==
    ASSUME Known, WaypointsOfOneFile, NEW r \in Requests, Commit(r)
    PROVE  WaypointsOfOneFile'
<1>1. req[r].matched \subseteq req[r].wiped
  BY DEF Commit, At, Known, RequestsKnow, KnowsItsFile
<1>2. \A c \in Codes :
          wpts'[c] = (IF c \in req[r].wiped THEN wpts[c] \ req[r].seen[c] ELSE wpts[c])
                         \cup (IF c \in req[r].matched THEN {r} ELSE {})
  BY DEF Commit
<1>3. raced' = raced \cup {c \in req[r].matched : wpts[c] # req[r].seen[c]}
  BY DEF Commit
<1> SUFFICES ASSUME NEW c \in Codes \ raced', NEW u \in wpts'[c], NEW v \in wpts'[c]
             PROVE  u = v
  BY DEF WaypointsOfOneFile
<1>4. CASE c \in req[r].matched
  <2>1. wpts[c] = req[r].seen[c] /\ c \in req[r].wiped
    BY <1>1, <1>3, <1>4
  <2>2. wpts'[c] = {r}
    BY <1>2, <1>4, <2>1
  <2> QED BY <2>2
<1>5. CASE c \notin req[r].matched
  <2>1. c \in Codes \ raced /\ wpts'[c] \subseteq wpts[c]
    BY <1>2, <1>3, <1>5
  <2> QED BY <2>1 DEF WaypointsOfOneFile
<1> QED BY <1>4, <1>5

\* Every other step leaves the waypoints alone.
LEMMA WaypointsStay ==
    ASSUME [Next]_vars, ~ \E r \in Requests : Commit(r)
    PROVE  wpts' = wpts /\ raced \subseteq raced'
<1>1. ASSUME NEW r \in Requests, Serve(r) PROVE wpts' = wpts /\ raced \subseteq raced'
  <2>1. CASE Ingest(r)
    BY <2>1 DEF Ingest, Lookup, InsertReceivedUpload, Save, MarkRawStored
  <2>2. CASE ParseGpx(r) \/ Finish(r) \/ DeadlockDetected(r)
    BY <2>2 DEF ParseGpx, Finish, RecordFinds, MarkParsed, DeadlockDetected
  <2>3. CASE ReadExisting(r) \/ SkipStale(r) \/ ReplaceWaypoints(r)
    BY <2>3 DEF ReadExisting, SkipStale, ReplaceWaypoints
  <2>4. CASE UpsertOne(r)
    BY <2>4 DEF UpsertOne
  <2> QED BY <1>1, <2>1, <2>2, <2>3, <2>4 DEF Serve, Upsert
<1>2. CASE \E r \in Requests, f \in Files : \E opts \in Options[f] : Post(r, f, opts)
  BY <1>2 DEF Post
<1>3. CASE \E r \in Requests, u \in Uploads : Reprocess(r, u)
  BY <1>3 DEF Reprocess
<1>4. CASE Crash \/ \E r \in Requests : StepFails(r)
  BY <1>4 DEF Crash, StepFails
<1>5. CASE \E c \in Codes : ClearSolved(c) \/ Warm(c)
  BY <1>5 DEF ClearSolved, Warm
<1>6. CASE UNCHANGED vars
  BY <1>6 DEF vars
<1> QED BY <1>1, <1>2, <1>3, <1>4, <1>5, <1>6 DEF Next

\* However a cache and its waypoints are split over files, and however often
\* these are repeated, a cache nobody raced for has the waypoints of one file.
THEOREM WaypointsComeFromOneFile == Spec => []WaypointsOfOneFile
<1>1. Init => WaypointsOfOneFile
  <2> SUFFICES ASSUME Init PROVE WaypointsOfOneFile
    OBVIOUS
  <2> PICK before \in {f \in Files : File[f].valid} \cup {None} :
          wpts = [c \in Codes |->
                     IF /\ c \in (IF before = None THEN {} ELSE Batch(before))
                        /\ c \in File[before].wpts
                     THEN {before} ELSE {}]
    BY DEF Init
  <2>1. \A c \in Codes : wpts[c] \subseteq {before}
    OBVIOUS
  <2> QED BY <2>1 DEF WaypointsOfOneFile
<1>2. Known /\ WaypointsOfOneFile /\ [Next]_vars => WaypointsOfOneFile'
  <2> SUFFICES ASSUME Known, WaypointsOfOneFile, [Next]_vars PROVE WaypointsOfOneFile'
    OBVIOUS
  <2>1. CASE \E r \in Requests : Commit(r)
    BY <2>1, CommitKeepsWaypoints
  <2>2. CASE ~ \E r \in Requests : Commit(r)
    <3>1. wpts' = wpts /\ raced \subseteq raced'
      BY <2>2, WaypointsStay
    <3> QED BY <3>1 DEF WaypointsOfOneFile
  <2> QED BY <2>1, <2>2
<1> QED BY <1>1, <1>2, RowsStayInOrder, PTL DEF Spec

----------------------------------------------------------------------------
(***************************************************************************)
(* What success means.                                                     *)
(***************************************************************************)

\* The file's caches are stored, and its finds recorded, in rows R and finds F.
Stored(f, R)   == \A c \in Batch(f) : R[c] # None
Recorded(f, F) == File[f].finds => Batch(f) \subseteq F

\* The finds were asked for with the request, and are not ignored.
Asked(me) == me.markAsFound /\ (me.pc = "done" => ~me.duplicate)

\* What a request has stored so far: the caches its loop is past have a row,
\* committed or of its own; the cache of a row it read is still there.
HasStored(me, R, F) ==
    /\ me.pc \in Transaction => \A c \in Codes : me.existing[c] # None => R[c] # None
    /\ me.pc = "upsert" =>
          \A i \in 1..Len(File[me.file].caches) :
              i < me.next => \/ me.mine[File[me.file].caches[i]] # None
                             \/ R[File[me.file].caches[i]] # None
    /\ me.pc \in {"waypoints", "commit"} =>
          \A c \in Batch(me.file) : me.mine[c] # None \/ R[c] # None
    /\ me.pc \in {"finds", "parsed", "done"} => Stored(me.file, R)
    /\ me.pc \in {"parsed", "done"} => /\ Recorded(me.file, F)
                                       /\ Asked(me) => Batch(me.file) \subseteq F

\* An upload that counts as parsed is stored, whoever parsed it.
ParsedAreStored(U, R, F) ==
    \A u \in Uploads :
        U[u].status = "parsed" => /\ U[u].file \in Files
                                  /\ Stored(U[u].file, R) /\ Recorded(U[u].file, F)

\* Before its record is inserted, nobody refers to the upload of a request.
Fresh == {"unused", "lookup", "insert"}

FreshUploads ==
    \A r \in Requests :
        req[r].pc \in Fresh => /\ ~uploads[r].raw
                               /\ \A q \in Requests : req[q].upload # r

SuccessInv ==
    /\ \A r \in Requests :
          /\ HasStored(req[r], rows, found)
          /\ req[r].pc \notin Early => uploads[req[r].upload].file = req[r].file
    /\ ParsedAreStored(uploads, rows, found)
    /\ FreshUploads

\* No step removes a row or a find.
Grows == /\ \A c \in Codes : rows[c] # None => rows'[c] # None
         /\ found \subseteq found'

LEMMA StoredStays ==
    ASSUME Grows, NEW f \in Files
    PROVE  /\ Stored(f, rows) => Stored(f, rows')
           /\ Recorded(f, found) => Recorded(f, found')
<1>1. Batch(f) \subseteq Codes
  BY BatchIsTyped
<1> QED BY <1>1 DEF Grows, Stored, Recorded

LEMMA HasStoredStays ==
    ASSUME Grows, NEW me, KnowsItsFile(me), HasStored(me, rows, found)
    PROVE  HasStored(me, rows', found')
<1> DEFINE f == me.file
           code(i) == File[f].caches[i]
<1>1. CASE me.pc \in {"unused", "failed"}
  BY <1>1 DEF HasStored, Transaction
<1>2. CASE me.pc \notin {"unused", "failed"}
  <2>1. f \in Files
    BY <1>2 DEF KnowsItsFile
  <2>2. /\ Batch(f) \subseteq Codes
        /\ \A i \in 1..Len(File[f].caches) : code(i) \in Batch(f)
    BY <2>1, BatchIsTyped
  <2>3. /\ Stored(f, rows) => Stored(f, rows')
        /\ Recorded(f, found) => Recorded(f, found')
    BY <2>1, StoredStays
  <2>4. \A i \in 1..Len(File[f].caches) : rows[code(i)] # None => rows'[code(i)] # None
    BY <2>2 DEF Grows
  <2>5. \A c \in Batch(f) : rows[c] # None => rows'[c] # None
    BY <2>2 DEF Grows
  <2> QED BY <2>3, <2>4, <2>5 DEF HasStored, Grows
<1> QED BY <1>1, <1>2

LEMMA ParsedStayStored ==
    ASSUME Known, Grows, SuccessInv,
           \A u \in Uploads : uploads'[u].status = "parsed" =>
               \/ /\ uploads'[u].file \in Files
                  /\ Stored(uploads'[u].file, rows') /\ Recorded(uploads'[u].file, found')
               \/ /\ uploads[u].status = "parsed"
                  /\ uploads'[u].file = uploads[u].file
    PROVE  ParsedAreStored(uploads', rows', found')
<1> SUFFICES ASSUME NEW u \in Uploads, uploads'[u].status = "parsed"
             PROVE  /\ uploads'[u].file \in Files
                    /\ Stored(uploads'[u].file, rows') /\ Recorded(uploads'[u].file, found')
  BY DEF ParsedAreStored
<1>1. CASE uploads[u].status = "parsed" /\ uploads'[u].file = uploads[u].file
  <2>1. /\ uploads[u].file \in Files
        /\ Stored(uploads[u].file, rows) /\ Recorded(uploads[u].file, found)
    BY <1>1 DEF SuccessInv, ParsedAreStored
  <2> QED BY <1>1, <2>1, StoredStays
<1> QED BY <1>1

\* A step of request r, whose record becomes me.
LEMMA OneStores ==
    ASSUME Known, SuccessInv, Grows, NEW r \in Requests, NEW me,
           req' = [req EXCEPT ![r] = me],
           HasStored(me, rows', found'),
           ParsedAreStored(uploads', rows', found'),
           \A u \in Uploads \ {r} : /\ uploads'[u].file = uploads[u].file
                                    /\ uploads'[u].raw => uploads[u].raw,
           req[r].pc = "insert" \/ uploads'[r].file = uploads[r].file,
           me.pc \notin Early => uploads'[me.upload].file = me.file,
           me.pc \in Fresh => req[r].pc \in Fresh /\ ~uploads'[r].raw /\ me.upload # r,
           \/ me.upload \in {None, r, req[r].upload}
           \/ me.upload \in Uploads /\ uploads[me.upload].raw
    PROVE  SuccessInv'
<1>1. req \in [Requests -> Request]
  BY DEF Known, TypeOK
<1>2. req'[r] = me /\ \A q \in Requests \ {r} : req'[q] = req[q]
  BY <1>1
<1>3. None \notin Requests /\ r \in Uploads /\ Fresh \subseteq Early
  BY GpxIngestAssumption DEF Uploads, Fresh, Early
<1>4. FreshUploads
  BY DEF SuccessInv
<1>5. ASSUME NEW q \in Requests
      PROVE  /\ HasStored(req'[q], rows', found')
             /\ req'[q].pc \notin Early => uploads'[req'[q].upload].file = req'[q].file
  <2>1. CASE q = r
    BY <1>2, <2>1
  <2>2. CASE q # r
    <3>1. /\ HasStored(req[q], rows, found) /\ KnowsItsFile(req[q])
          /\ req[q].pc \notin Early => uploads[req[q].upload].file = req[q].file
          /\ req[q].pc \notin Early => req[q].upload \in Uploads
      BY DEF SuccessInv, Known, RequestsKnow, Early
    <3>2. HasStored(req[q], rows', found')
      BY <3>1, HasStoredStays
    <3>3. ASSUME req[q].pc \notin Early
          PROVE  uploads'[req[q].upload].file = uploads[req[q].upload].file
      <4>1. CASE req[q].upload = r
        <5>1. req[r].pc # "insert"
          BY <1>4, <4>1 DEF FreshUploads, Fresh
        <5> QED BY <4>1, <5>1
      <4>2. CASE req[q].upload # r
        BY <3>1, <3>3, <4>2
      <4> QED BY <4>1, <4>2
    <3> QED BY <1>2, <2>2, <3>1, <3>2, <3>3
  <2> QED BY <2>1, <2>2
<1>6. ASSUME NEW q \in Requests, req'[q].pc \in Fresh, NEW p \in Requests
      PROVE  ~uploads'[q].raw /\ req'[p].upload # q
  <2>1. req[q].pc \in Fresh
    BY <1>2, <1>6
  <2>2. ~uploads[q].raw /\ req[p].upload # q /\ req[r].upload # q /\ q \in Uploads
    BY <1>4, <2>1 DEF FreshUploads, Uploads
  <2>3. ~uploads'[q].raw
    BY <1>2, <1>6, <2>2
  <2>4. me.upload # q
    BY <1>2, <1>3, <1>6, <2>2
  <2> QED BY <1>2, <2>2, <2>3, <2>4
<1>7. FreshUploads'
  BY <1>6 DEF FreshUploads
<1>8. \A q \in Requests :
          /\ HasStored(req[q], rows, found)'
          /\ (req[q].pc \notin Early => uploads[req[q].upload].file = req[q].file)'
  BY <1>5 DEF HasStored, Stored, Recorded
<1>9. ParsedAreStored(uploads, rows, found)'
  BY DEF ParsedAreStored, Stored, Recorded
<1> QED BY <1>7, <1>8, <1>9 DEF SuccessInv

LEMMA StandingGrows == UNCHANGED <<rows, found>> => Grows
BY DEF Grows

\* The uploads are left alone.
LEMMA OneStoresQuietly ==
    ASSUME Known, SuccessInv, Grows, NEW r \in Requests, NEW me,
           req' = [req EXCEPT ![r] = me], UNCHANGED uploads,
           HasStored(me, rows', found'),
           me.pc \notin Early => uploads[me.upload].file = me.file,
           me.pc \in Fresh => req[r].pc \in Fresh /\ me.upload # r,
           \/ me.upload \in {None, r, req[r].upload}
           \/ me.upload \in Uploads /\ uploads[me.upload].raw
    PROVE  SuccessInv'
<1>1. ParsedAreStored(uploads', rows', found')
  BY ParsedStayStored
<1>2. req[r].pc \in Fresh => ~uploads[r].raw
  BY DEF SuccessInv, FreshUploads
<1> QED BY <1>1, <1>2, OneStores

\* A request that has not begun its transaction has stored nothing yet.
LEMMA BeforeStoring ==
    ASSUME NEW me, NEW R, NEW F,
           me.pc \in {"unused", "failed", "lookup", "insert", "save", "stored", "parse", "read"}
    PROVE  HasStored(me, R, F)
BY DEF HasStored, Transaction

LEMMA FailingStores ==
    ASSUME Known, SuccessInv, UNCHANGED <<rows, found>>, NEW r \in Requests, Fail(r),
           \A u \in Uploads :
               /\ uploads'[u].file = uploads[u].file
               /\ uploads'[u].status = "parsed" => uploads[u].status = "parsed"
               /\ uploads'[u].raw => uploads[u].raw
    PROVE  SuccessInv'
<1> DEFINE me == [Unused EXCEPT !.pc = "failed"]
<1>1. me.pc = "failed" /\ me.upload = None
  BY DEF Unused
<1>2. req' = [req EXCEPT ![r] = me]
  BY DEF Fail
<1> HIDE DEF me
<1>3. HasStored(me, rows', found')
  BY <1>1, BeforeStoring
<1>4. Grows /\ r \in Uploads
  BY StandingGrows DEF Uploads
<1>5. ParsedAreStored(uploads', rows', found')
  BY <1>4, ParsedStayStored
<1> QED BY <1>1, <1>2, <1>3, <1>4, <1>5, OneStores DEF Early, Fresh

LEMMA StartingStores ==
    ASSUME Known, SuccessInv, NEW r \in Requests,
           \/ \E f \in Files : \E opts \in Options[f] : Post(r, f, opts)
           \/ \E u \in Uploads : Reprocess(r, u)
    PROVE  SuccessInv'
<1>1. UNCHANGED <<rows, found, uploads>> /\ Grows /\ req[r].pc \in Fresh /\ r # None
  BY StandingGrows, GpxIngestAssumption DEF Post, Reprocess, At, Fresh
<1>2. ASSUME NEW f \in Files, NEW opts \in Options[f], Post(r, f, opts) PROVE SuccessInv'
  <2> DEFINE me == [Unused EXCEPT !.pc = "lookup", !.file = f, !.force = opts.force,
                                  !.solved = opts.solvedCoordinates,
                                  !.markAsFound = opts.markAsFound]
  <2>1. me.pc = "lookup" /\ me.upload = None
    BY DEF Unused
  <2>2. req' = [req EXCEPT ![r] = me]
    BY <1>2 DEF Post
  <2> HIDE DEF me
  <2>3. HasStored(me, rows', found')
    BY <2>1, BeforeStoring
  <2> QED BY <1>1, <2>1, <2>2, <2>3, OneStoresQuietly DEF Early, Fresh
<1>3. ASSUME NEW u \in Uploads, Reprocess(r, u) PROVE SuccessInv'
  <2>1. CASE uploads[u].raw /\ u \in disk
    <3> DEFINE me == [Unused EXCEPT !.pc = "parse", !.file = uploads[u].file, !.upload = u]
    <3>1. me.pc = "parse" /\ me.upload = u /\ me.file = uploads[u].file
      BY DEF Unused
    <3>2. req' = [req EXCEPT ![r] = me]
      BY <1>3, <2>1 DEF Reprocess
    <3> HIDE DEF me
    <3>3. HasStored(me, rows', found')
      BY <3>1, BeforeStoring
    <3> QED BY <1>1, <2>1, <3>1, <3>2, <3>3, OneStoresQuietly DEF Early, Fresh
  <2>2. CASE ~(uploads[u].raw /\ u \in disk)
    <3>1. Fail(r)
      BY <1>3, <2>2 DEF Reprocess, Fail
    <3> QED BY <1>1, <3>1, FailingStores
  <2> QED BY <2>1, <2>2
<1> QED BY <1>2, <1>3

LEMMA LookupStores ==
    ASSUME Known, SuccessInv, NEW r \in Requests, Lookup(r)
    PROVE  SuccessInv'
<1>1. /\ UNCHANGED <<rows, found, uploads>> /\ Grows /\ req[r].pc = "lookup" /\ r # None
      /\ req[r] \in Request /\ req \in [Requests -> Request]
  BY StandingGrows, GpxIngestAssumption DEF Lookup, At, Known, TypeOK
<1>2. CASE ParsedUploadsByHash(req[r].file) # {} /\ Succeed(r, TRUE)
  <2> DEFINE me == [Unused EXCEPT !.pc = "done", !.file = req[r].file,
                                  !.markAsFound = req[r].markAsFound, !.duplicate = TRUE]
  <2>1. me.pc = "done" /\ me.file = req[r].file /\ me.upload = None /\ me.duplicate
    BY DEF Unused
  <2>2. req' = [req EXCEPT ![r] = me]
    BY <1>2 DEF Succeed
  <2> HIDE DEF me
  <2>3. PICK u \in ParsedUploadsByHash(req[r].file) : TRUE
    BY <1>2
  <2>4. Stored(req[r].file, rows) /\ Recorded(req[r].file, found)
    BY <2>3 DEF ParsedUploadsByHash, SuccessInv, ParsedAreStored
  <2>5. HasStored(me, rows', found')
    BY <1>1, <2>1, <2>4 DEF HasStored, Asked, Transaction
  <2> QED BY <1>1, <2>1, <2>2, <2>5, OneStoresQuietly DEF Early, Fresh
<1>3. CASE req' = [req EXCEPT ![r].pc = "insert", ![r].force = FALSE]
  <2> DEFINE me == [req[r] EXCEPT !.pc = "insert", !.force = FALSE]
  <2>1. me.pc = "insert" /\ me.upload = req[r].upload
    BY <1>1 DEF Request
  <2>2. req' = [req EXCEPT ![r] = me]
    BY <1>1, <1>3
  <2> HIDE DEF me
  <2>3. HasStored(me, rows', found')
    BY <2>1, BeforeStoring
  <2>4. req[r].upload # r
    BY <1>1 DEF SuccessInv, FreshUploads, Fresh
  <2> QED BY <1>1, <2>1, <2>2, <2>3, <2>4, OneStoresQuietly DEF Early, Fresh
<1>4. ASSUME NEW u \in ParsedUploadsByHash(req[r].file),
             req' = [req EXCEPT ![r].pc = "parse", ![r].force = FALSE, ![r].upload = u]
      PROVE  SuccessInv'
  <2> DEFINE me == [req[r] EXCEPT !.pc = "parse", !.force = FALSE, !.upload = u]
  <2>1. me.pc = "parse" /\ me.upload = u /\ me.file = req[r].file
    BY <1>1 DEF Request
  <2>2. req' = [req EXCEPT ![r] = me]
    BY <1>1, <1>4
  <2>3. u \in Uploads /\ uploads[u].raw /\ uploads[u].file = req[r].file
    BY DEF ParsedUploadsByHash
  <2> HIDE DEF me
  <2>4. HasStored(me, rows', found')
    BY <2>1, BeforeStoring
  <2> QED BY <1>1, <2>1, <2>2, <2>3, <2>4, OneStoresQuietly DEF Early, Fresh
<1> QED BY <1>2, <1>3, <1>4 DEF Lookup

LEMMA InsertStores ==
    ASSUME Known, SuccessInv, NEW r \in Requests, InsertReceivedUpload(r)
    PROVE  SuccessInv'
<1>1. /\ UNCHANGED <<rows, found>> /\ Grows /\ req[r].pc = "insert"
      /\ req[r] \in Request /\ req \in [Requests -> Request]
      /\ uploads \in [Uploads -> Upload] /\ r \in Uploads
  BY StandingGrows DEF InsertReceivedUpload, At, Known, TypeOK, Uploads
<1> DEFINE me == [req[r] EXCEPT !.pc = "save", !.upload = r]
           row == [status |-> "received", file |-> req[r].file, raw |-> FALSE]
<1>2. me.pc = "save" /\ me.upload = r /\ me.file = req[r].file
  BY <1>1 DEF Request
<1>3. req' = [req EXCEPT ![r] = me] /\ uploads' = [uploads EXCEPT ![r] = row]
  BY <1>1 DEF InsertReceivedUpload
<1>4. row.status = "received" /\ row.file = req[r].file /\ row.raw = FALSE
  OBVIOUS
<1> HIDE DEF me, row
<1>5. uploads'[r] = row /\ \A u \in Uploads \ {r} : uploads'[u] = uploads[u]
  BY <1>1, <1>3
<1>6. ParsedAreStored(uploads', rows', found')
  BY <1>1, <1>4, <1>5, ParsedStayStored
<1>7. HasStored(me, rows', found')
  BY <1>2, BeforeStoring
<1> QED BY <1>1, <1>2, <1>3, <1>4, <1>5, <1>6, <1>7, OneStores DEF Early, Fresh

\* Where the upload's file, and its status unless it fails, stay as they were.
LEMMA GoingStores ==
    ASSUME Known, SuccessInv, Grows, NEW r \in Requests,
           NEW pc \in {"stored", "parse", "read", "finds", "parsed"}, Goto(r, pc),
           req[r].pc \notin Early,
           pc \in {"finds", "parsed"} => Stored(req[r].file, rows'),
           pc = "parsed" => /\ Recorded(req[r].file, found')
                            /\ req[r].markAsFound => Batch(req[r].file) \subseteq found',
           \A u \in Uploads : /\ uploads'[u].file = uploads[u].file
                              /\ uploads'[u].status = "parsed" => uploads[u].status = "parsed",
           \A u \in Uploads \ {r} : uploads'[u].raw => uploads[u].raw
    PROVE  SuccessInv'
<1> DEFINE me == [req[r] EXCEPT !.pc = pc]
<1>1. req[r] \in Request /\ req \in [Requests -> Request] /\ r \in Uploads
  BY DEF Known, TypeOK, Uploads
<1>2. /\ me.pc = pc /\ me.upload = req[r].upload /\ me.file = req[r].file
      /\ me.markAsFound = req[r].markAsFound
  BY <1>1 DEF Request
<1>3. req' = [req EXCEPT ![r] = me]
  BY <1>1 DEF Goto
<1>4. uploads[req[r].upload].file = req[r].file /\ req[r].upload \in Uploads
  BY DEF SuccessInv, Known, RequestsKnow, Early
<1> HIDE DEF me
<1>5. HasStored(me, rows', found')
  BY <1>2 DEF HasStored, Asked, Transaction
<1>6. ParsedAreStored(uploads', rows', found')
  BY ParsedStayStored
<1> QED BY <1>1, <1>2, <1>3, <1>4, <1>5, <1>6, OneStores DEF Early, Fresh

LEMMA IngestStores ==
    ASSUME Known, SuccessInv, NEW r \in Requests, Ingest(r)
    PROVE  SuccessInv'
<1>1. uploads \in [Uploads -> Upload] /\ r \in Uploads
  BY DEF Known, TypeOK, Uploads
<1>2. CASE Save(r)
  <2>1. /\ UNCHANGED <<rows, found, uploads>> /\ Goto(r, "stored") /\ req[r].pc = "save"
    BY <1>2 DEF Save, At
  <2> QED BY <2>1, StandingGrows, GoingStores DEF Early
<1>3. CASE MarkRawStored(r)
  <2>1. /\ UNCHANGED <<rows, found>> /\ Goto(r, "parse") /\ req[r].pc = "stored"
        /\ uploads' = [uploads EXCEPT ![r].raw = TRUE]
    BY <1>3 DEF MarkRawStored, At
  <2>2. \A u \in Uploads : uploads'[u].file = uploads[u].file
                           /\ uploads'[u].status = uploads[u].status
    BY <1>1, <2>1 DEF Upload
  <2>3. \A u \in Uploads \ {r} : uploads'[u] = uploads[u]
    BY <1>1, <2>1
  <2> QED BY <2>1, <2>2, <2>3, StandingGrows, GoingStores DEF Early
<1> QED BY <1>2, <1>3, LookupStores, InsertStores DEF Ingest

LEMMA FinishStores ==
    ASSUME Known, SuccessInv, NEW r \in Requests, ParseGpx(r) \/ Finish(r)
    PROVE  SuccessInv'
<1>1. /\ req[r] \in Request /\ req \in [Requests -> Request]
      /\ uploads \in [Uploads -> Upload] /\ r \in Uploads
  BY DEF Known, TypeOK, Uploads
<1>2. req[r].pc \in {"parse", "finds", "parsed"}
  BY DEF ParseGpx, Finish, RecordFinds, MarkParsed, At
<1>3. /\ req[r].file \in Files /\ req[r].upload \in Uploads
      /\ uploads[req[r].upload].file = req[r].file
      /\ HasStored(req[r], rows, found)
  BY <1>2 DEF Known, RequestsKnow, KnowsItsFile, SuccessInv, Early
<1>4. CASE ParseGpx(r)
  <2>1. UNCHANGED <<rows, found>> /\ Grows
    BY <1>4, StandingGrows DEF ParseGpx
  <2>2. CASE /\ uploads' = [uploads EXCEPT ![req[r].upload].status = "failed"]
             /\ Fail(r)
    <3>1. \A u \in Uploads :
             /\ uploads'[u].file = uploads[u].file
             /\ uploads'[u].raw = uploads[u].raw
             /\ uploads'[u].status = "parsed" => uploads[u].status = "parsed"
      BY <1>1, <1>3, <2>2 DEF Upload
    <3> QED BY <2>1, <2>2, <3>1, FailingStores
  <2>3. CASE UNCHANGED uploads /\ Goto(r, "read")
    BY <1>2, <2>1, <2>3, GoingStores DEF Early
  <2>4. CASE UNCHANGED uploads /\ Goto(r, "finds") /\ Batch(req[r].file) = {}
    <3>1. Stored(req[r].file, rows')
      BY <2>4 DEF Stored
    <3> QED BY <1>2, <2>1, <2>4, <3>1, GoingStores DEF Early
  <2> QED BY <1>4, <2>2, <2>3, <2>4 DEF ParseGpx
<1>5. CASE RecordFinds(r)
  <2>1. /\ UNCHANGED <<rows, uploads>> /\ Goto(r, "parsed") /\ req[r].pc = "finds"
        /\ found' = IF ShouldMarkFound(r) THEN found \cup Batch(req[r].file) ELSE found
    BY <1>5 DEF RecordFinds, At
  <2>2. /\ Grows /\ Recorded(req[r].file, found')
        /\ req[r].markAsFound => Batch(req[r].file) \subseteq found'
    BY <2>1 DEF ShouldMarkFound, Grows, Recorded
  <2>3. Stored(req[r].file, rows')
    BY <1>3, <2>1 DEF HasStored
  <2>4. \A u \in Uploads : uploads'[u] = uploads[u]
    BY <2>1
  <2> QED BY <2>1, <2>2, <2>3, <2>4, GoingStores DEF Early
<1>6. CASE MarkParsed(r)
  <2>1. /\ UNCHANGED <<rows, found>> /\ Succeed(r, FALSE) /\ req[r].pc = "parsed" /\ Grows
        /\ uploads' = [uploads EXCEPT ![req[r].upload].status = "parsed"]
    BY <1>6, StandingGrows DEF MarkParsed, At
  <2> DEFINE me == [Unused EXCEPT !.pc = "done", !.file = req[r].file,
                                  !.markAsFound = req[r].markAsFound, !.duplicate = FALSE]
  <2>2. /\ me.pc = "done" /\ me.file = req[r].file /\ me.upload = None
        /\ me.markAsFound = req[r].markAsFound
    BY DEF Unused
  <2>3. req' = [req EXCEPT ![r] = me]
    BY <2>1 DEF Succeed
  <2> HIDE DEF me
  <2>4. /\ Stored(req[r].file, rows') /\ Recorded(req[r].file, found')
        /\ req[r].markAsFound => Batch(req[r].file) \subseteq found'
    BY <1>3, <2>1 DEF HasStored, Asked
  <2>5. HasStored(me, rows', found')
    BY <2>2, <2>4 DEF HasStored, Asked, Transaction
  <2>6. \A u \in Uploads :
           /\ uploads'[u].file = uploads[u].file
           /\ uploads'[u].raw = uploads[u].raw
           /\ u # req[r].upload => uploads'[u].status = uploads[u].status
    BY <1>1, <1>3, <2>1 DEF Upload
  <2>7. ParsedAreStored(uploads', rows', found')
    BY <1>3, <2>1, <2>4, <2>6, ParsedStayStored
  <2> QED BY <1>1, <2>1, <2>2, <2>3, <2>5, <2>6, <2>7, OneStores DEF Early, Fresh
<1> QED BY <1>4, <1>5, <1>6 DEF Finish

\* The loop has come to the end of the file, and so past every cache.
LEMMA LoopCovers ==
    ASSUME NEW f \in Files, NEW R, NEW mine, NEW next \in Nat,
           next = Len(File[f].caches) + 1,
           \A i \in 1..Len(File[f].caches) :
               i < next => mine[File[f].caches[i]] # None \/ R[File[f].caches[i]] # None
    PROVE  \A c \in Batch(f) : mine[c] # None \/ R[c] # None
<1>1. File[f].caches \in Seq(Codes) /\ Len(File[f].caches) \in Nat
  BY FilesAreTyped
<1>2. Batch(f) = {File[f].caches[i] : i \in 1..Len(File[f].caches)}
  BY <1>1 DEF Batch, ToSet
<1> SUFFICES ASSUME NEW c \in Batch(f) PROVE mine[c] # None \/ R[c] # None
  OBVIOUS
<1>3. PICK i \in 1..Len(File[f].caches) : c = File[f].caches[i]
  BY <1>2
<1>4. i < next
  BY <1>1
<1> QED BY <1>3, <1>4

\* The loop goes on: its cache has a row, of the table or its own.
LEMMA LoopStores ==
    ASSUME Known, SuccessInv, NEW r \in Requests, At(r, "upsert"), UNCHANGED <<rows, found, uploads>>,
           NEW me, req' = [req EXCEPT ![r] = me],
           me.pc = IF IsLast(r) THEN "waypoints" ELSE "upsert",
           me.file = req[r].file, me.upload = req[r].upload, me.next = req[r].next + 1,
           me.existing = req[r].existing,
           \A c \in Codes : req[r].mine[c] # None => me.mine[c] # None,
           me.mine[Current(r)] # None \/ rows[Current(r)] # None
    PROVE  SuccessInv'
<1> DEFINE f == req[r].file
           n == req[r].next
<1>1. /\ f \in Files /\ n \in 1..Len(File[f].caches)
      /\ HasStored(req[r], rows, found) /\ req[r].pc = "upsert"
      /\ uploads[req[r].upload].file = f
  BY DEF Known, RequestsKnow, KnowsItsFile, At, SuccessInv, Early
<1>2. /\ Len(File[f].caches) \in Nat /\ Batch(f) \subseteq Codes
      /\ \A i \in 1..Len(File[f].caches) : File[f].caches[i] \in Batch(f)
  BY <1>1, FilesAreTyped, BatchIsTyped
<1>3. \A i \in 1..Len(File[f].caches) :
         i < n + 1 => me.mine[File[f].caches[i]] # None \/ rows[File[f].caches[i]] # None
  <2> SUFFICES ASSUME NEW i \in 1..Len(File[f].caches), i < n + 1
               PROVE  me.mine[File[f].caches[i]] # None \/ rows[File[f].caches[i]] # None
    OBVIOUS
  <2>1. CASE i = n
    BY <2>1 DEF Current
  <2>2. CASE i < n
    BY <1>1, <1>2, <2>2 DEF HasStored
  <2> QED BY <1>1, <1>2, <2>1, <2>2
<1>4. \A c \in Codes : req[r].existing[c] # None => rows[c] # None
  BY <1>1 DEF HasStored, Transaction
<1>5. me.pc = "waypoints" => \A c \in Batch(f) : me.mine[c] # None \/ rows[c] # None
  <2> SUFFICES ASSUME IsLast(r) PROVE \A c \in Batch(f) : me.mine[c] # None \/ rows[c] # None
    OBVIOUS
  <2>1. n + 1 = Len(File[f].caches) + 1 /\ n + 1 \in Nat
    BY <1>1, <1>2 DEF IsLast
  <2> QED BY <1>1, <1>3, <2>1, LoopCovers
<1>6. HasStored(me, rows', found')
  BY <1>3, <1>4, <1>5 DEF HasStored, Transaction
<1> QED BY <1>1, <1>6, StandingGrows, OneStoresQuietly DEF Early, Fresh

\* The transaction.
LEMMA UpsertStores ==
    ASSUME Known, SuccessInv, NEW r \in Requests, Upsert(r)
    PROVE  SuccessInv'
<1>1. req[r] \in Request /\ req \in [Requests -> Request]
  BY DEF Known, TypeOK
<1>2. UNCHANGED <<found, uploads>>
  BY DEF Upsert, ReadExisting, SkipStale, UpsertOne, ReplaceWaypoints, Commit
<1>3. req[r].pc \in {"read"} \cup Transaction
  BY DEF Upsert, ReadExisting, SkipStale, UpsertOne, ReplaceWaypoints, Commit, At, Transaction
<1>4. /\ KnowsItsFile(req[r]) /\ req[r].file \in Files
      /\ uploads[req[r].upload].file = req[r].file
      /\ HasStored(req[r], rows, found)
  BY <1>3 DEF Known, RequestsKnow, KnowsItsFile, SuccessInv, Early, Transaction
<1>5. CASE ReadExisting(r)
  <2>1. UNCHANGED rows /\ Grows /\ req[r].pc = "read"
    BY <1>2, <1>5, StandingGrows DEF ReadExisting, At
  <2> DEFINE existing == [c \in Codes |-> IF c \in Batch(req[r].file) THEN rows[c] ELSE None]
             pc == IF Batch(req[r].file) = {} THEN "waypoints" ELSE "upsert"
             me == [req[r] EXCEPT !.existing = existing, !.pc = pc]
  <2>2. \A c \in Codes : existing[c] # None => rows[c] # None
    OBVIOUS
  <2>3. pc \in {"waypoints", "upsert"} /\ (pc = "waypoints" => Batch(req[r].file) = {})
    OBVIOUS
  <2>4. req' = [req EXCEPT ![r] = me]
    BY <1>1, <1>5 DEF ReadExisting
  <2> HIDE DEF existing, pc
  <2>5. /\ me.pc = pc /\ me.upload = req[r].upload /\ me.file = req[r].file
        /\ me.existing = existing /\ me.next = req[r].next
    BY <1>1 DEF Request
  <2>6. req[r].next = 1
    BY <1>4, <2>1 DEF KnowsItsFile, Transaction
  <2> HIDE DEF me
  <2>7. \A i \in 1..Len(File[req[r].file].caches) : ~ i < 1
    BY <1>4, FilesAreTyped
  <2>8. HasStored(me, rows', found')
    BY <2>1, <2>2, <2>3, <2>5, <2>6, <2>7 DEF HasStored, Transaction
  <2> QED BY <1>2, <1>4, <2>1, <2>3, <2>4, <2>5, <2>8, OneStoresQuietly DEF Early, Fresh
<1>6. CASE SkipStale(r)
  <2>1. UNCHANGED rows /\ At(r, "upsert") /\ IsStale(r, Current(r))
    BY <1>6 DEF SkipStale
  <2> DEFINE pc == IF IsLast(r) THEN "waypoints" ELSE "upsert"
             me == [req[r] EXCEPT !.next = req[r].next + 1, !.pc = pc]
  <2>2. req' = [req EXCEPT ![r] = me]
    BY <1>1, <1>6 DEF SkipStale
  <2>3. /\ me.pc = pc /\ me.upload = req[r].upload /\ me.file = req[r].file
        /\ me.next = req[r].next + 1 /\ me.existing = req[r].existing
        /\ me.mine = req[r].mine
    BY <1>1 DEF Request
  <2> HIDE DEF me
  <2>4. rows[Current(r)] # None
    BY <1>4, <2>1, UpsertedIsTyped DEF IsStale, HasStored, Transaction, At
  <2> QED BY <1>2, <2>1, <2>2, <2>3, <2>4, LoopStores
<1>7. CASE UpsertOne(r)
  <2>1. UNCHANGED rows /\ At(r, "upsert")
    BY <1>7 DEF UpsertOne
  <2> DEFINE c == Current(r)
             pc == IF IsLast(r) THEN "waypoints" ELSE "upsert"
             mine == [req[r].mine EXCEPT ![c] = Upserted(r, c)]
             relocated == IF Relocates(r, c) THEN req[r].relocated \cup {c} ELSE req[r].relocated
             me == [req[r] EXCEPT !.mine = mine, !.relocated = relocated,
                                  !.next = req[r].next + 1, !.pc = pc]
  <2>2. c \in Codes /\ Upserted(r, c) # None /\ req[r].mine \in [Codes -> Cache \cup {None}]
    BY <1>1, <2>1, UpsertedIsTyped, GpxIngestAssumption DEF Request
  <2>3. mine[c] # None /\ \A d \in Codes : req[r].mine[d] # None => mine[d] # None
    BY <2>2
  <2>4. req' = [req EXCEPT ![r] = me]
    BY <1>1, <1>7 DEF UpsertOne
  <2> HIDE DEF mine, relocated
  <2>5. /\ me.pc = pc /\ me.upload = req[r].upload /\ me.file = req[r].file
        /\ me.next = req[r].next + 1 /\ me.existing = req[r].existing
        /\ me.mine = mine
    BY <1>1 DEF Request
  <2> HIDE DEF me
  <2> QED BY <1>2, <2>1, <2>3, <2>4, <2>5, LoopStores
<1>8. CASE ReplaceWaypoints(r)
  <2>1. UNCHANGED rows /\ Grows /\ req[r].pc = "waypoints"
    BY <1>2, <1>8, StandingGrows DEF ReplaceWaypoints, At
  <2> DEFINE matched == Matched(r)
             wiped == Wiped(r)
             seen == [c \in Codes |-> IF c \in matched \cup wiped THEN wpts[c] ELSE {}]
  <2>2. req' = [req EXCEPT ![r].matched = matched, ![r].wiped = wiped,
                           ![r].seen = seen, ![r].pc = "commit"]
    BY <1>8 DEF ReplaceWaypoints
  <2> HIDE DEF matched, wiped, seen
  <2> DEFINE me == [req[r] EXCEPT !.matched = matched, !.wiped = wiped,
                                  !.seen = seen, !.pc = "commit"]
  <2>3. req' = [req EXCEPT ![r] = me]
    BY <1>1, <2>2
  <2>4. /\ me.pc = "commit" /\ me.upload = req[r].upload /\ me.file = req[r].file
        /\ me.existing = req[r].existing /\ me.mine = req[r].mine
    BY <1>1 DEF Request
  <2> HIDE DEF me
  <2>5. HasStored(me, rows', found')
    BY <1>4, <2>1, <2>4 DEF HasStored, Transaction
  <2> QED BY <1>2, <1>4, <2>1, <2>3, <2>4, <2>5, OneStoresQuietly DEF Early, Fresh
<1>9. CASE Commit(r)
  <2>1. /\ req[r].pc = "commit"
        /\ rows' = [c \in Codes |-> IF c \in Locked(r) THEN req[r].mine[c] ELSE rows[c]]
    BY <1>9 DEF Commit, At
  <2>2. \A c \in Codes : req[r].mine[c] # None \/ rows[c] # None => rows'[c] # None
    BY <2>1 DEF Locked
  <2>3. Grows
    BY <1>2, <2>2 DEF Grows
  <2> DEFINE me == [Unused EXCEPT !.pc = "finds", !.file = req[r].file,
                                !.markAsFound = req[r].markAsFound, !.upload = req[r].upload]
  <2>4. me.pc = "finds" /\ me.upload = req[r].upload /\ me.file = req[r].file
    BY DEF Unused
  <2>5. req' = [req EXCEPT ![r] = me]
    BY <1>9 DEF Commit
  <2> HIDE DEF me
  <2>6. Stored(req[r].file, rows')
    BY <1>4, <2>1, <2>2, BatchIsTyped DEF HasStored, Stored
  <2>7. HasStored(me, rows', found')
    BY <2>4, <2>6 DEF HasStored, Transaction
  <2> QED BY <1>2, <1>4, <2>3, <2>4, <2>5, <2>7, OneStoresQuietly DEF Early, Fresh
<1> QED BY <1>5, <1>6, <1>7, <1>8, <1>9 DEF Upsert

LEMMA CrashStores ==
    ASSUME Known, SuccessInv, Crash
    PROVE  SuccessInv'
<1> DEFINE gone == [Unused EXCEPT !.pc = "failed"]
<1>1. gone.pc = "failed" /\ gone.upload = None
  BY DEF Unused
<1>2. req' = [r \in Requests |-> IF Running(r) THEN gone ELSE req[r]]
  BY DEF Crash
<1>3. UNCHANGED <<rows, found, uploads>> /\ Grows
  BY StandingGrows DEF Crash
<1> HIDE DEF gone
<1>4. ASSUME NEW r \in Requests
      PROVE  /\ HasStored(req'[r], rows', found')
             /\ req'[r].pc \notin Early => uploads'[req'[r].upload].file = req'[r].file
  <2>1. CASE Running(r)
    BY <1>1, <1>2, <2>1, BeforeStoring DEF Early
  <2>2. CASE ~Running(r)
    BY <1>2, <1>3, <2>2 DEF SuccessInv
  <2> QED BY <2>1, <2>2
<1>5. FreshUploads'
  <2> SUFFICES ASSUME NEW r \in Requests, req'[r].pc \in Fresh, NEW q \in Requests
               PROVE  ~uploads'[r].raw /\ req'[q].upload # r
    BY DEF FreshUploads
  <2>1. req[r].pc \in Fresh /\ r # None
    BY <1>1, <1>2, GpxIngestAssumption DEF Fresh
  <2> QED BY <1>1, <1>2, <1>3, <2>1 DEF SuccessInv, FreshUploads
<1>6. ParsedAreStored(uploads, rows, found)'
  BY <1>3 DEF SuccessInv, ParsedAreStored, Stored, Recorded
<1>7. \A r \in Requests :
          /\ HasStored(req[r], rows, found)'
          /\ (req[r].pc \notin Early => uploads[req[r].upload].file = req[r].file)'
  BY <1>4 DEF HasStored, Stored, Recorded
<1> QED BY <1>5, <1>6, <1>7 DEF SuccessInv

\* A removed coordinate leaves the row.
LEMMA ClearSolvedStores ==
    ASSUME Known, SuccessInv, NEW c \in Codes, ClearSolved(c)
    PROVE  SuccessInv'
<1>1. rows \in [Codes -> Cache \cup {None}] /\ rows[c] \in Cache
  BY DEF ClearSolved, Known, TypeOK
<1>2. Reverted(rows[c]) # None
  BY <1>1, RevertedIsTyped, GpxIngestAssumption
<1>3. UNCHANGED <<found, uploads, req>> /\ rows' = [rows EXCEPT ![c] = Reverted(rows[c])]
  BY DEF ClearSolved
<1>4. Grows
  BY <1>1, <1>2, <1>3 DEF Grows
<1>5. ParsedAreStored(uploads', rows', found')
  BY <1>3, <1>4, ParsedStayStored
<1>6. \A r \in Requests : HasStored(req[r], rows', found')
  BY <1>4, HasStoredStays DEF SuccessInv, Known, RequestsKnow
<1>7. \A r \in Requests :
          /\ HasStored(req[r], rows, found)'
          /\ (req[r].pc \notin Early => uploads[req[r].upload].file = req[r].file)'
  BY <1>3, <1>6 DEF HasStored, Stored, Recorded, SuccessInv
<1>8. ParsedAreStored(uploads, rows, found)' /\ FreshUploads'
  BY <1>3, <1>5 DEF ParsedAreStored, Stored, Recorded, SuccessInv, FreshUploads
<1> QED BY <1>7, <1>8 DEF SuccessInv

LEMMA StepStores ==
    ASSUME Known, SuccessInv, [Next]_vars
    PROVE  SuccessInv'
<1>1. ASSUME NEW r \in Requests, NEW f \in Files, NEW opts \in Options[f], Post(r, f, opts)
      PROVE  SuccessInv'
  BY <1>1, StartingStores
<1>2. ASSUME NEW r \in Requests, NEW u \in Uploads, Reprocess(r, u) PROVE SuccessInv'
  BY <1>2, StartingStores
<1>3. ASSUME NEW r \in Requests, Serve(r) PROVE SuccessInv'
  <2>1. CASE DeadlockDetected(r)
    <3>1. Fail(r) /\ UNCHANGED <<rows, found, uploads>>
      BY <2>1 DEF DeadlockDetected
    <3> QED BY <3>1, FailingStores
  <2> QED BY <1>3, <2>1, IngestStores, FinishStores, UpsertStores DEF Serve
<1>4. ASSUME NEW r \in Requests, StepFails(r) PROVE SuccessInv'
  <2>1. Fail(r) /\ UNCHANGED <<rows, found, uploads>>
    BY <1>4 DEF StepFails
  <2> QED BY <2>1, FailingStores
<1>5. ASSUME UNCHANGED <<rows, found, uploads, req>> PROVE SuccessInv'
  BY <1>5 DEF SuccessInv, HasStored, Stored, Recorded, ParsedAreStored, FreshUploads
<1>6. ASSUME NEW c \in Codes, Warm(c) PROVE SuccessInv'
  BY <1>5, <1>6 DEF Warm
<1>7. CASE UNCHANGED vars
  BY <1>5, <1>7 DEF vars
<1> QED BY <1>1, <1>2, <1>3, <1>4, <1>6, <1>7, CrashStores, ClearSolvedStores DEF Next

LEMMA InitStores == Init => SuccessInv
<1> SUFFICES ASSUME Init PROVE SuccessInv
  OBVIOUS
<1>1. PICK before \in {f \in Files : File[f].valid} \cup {None} :
        /\ rows = [c \in Codes |->
                      IF c \in (IF before = None THEN {} ELSE Batch(before))
                      THEN Inserted(before, c, File[before].corrected) ELSE None]
        /\ found = IF before # None /\ File[before].finds
                   THEN (IF before = None THEN {} ELSE Batch(before)) ELSE {}
        /\ uploads = [u \in Uploads |->
                         IF u = before
                         THEN [status |-> "parsed", file |-> u, raw |-> TRUE]
                         ELSE [status |-> "none", file |-> None, raw |-> FALSE]]
        /\ req = [r \in Requests |-> Unused]
  BY DEF Init
<1>2. \A r \in Requests : req[r].pc = "unused" /\ req[r].upload = None
  BY <1>1 DEF Unused
<1>3. ASSUME NEW u \in Uploads, uploads[u].status = "parsed"
      PROVE  /\ uploads[u].file \in Files
             /\ Stored(uploads[u].file, rows) /\ Recorded(uploads[u].file, found)
  <2>1. u = before /\ uploads[u].file = before
    BY <1>1, <1>3
  <2>2. before \in Files /\ before # None
    BY <1>1, <2>1, GpxIngestAssumption DEF Uploads
  <2>3. \A c \in Batch(before) : c \in Codes /\ rows[c] # None
    BY <1>1, <2>2, BatchIsTyped, InsertedIsSound, FilesAreTyped, GpxIngestAssumption
  <2>4. File[before].finds => found = Batch(before)
    BY <1>1, <2>2
  <2> QED BY <2>1, <2>2, <2>3, <2>4 DEF Stored, Recorded
<1>4. FreshUploads
  <2> SUFFICES ASSUME NEW r \in Requests, NEW q \in Requests
               PROVE  ~uploads[r].raw /\ req[q].upload # r
    BY DEF FreshUploads
  <2>1. r \in Uploads /\ r # before /\ r # None
    BY <1>1, GpxIngestAssumption DEF Uploads
  <2> QED BY <1>1, <1>2, <2>1
<1>5. \A r \in Requests : HasStored(req[r], rows, found) /\ req[r].pc \in Early
  BY <1>2, BeforeStoring DEF Early
<1> QED BY <1>3, <1>4, <1>5 DEF SuccessInv, ParsedAreStored

\* What a request reports as stored is stored, and stays so: its own work,
\* or, where it is answered as a duplicate, that of whoever parsed the file.
\* The finds asked for with a request are recorded by its own work only.
THEOREM SuccessIsStored == Spec => []SuccessMeansStored
<1>1. Known /\ SuccessInv /\ [Next]_vars => SuccessInv'
  BY StepStores
<1>2. Known /\ SuccessInv => SuccessMeansStored
  <2> SUFFICES ASSUME SuccessInv, NEW r \in Requests, At(r, "done")
               PROVE  /\ \A c \in Batch(req[r].file) : rows[c] # None
                      /\ File[req[r].file].finds \/ (req[r].markAsFound /\ ~req[r].duplicate)
                            => Batch(req[r].file) \subseteq found
    BY DEF SuccessMeansStored
  <2>1. HasStored(req[r], rows, found) /\ req[r].pc = "done"
    BY DEF SuccessInv, At
  <2> QED BY <2>1 DEF HasStored, Stored, Recorded, Asked
<1>3. Known /\ [Next]_vars => Known'
  BY StepKeepsKnown
<1> QED BY <1>1, <1>2, <1>3, InitIsKnown, InitStores, PTL DEF Spec

=============================================================================

------------------------------ MODULE GpxParse ------------------------------
(***************************************************************************)
(* parseGpx (packages/shared/src/gpx): the caches, additional waypoints    *)
(* and age that are read from a GPX document, and the rows that are        *)
(* skipped.                                                                *)
(*                                                                         *)
(* A document is what the XML parser makes of a file: its name and time,   *)
(* and a sequence of `wpt` rows.  A text that is only searched (a name of  *)
(* a document, a `sym`) is the set of the words looked for in it; a row's  *)
(* name is given by what is looked for in that.  The XML parser reads a    *)
(* name of digits as a number, so that it has no leading zeros.  Ratings,  *)
(* notes and the scan of the description are left out.                     *)
(***************************************************************************)
EXTENDS Naturals, Sequences, SequencesExt

CONSTANTS
    None,            \* null, and what is missing in the document
    TicksPerMilli    \* precision of a time stamp: ticks in a millisecond

\* toISOString has milliseconds; what is no date is None in the document.
NormalizeTimestamp(raw) == IF raw = None THEN None ELSE raw \div TicksPerMilli

IsMyFinds(name) == name # None /\ "my finds" \in name

----------------------------------------------------------------------------
(* Rows *)

HasCoordinates(w) == w.lat # None /\ w.lon # None

\* A row without a <name> has the empty one.
Blank == [text |-> "", prefix |-> "", gc |-> None, suffix |-> None]
WptName(w) == IF w.name = None THEN Blank ELSE w.name
WptSym(w) == IF w.sym = None THEN {} ELSE w.sym

\* The kinds of waypoint in the order they are looked for.
Kinds == <<"parking", "trailhead", "reference", "stages", "final", "question">>
PrefixOf == [parking |-> "PK", trailhead |-> "TH", reference |-> "RP",
             stages |-> "ST", final |-> "FN", question |-> "QA"]

\* The <sym> decides, and only then the first two characters of the name.
ClassifyWaypoint(sym, name) ==
    LET bySym == SelectSeq(Kinds, LAMBDA k : k \in sym)
        byName == SelectSeq(Kinds, LAMBDA k : PrefixOf[k] = name.prefix)
    IN  IF bySym \o byName = <<>> THEN None ELSE Head(bySym \o byName)

\* The code that is inside the name, or that follows two characters of it.
ExtractParentCode(name) ==
    IF name.gc # None THEN name.gc
    ELSE IF name.suffix # None THEN name.suffix ELSE name.text

ParsedWaypoint(w) ==
    [parentCode |-> ExtractParentCode(WptName(w)),
     type |-> ClassifyWaypoint(WptSym(w), WptName(w)),
     location |-> <<w.lon, w.lat>>]

----------------------------------------------------------------------------
(* Caches *)

\* Of a url under labs.geocaching.com/goto, the segment as it is and in lower
\* case: a GUID has one spelling, a slug keeps its own.
ExtractAdventureId(url) ==
    IF url = None THEN None ELSE IF url.isGuid THEN url.lower ELSE url.segment

\* S{n} of the urlname, and the total of the lab2gpx extension.
ExtractStageInfo(w) == [stageSequence |-> w.stage, stageTotal |-> w.total]

\* By the word a type begins with.
TypeByWord ==
    [traditional |-> "Traditional", multi |-> "Multi", unknown |-> "Mystery",
     mystery |-> "Mystery", puzzle |-> "Mystery", letterbox |-> "Letterbox",
     earth |-> "EarthCache", event |-> "Event", virtual |-> "Virtual",
     webcam |-> "Webcam", wherigo |-> "Wherigo", cito |-> "CITO",
     lab |-> "Adventure Lab", adventure |-> "Adventure Lab"]
NormalizeCacheType(word) ==
    IF word = None THEN None
    ELSE IF word \in DOMAIN TypeByWord THEN TypeByWord[word] ELSE "Other"

\* The marks of the document: an absent `available` counts as true.
IsAvailable(gs) == gs.available = None \/ gs.available
IsArchived(gs) == gs.archived # None /\ gs.archived

Attributes(listed) ==
    LET parsed == [i \in DOMAIN listed |-> [id |-> listed[i].id, positive |-> listed[i].inc # 0]]
    IN  SelectSeq(parsed, LAMBDA a : a.id > 0)

\* Only a stage with an adventure id is sequential or not.
ParsedCache(w) ==
    LET gs == w.cache
        adventure == ExtractAdventureId(w.url)
        type == NormalizeCacheType(gs.type)
    IN  [code |-> WptName(w).text,
         type |-> IF type = None THEN "Other" ELSE type,
         name |-> IF gs.title = None THEN WptName(w).text ELSE gs.title,
         location |-> <<w.lon, w.lat>>,
         archived |-> IsArchived(gs),
         disabled |-> ~IsAvailable(gs) /\ ~IsArchived(gs),
         attributes |-> Attributes(gs.attributes),
         adventureId |-> adventure,
         stageSequence |-> ExtractStageInfo(w).stageSequence,
         stageTotal |-> ExtractStageInfo(w).stageTotal,
         adventureSequential |-> IF adventure = None THEN None ELSE gs.linear,
         found |-> "found" \in WptSym(w)]

----------------------------------------------------------------------------

IsCache(w) ==
    /\ HasCoordinates(w)
    /\ w.cache # None
    /\ WptName(w).text # ""

IsWaypoint(w) ==
    /\ HasCoordinates(w)
    /\ w.cache = None
    /\ ClassifyWaypoint(WptSym(w), WptName(w)) # None

\* A row is skipped with a warning; a cache without a type only warned about.
IsWarnedOf(w) ==
    IF IsCache(w) THEN w.cache.type = None ELSE ~IsWaypoint(w)

ParsedGpx(doc) ==
    LET caches == SelectSeq(doc.wpts, IsCache)
        waypoints == SelectSeq(doc.wpts, IsWaypoint)
    IN  [caches |-> [i \in DOMAIN caches |-> ParsedCache(caches[i])],
         waypoints |-> [i \in DOMAIN waypoints |-> ParsedWaypoint(waypoints[i])],
         warnings |-> Len(SelectSeq(doc.wpts, IsWarnedOf)),
         exportedAt |-> NormalizeTimestamp(doc.time),
         isMyFinds |-> IsMyFinds(doc.name)]

=============================================================================

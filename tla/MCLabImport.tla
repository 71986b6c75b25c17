---------------------------- MODULE MCLabImport ----------------------------
(***************************************************************************)
(* Constants of LabImport for TLC: the first stages of two adventures with *)
(* one title, as GpxParse reads the rows Lab2Gpx has for them.             *)
(***************************************************************************)
EXTENDS LabImport

CONSTANTS a, b, A, B

\* A's owner has chosen a slug, B goes by its GUID.
Row(s, place, url) ==
    [lat |-> place, lon |-> place, sym |-> None, url |-> url, stage |-> 1, total |-> None,
     name |-> [text |-> s, prefix |-> "LC", gc |-> None, suffix |-> None],
     cache |-> [type |-> "lab", title |-> "same title", linear |-> FALSE, archived |-> None,
                available |-> None, attributes |-> <<>>]]
StageA == ParsedCache(Row(a, 1, [segment |-> A, lower |-> None, isGuid |-> FALSE]))
StageB == ParsedCache(Row(b, 2, [segment |-> None, lower |-> B, isGuid |-> TRUE]))

\* (Apart, so that TLC works them out once.)
AdventureA == StageA.adventureId
AdventureB == StageB.adventureId
SequenceA == StageA.stageSequence
SequenceB == StageB.stageSequence
TitleA == StageA.name
TitleB == StageB.name

MCStages == {a, b}
MCAdventureOf == [s \in MCStages |-> IF s = b THEN AdventureB ELSE AdventureA]
MCSequenceOf == [s \in MCStages |-> IF s = b THEN SequenceB ELSE SequenceA]
MCPlaceOf == [s \in MCStages |-> IF s = b THEN 2 ELSE 1]
MCTitleOf == [s \in MCStages |-> IF s = b THEN TitleB ELSE TitleA]
MCAreas == {{A}, {A, B}}
MCFiles == {{a, b}}
MCJobs == {1, 2}
MCNameOf == <<"sync", "backfill">>

=============================================================================

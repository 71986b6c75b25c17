----------------------------- MODULE MCGpxIngest -----------------------------
(***************************************************************************)
(* Constants of GpxIngest for TLC: five documents and what the parser      *)
(* reads from them.                                                        *)
(***************************************************************************)
EXTENDS GpxIngest

Name(text, prefix, gc, suffix) ==
    [text |-> text, prefix |-> prefix, gc |-> gc, suffix |-> suffix]

NoCache == [type |-> None, title |-> None, linear |-> FALSE, archived |-> None,
            available |-> None, attributes |-> <<>>]
Listing(type) == [NoCache EXCEPT !.type = type]

\* The places of the model have one coordinate for both.
Row(name, place, cache, sym) ==
    [lat |-> place, lon |-> place, name |-> name, sym |-> sym, url |-> None,
     stage |-> None, total |-> None, cache |-> cache]

Geocache(code, place) == Row(Name(code, "GC", code, None), place, Listing("traditional"), None)
Companion(name, sym) == Row(name, "s", None, sym)

\* Rows the parser skips: no latitude, no name, and nothing to tell its kind.
Skipped == <<[Geocache("B", "q") EXCEPT !.lat = None],
             [Geocache("B", "q") EXCEPT !.name = None],
             Companion(Name("GCB", "GC", "B", None), {})>>

\* "old" and "new" are two exports that list two caches in opposite orders,
\* one of which moved in between; "solved" corrects its coordinate; "wpts"
\* is the companion file without caches, and "broken" does not parse.
Document(f) ==
    CASE f = "old" -> [name |-> {}, time |-> 19,
                       wpts |-> <<Geocache("A", "p")>> \o Skipped \o <<Geocache("B", "p")>>]
      [] f = "new" -> [name |-> {"my finds"}, time |-> 21,
                       wpts |-> <<Geocache("B", "p"), Companion(Name("PKA", "PK", None, "A"), None),
                                  Geocache("A", "q")>>]
      [] f = "solved" -> [name |-> None, time |-> None, wpts |-> <<Geocache("A", "s")>>]
      [] f = "wpts" -> [name |-> None, time |-> None,
                        wpts |-> Skipped \o <<Companion(Name("PK A", "PK", "A", None), {"final"})>>]

Unreadable == [caches |-> <<>>, waypoints |-> <<>>, exportedAt |-> None, isMyFinds |-> FALSE]

\* Where a file has a cache; of one it does not list, nobody asks.
PlaceIn(gpx, code) ==
    LET mine == SelectSeq(gpx.caches, LAMBDA k : k.code = code)
    IN  IF mine = <<>> THEN "s" ELSE Last(mine).location[1]

Reading(f, gpx) ==
    [caches |-> [i \in DOMAIN gpx.caches |-> gpx.caches[i].code] \o <<>>,
     at |-> [A |-> PlaceIn(gpx, "A"), B |-> PlaceIn(gpx, "B")],
     wpts |-> {w.parentCode : w \in ToSet(gpx.waypoints)},
     exported |-> gpx.exportedAt,
     valid |-> gpx # Unreadable,
     corrected |-> f = "solved",
     finds |-> gpx.isMyFinds]

Parse(f) == Reading(f, ParsedGpx(Document(f)))

Exports ==
    [old |-> Parse("old"), new |-> Parse("new"), solved |-> Parse("solved"),
     wpts |-> Parse("wpts"), broken |-> Reading("broken", Unreadable)]

Tick(force, markAsFound, solvedCoordinates) ==
    [force |-> force, markAsFound |-> markAsFound, solvedCoordinates |-> solvedCoordinates]

\* Finds are asked for with the regular pocket query; the solved coordinates
\* may be forgotten, and asked for when the file is uploaded again.
OptionsTicked ==
    [old |-> {Tick(force, mark, FALSE) : force, mark \in BOOLEAN},
     new |-> {Tick(force, FALSE, FALSE) : force \in BOOLEAN},
     solved |-> {Tick(FALSE, FALSE, FALSE), Tick(FALSE, FALSE, TRUE), Tick(TRUE, FALSE, TRUE)},
     wpts |-> {Tick(force, FALSE, FALSE) : force \in BOOLEAN},
     broken |-> {Tick(FALSE, FALSE, FALSE)}]

\* (TLC keeps the value of Exports, and works out a replacement every time.)
TwoExports == Exports

=============================================================================

----------------------------- MODULE RouteLegs -----------------------------
(***************************************************************************)
(* The route_legs table: one row per ordered pair of caches, holding what  *)
(* OSRM said about walking from the first to the second.  The module gives *)
(* the statements RoutingRepository runs against the table as operators    *)
(* from a table to a table.                                                *)
(*                                                                         *)
(* A row's meters and seconds are determined by the question OSRM was      *)
(* asked: which extract answered, and for which two coordinates.  That     *)
(* question stands for the figures, so that a row can be compared with the *)
(* question it ought to answer.  There is one profile, "foot".             *)
(***************************************************************************)
EXTENDS Integers, FiniteSets

CONSTANTS
    Caches,     \* cache ids
    Locations,  \* coordinates far enough apart (50 m) that moving from one to
                \* another relocates a cache and makes a "short" leg suspicious
    Versions,   \* identifiers of OSRM extracts
    Answer,     \* what an extract answers for two coordinates
    None        \* SQL NULL, a missing row, a stopped engine

Pairs == {p \in Caches \X Caches : p[1] # p[2]}

\* <<extract, from, to>>: the question that (meters, seconds) answer.
Figure == Versions \X Locations \X Locations

\* "short" is a distance near zero between distinct coordinates,
\* "impossible" one that no walker's speed explains.
Outcome == {"leg", "short", "impossible", "noroute"}

Row ==
    [source : {"table", "route"}, version : Versions, figure : Figure]
        \cup [source : {"noroute"}, version : Versions, figure : {None}]

Table == [Pairs -> Row \cup {None}]

ASSUME RouteLegsAssumption ==
    /\ Caches \subseteq Nat
    /\ IsFiniteSet(Caches)
    /\ Locations \subseteq Int
    /\ Answer \in [Figure -> Outcome]
    /\ None \notin Row \cup Figure \cup Locations \cup Versions

----------------------------------------------------------------------------

IsImpossibleSpeed(figure) == Answer[figure] = "impossible"

StoredAt(legs, p, version) == legs[p] # None /\ legs[p].version = version

\* findLegs: rows that carry a geometry.
FindLegs(legs, pairs, version) ==
    {p \in pairs : StoredAt(legs, p, version) /\ legs[p].source = "route"}

\* findMatrixCells: rows of any source, noroute markers included.
FindMatrixCells(legs, pairs, version) ==
    {p \in pairs : StoredAt(legs, p, version)}

\* upsertLegs: ON CONFLICT DO UPDATE, whatever the stored row is.
UpsertLegs(legs, cells, version) ==
    [p \in Pairs |->
        IF cells[p] # None /\ ~IsImpossibleSpeed(cells[p])
        THEN [source |-> "route", version |-> version, figure |-> cells[p]]
        ELSE legs[p]]

\* Mutant: DO UPDATE without its WHERE.
UpsertMatrixCellsAlways(legs, cells, version) ==
    [p \in Pairs |->
        IF cells[p] # None /\ ~IsImpossibleSpeed(cells[p])
        THEN [source |-> "table", version |-> version, figure |-> cells[p]]
        ELSE legs[p]]

\* upsertMatrixCells: DO UPDATE ... WHERE osrm_version <> excluded.osrm_version.
UpsertMatrixCells(legs, cells, version) ==
    [p \in Pairs |->
        IF /\ cells[p] # None
           /\ ~IsImpossibleSpeed(cells[p])
           /\ ~StoredAt(legs, p, version)
        THEN [source |-> "table", version |-> version, figure |-> cells[p]]
        ELSE legs[p]]

\* upsertNorouteCells: the same guard, with NULL figures.
UpsertNorouteCells(legs, noroutes, version) ==
    [p \in Pairs |->
        IF p \in noroutes /\ ~StoredAt(legs, p, version)
        THEN [source |-> "noroute", version |-> version, figure |-> None]
        ELSE legs[p]]

\* The pairs an upsertMatrixCells or upsertLegs statement inserts values for.
Accepted(cells) ==
    {p \in Pairs : cells[p] # None /\ ~IsImpossibleSpeed(cells[p])}

\* Mutant: only the rows that start at one of the caches.
DeleteFrom(legs, ids) == [p \in Pairs |-> IF p[1] \in ids THEN None ELSE legs[p]]

\* DELETE ... WHERE from_cache_id IN (ids) OR to_cache_id IN (ids), and the
\* ON DELETE CASCADE of both foreign keys.
DeleteTouching(legs, ids) ==
    [p \in Pairs |-> IF p[1] \in ids \/ p[2] \in ids THEN None ELSE legs[p]]

\* deleteSuspiciousLegs: rows of this version with hardly any distance
\* between caches that are apart.
DeleteSuspiciousLegs(legs, pairs, version) ==
    [p \in Pairs |->
        IF /\ p \in pairs
           /\ StoredAt(legs, p, version)
           /\ legs[p].figure # None
           /\ Answer[legs[p].figure] = "short"
        THEN None
        ELSE legs[p]]

=============================================================================

--------------------------- MODULE RoutingService ---------------------------
(***************************************************************************)
(* The requests that read through route_legs: getLeg, which wants the      *)
(* geometry of one pair from OSRM /route, and getMatrix, which wants the   *)
(* figures of all ordered pairs of a set of caches from OSRM /table.  Both *)
(* read coordinates, version and stored rows in separate awaited calls,    *)
(* ask OSRM for what is missing, and store the answers.                    *)
(***************************************************************************)
EXTENDS CacheStore

CONSTANTS
    Requests,     \* bound: the requests of a behaviour
    RequestSets   \* the sets of caches a matrix is asked for

VARIABLE req      \* the local variables of each request

ASSUME RoutingServiceAssumption == RequestSets \subseteq SUBSET Caches

Request == [pc : {"unused", "version", "find", "osrm", "cells", "noroutes", "done"},
            kind : {"leg", "matrix"},
            wanted : SUBSET Pairs,
            coords : [Caches -> Locations \cup {None}],
            version : Versions \cup {None},
            missing : SUBSET Pairs,
            cells : [Pairs -> Figure \cup {None}],
            noroutes : SUBSET Pairs]

NoRequest == [pc |-> "unused", kind |-> "leg", wanted |-> {},
              coords |-> [c \in Caches |-> None], version |-> None,
              missing |-> {}, cells |-> [p \in Pairs |-> None], noroutes |-> {}]

Done == [NoRequest EXCEPT !.pc = "done"]

RequestTypeOK == req \in [Requests -> Request]

RequestInit == req = [r \in Requests |-> NoRequest]

----------------------------------------------------------------------------

\* coordMapOrThrow: every cache must exist and be the caller's.
ReadRequestCoords(r, kind, owner, ids, wanted) ==
    /\ req[r].pc = "unused"
    /\ ids # {}
    /\ \A c \in ids : c \in Present /\ Owner[c] = owner
    /\ req' = [req EXCEPT ![r].pc = "version", ![r].kind = kind,
                          ![r].wanted = wanted,
                          ![r].coords = CoordsFor(owner, ids)]
    /\ UNCHANGED storeVars

GetLeg(r, p) == ReadRequestCoords(r, "leg", Owner[p[1]], {p[1], p[2]}, {p})

GetMatrix(r, ids, owner) ==
    ReadRequestCoords(r, "matrix", owner, ids, Pairs \cap (ids \X ids))

ReadRequestVersion(r) ==
    /\ req[r].pc = "version"
    /\ req' = [req EXCEPT ![r].version = versionFile, ![r].pc = "find"]
    /\ UNCHANGED storeVars

\* findLegs only counts a row with a geometry; findMatrixCells any row.
FindStored(r) ==
    LET q == req[r]
        found == IF q.kind = "leg" THEN FindLegs(legs, q.wanted, q.version)
                                   ELSE FindMatrixCells(legs, q.wanted, q.version)
    IN  /\ q.pc = "find"
        /\ req' = [req EXCEPT ![r] = IF q.wanted \subseteq found THEN Done
                        ELSE [q EXCEPT !.missing = q.wanted \ found, !.pc = "osrm"]]
        /\ UNCHANGED storeVars

\* One OSRM call: the missing pair of a leg, or the missing pairs of a
\* matrix that start at o.
AskOsrm(r, o) ==
    LET q == req[r]
        asked == {p \in q.missing : p[1] = o}
        figure == [p \in Pairs |-> <<engine, q.coords[p[1]], q.coords[p[2]]>>]
        routed == {p \in asked : Answer[figure[p]] # "noroute"}
    IN  /\ q.pc = "osrm"
        /\ asked # {}
        /\ engine # None
        /\ req' = [req EXCEPT
                    ![r].cells = [p \in Pairs |-> IF p \in routed THEN figure[p]
                                                                  ELSE q.cells[p]],
                    ![r].noroutes = @ \cup (asked \ routed),
                    ![r].missing = @ \ asked,
                    ![r].pc = IF q.missing = asked THEN "cells" ELSE "osrm"]
        /\ UNCHANGED storeVars

\* The engine is down or the call times out: the request fails, and what
\* earlier calls answered is dropped with it.
OsrmFails(r) ==
    /\ req[r].pc = "osrm"
    /\ IF engine = None THEN UNCHANGED faults ELSE Inject("osrm")
    /\ req' = [req EXCEPT ![r] = Done]
    /\ UNCHANGED <<loc, legs, pstate, engine, versionFile, restarts>>

Exist(pairs) == \A p \in pairs : {p[1], p[2]} \subseteq Present

Stored(q) == IF q.kind = "leg" THEN UpsertLegs(legs, q.cells, q.version)
                               ELSE UpsertMatrixCells(legs, q.cells, q.version)

\* upsertLegs ends a getLeg (a pair without a route is answered, not
\* stored); upsertMatrixCells is the first of getMatrix's two statements.  A
\* cache that is gone fails the statement and the request.
StoreCells(r) ==
    LET q == req[r]
        ok == Exist(Accepted(q.cells))
    IN  /\ q.pc = "cells"
        /\ legs' = IF ok THEN Stored(q) ELSE legs
        /\ req' = [req EXCEPT ![r] = IF ok /\ q.kind = "matrix"
                                     THEN [q EXCEPT !.pc = "noroutes"] ELSE Done]
        /\ UNCHANGED <<loc, pstate, engine, versionFile, restarts, faults>>

StoreNoroutes(r) ==
    LET q == req[r]
    IN  /\ q.pc = "noroutes"
        /\ legs' = IF Exist(q.noroutes)
                   THEN UpsertNorouteCells(legs, q.noroutes, q.version) ELSE legs
        /\ req' = [req EXCEPT ![r] = Done]
        /\ UNCHANGED <<loc, pstate, engine, versionFile, restarts, faults>>

\* The process dies under its requests.
CrashRequests ==
    req' = [r \in Requests |-> IF req[r].pc = "unused" THEN req[r] ELSE Done]

\* A leg the user asks for, or one of the pairs of the clusters just found:
\* prefetchClusterLegs asks for all of them, four at a time, and swallows what
\* fails, so that any pair is asked for whenever a request is free.
AnyLeg(r) == \E p \in Pairs : GetLeg(r, p)

Serve(r) ==
    \/ AnyLeg(r)
    \/ \E ids \in RequestSets, owner \in Owners : GetMatrix(r, ids, owner)
    \/ ReadRequestVersion(r)
    \/ FindStored(r)
    \/ \E o \in Caches : AskOsrm(r, o)
    \/ OsrmFails(r)
    \/ StoreCells(r)
    \/ StoreNoroutes(r)

=============================================================================

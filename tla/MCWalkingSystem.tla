--------------------------- MODULE MCWalkingSystem ---------------------------
(***************************************************************************)
(* Values of the constants of WalkingSystem for TLC.                       *)
(***************************************************************************)
EXTENDS WalkingSystem

\* Every cache has the same owner, or cache 3 belongs to somebody else.
OneOwner == [c \in Caches |-> "alice"]
TwoOwners == [c \in Caches |-> IF c = 3 THEN "bob" ELSE "alice"]

\* OSRM routes between any two points.
AllRouted == [f \in Figure |-> "leg"]

\* Extract 1 has no route into point 2, extract 2 none into point 1.  The
\* distance out of 2 collapses, and 1 to 2 is walked at an impossible speed.
Mixed == [f \in Figure |->
            CASE <<f[1], f[3]>> \in {<<1, 2>>, <<2, 1>>} -> "noroute"
              [] <<f[1], f[3]>> \in {<<1, 1>>, <<2, 2>>} ->
                    IF f[2] = 2 THEN "short"
                    ELSE IF f[2] < f[3] THEN "impossible" ELSE "leg"]

AnyBatch == (SUBSET Caches) \ {{}}
Everything == {Caches}

\* What besides the first edit and its job has happened: a second edit, which
\* may move caches, a restart of OSRM, a request, a fault, a retrigger.
Happened ==
    {h \in {"edit", "restart", "request", "fault", "retrigger"} :
        \/ h = "edit"    /\ \A e \in EditIds : edits[e].status # "unused"
        \/ h = "restart" /\ restarts > 0
        \/ h = "request" /\ \E r \in Requests : req[r].pc # "unused"
        \/ h = "fault"   /\ faults > 0
        \/ h = "retrigger" /\ Cardinality({j \in JobIds : jobs[j].status # "unused"})
                                > Cardinality({e \in EditIds : edits[e].status = "done"})}

\* Bound: any two of these in one behaviour, a retrigger alone.
TwoAtMost == Cardinality(Happened) <= IF "retrigger" \in Happened THEN 1 ELSE 2

=============================================================================

---------------------------- MODULE LegLifecycle ----------------------------
(***************************************************************************)
(* What the readers of route_legs may rely on, whoever writes it: the      *)
(* abstract specification WalkingSystem implements.                        *)
(*                                                                         *)
(* Of an ordered pair of caches something is known or nothing is: the path *)
(* between them, their distance, or that there is no way, each under one   *)
(* extract version.  Knowledge is of caches that exist.  Within a version  *)
(* it only gets better, to a path; and a cache that is placed anew or      *)
(* disappears takes everything known about it away in the same step.  What *)
(* is learnt afterwards may still be about the place before.               *)
(***************************************************************************)
CONSTANTS Cache, Version, Null

VARIABLES
    place,   \* where a cache is, Null when there is none
    known    \* [grade, version] of a pair of caches, or Null

lifecycleVars == <<place, known>>

Pair == {p \in Cache \X Cache : p[1] # p[2]}

Grades == {"path", "distance", "nothing"}

Placed(p) == place[p[1]] # Null /\ place[p[2]] # Null

Init ==
    /\ place = [c \in Cache |-> Null]
    /\ known = [p \in Pair |-> Null]

\* One answer under one version, about pairs of which that version had
\* nothing, or no path yet.
Learn(version) ==
    /\ place' = place
    /\ \A p \in Pair :
          known'[p] # known[p] =>
              /\ Placed(p)
              /\ \E grade \in Grades : known'[p] = [grade |-> grade, version |-> version]
              /\ \/ known[p] = Null
                 \/ known[p].version # version
                 \/ known'[p].grade = "path"

\* Rows may be deleted at any time.
Forget ==
    /\ place' = place
    /\ \A p \in Pair : known'[p] \in {known[p], Null}

\* Whatever moves takes its legs along.
Relocate ==
    \A p \in Pair :
        IF place'[p[1]] = place[p[1]] /\ place'[p[2]] = place[p[2]]
        THEN known'[p] \in {known[p], Null}
        ELSE known'[p] = Null

Next == (\E version \in Version : Learn(version)) \/ Forget \/ Relocate

Spec == Init /\ [][Next]_lifecycleVars

=============================================================================

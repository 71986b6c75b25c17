---------------------------- MODULE ToursService ----------------------------
(***************************************************************************)
(* ToursService: the nearby stages a cluster is augmented with on the      *)
(* user's demand; which planner its request goes to, the stages an         *)
(* Adventure Lab is completed with before the solver sees it, the fallback *)
(* to the greedy planner when the solver does not answer, and the report   *)
(* of what was decided before either planner ran.                          *)
(***************************************************************************)
EXTENDS SolverPlanner

CONSTANTS
    Labs,        \* caches of type Adventure Lab
    Archived,    \* archived caches
    AugmentMax   \* AUGMENT_MAX_CACHES

\* The caches a request may come to be about: what it names, what is near,
\* and the stages of the adventures of either.
Candidates(r) ==
    LET named == r.ids \cup r.near
    IN  named \cup {c \in Owned : Adventure[c] \in {Adventure[d] : d \in named} \ {None}}

\* OSRM's matrix has a cell for every pair, and its routes have a geometry.
ASSUME ToursServiceAssumption ==
    /\ Sentinel \in Nat
    /\ None # "503"
    /\ \A r \in Requests :
          LET places == Candidates(r) \cup ParkingPlaces
          IN  /\ {"ids", "near", "walk", "preference"} \subseteq DOMAIN r
              /\ r.preference \in {"auto", "osm-parking", "osrm-nearest-road",
                                   "parking-waypoint", "user-supplied-point"}
              /\ IsFiniteSet(Candidates(r)) /\ Candidates(r) \subseteq Nat
              /\ Candidates(r) \cap ParkingPlaces = {}
              /\ \A c \in Candidates(r) : Stage[c] \in Nat
              /\ places \subseteq DOMAIN r.walk
              /\ \A a, b \in places :
                    /\ a # b => r.walk[a][b] \in Nat
                    /\ AreRoutes(Alternatives(r.walk, a, b)) /\ AreRoutes(Via(r.walk, a, b))

VARIABLES
    asked,       \* cacheIds of the request: the user's cluster
    strategy,    \* "augmenting", "undecided", "greedy" or "solver"
    preplan      \* preplanDrops

serviceVars == <<asked, strategy, preplan>>
allVars == <<vars, posedVars, serviceVars>>

ServiceInit ==
    /\ Init
    /\ SolverPlannerInit
    /\ asked = request.ids
    /\ strategy = IF request.near = {} THEN "undecided" ELSE "augmenting"
    /\ preplan = {}

\* partitionAdventuresByReachability: whether the walks join all the stages of
\* an adventure to the caches that were asked for.
Coheres(stages, candidates) ==
    stages \subseteq Component(walk, MaxLink, asked \cup candidates, asked)

----------------------------------------------------------------------------
(* augmentClusterWithLabs.  request.near holds the caches within the radius *)
(* that the owner has not found; none of them where the flag is off.        *)

Nearby == {c \in (request.near \cap Owned \cap Labs) \ Archived : c \notin asked}

\* By adventure, and a stage without one on its own.
Groups ==
    {{d \in Nearby : d = c \/ (Adventure[d] = Adventure[c] /\ Adventure[c] # None)} :
        c \in Nearby}
CohesiveGroups == {stages \in Groups : Coheres(stages, Nearby)}

\* Whole while they fit, the nearest first: they are at any distance.
Grown(ids, stages) ==
    IF Cardinality(ids) + Cardinality(stages) > AugmentMax THEN ids ELSE ids \cup stages
Augmentations ==
    {LET ids[k \in 0..Len(queue)] == IF k = 0 THEN asked ELSE Grown(ids[k - 1], queue[k])
     IN  ids[Len(queue)] : queue \in SetToSeqs(CohesiveGroups)}

\* The cluster keeps its caches where nothing is near, none of it is the
\* caller's, or getMatrix answers 404 for a cache of someone else.
AugmentClusterWithLabs ==
    /\ strategy = "augmenting"
    /\ strategy' = "undecided"
    /\ IF asked \subseteq Owned THEN asked' \in Augmentations ELSE UNCHANGED asked
    /\ request' = [request EXCEPT !.ids = asked']
    /\ UNCHANGED <<prep, phase, tour, lot, drops, trims, routed, legs, ordered, error,
                   solverVars, posedVars, preplan>>

\* TOUR_PLANNER, and FR-I16 where it says auto.
UsesSolver ==
    \/ request.mode = "solver"
    \/ request.mode = "auto" /\ asked \cap Owned \cap Labs # {}

PlanGreedy ==
    /\ strategy = "undecided"
    /\ ~UsesSolver
    /\ strategy' = "greedy"
    /\ UNCHANGED <<vars, posedVars, asked, preplan>>

----------------------------------------------------------------------------
(* expandForCompleteAdventures *)

Touched == {Adventure[c] : c \in asked \cap Owned} \ {None}

\* findAdventureStages: what the archive holds is not a stage any more.
StagesOf(adventure) == {c \in Owned \ Archived : Adventure[c] = adventure}
ByAdventure == {a \in Touched : StagesOf(a) # {}}

\* One adventure joins the candidates whole, or is reported, or (when parts
\* will do) keeps the stages that were asked for.
Admit(adventure, so) ==
    LET stages == StagesOf(adventure)
        reported(reason) ==
            [so EXCEPT !.drops = @ \cup {[id |-> c, reason |-> reason] : c \in stages}]
    IN  IF ~Coheres(stages, UNION {StagesOf(a) : a \in ByAdventure})
        THEN IF request.whole THEN reported("unreachable")
             ELSE [so EXCEPT !.ids = @ \cup (stages \cap asked)]
        ELSE IF Cardinality(so.ids) + Cardinality(stages) > AugmentMax
        THEN reported("candidate-cap")
        ELSE [so EXCEPT !.ids = @ \cup stages]

\* The adventures come in the order of the rows of a query without ORDER BY.
Expansions ==
    {LET so[k \in 0..Len(rows)] ==
             IF k = 0 THEN [ids |-> {c \in asked \cap Owned : Adventure[c] = None}, drops |-> {}]
             ELSE Admit(rows[k], so[k - 1])
     IN  so[Len(rows)] : rows \in SetToSeqs(ByAdventure)}

\* getMatrix answers 404 for a cache of someone else.
ExpandForCompleteAdventures ==
    /\ strategy = "undecided"
    /\ UsesSolver
    /\ strategy' = "solver"
    /\ IF Touched = {}
       THEN UNCHANGED <<request, preplan, phase, error>>
       ELSE IF ~(asked \subseteq Owned)
       THEN Fails("404") /\ UNCHANGED <<request, preplan>>
       ELSE \E so \in Expansions :
               /\ request' = [request EXCEPT !.ids = so.ids]
               /\ preplan' = so.drops
               /\ UNCHANGED <<phase, error>>
    /\ UNCHANGED <<prep, tour, lot, drops, trims, routed, legs, ordered, solverVars,
                   posedVars, asked>>

----------------------------------------------------------------------------

\* The solver did not answer: the greedy planner starts from the same input.
FallBack ==
    /\ strategy = "solver"
    /\ error = "503"
    /\ strategy' = "greedy"
    /\ phase' = "requested"
    /\ error' = None
    /\ prep' = [reps |-> <<>>, members |-> <<>>, dist |-> <<>>, unreachable |-> {}]
    /\ lot' = None
    /\ UNCHANGED <<request, tour, drops, trims, routed, legs, ordered, solverVars,
                   posedVars, asked, preplan>>

Greedy ==
    /\ strategy = "greedy"
    /\ PlannerStep \/ OsrmFails \/ SolverAborts
    /\ UNCHANGED <<posedVars, serviceVars>>

Solver ==
    /\ strategy = "solver"
    /\ SolverPlannerStep
    /\ UNCHANGED serviceVars

ServiceAnswered ==
    /\ phase \in {"done", "failed"}
    /\ error # "503"
    /\ UNCHANGED allVars

ServiceNext ==
    \/ AugmentClusterWithLabs
    \/ PlanGreedy
    \/ ExpandForCompleteAdventures
    \/ Greedy
    \/ Solver
    \/ SolverStep /\ UNCHANGED <<plannerVars, posedVars, serviceVars>>
    \/ FallBack
    \/ ServiceAnswered

ServiceSpec == ServiceInit /\ [][ServiceNext]_allVars

\* withPreplanDrops
WithPreplanDrops(planned) ==
    planned \cup {d \in preplan : d.id \notin {e.id : e \in planned}}

Reported ==
    WithPreplanDrops(IF strategy = "solver" THEN SolverDrops ELSE DroppedCaches)

----------------------------------------------------------------------------

\* "On the solver path every candidate the solver didn't visit is accounted
\* for": what was asked and is not archived, and every stage that was pulled
\* in for it, is a stop or is reported with one reason, through collapse,
\* trim, orphan drop and re-add, and after a fallback as well; the greedy
\* planner on its own owes that for the candidates within its cap.
EveryCandidateAnswered ==
    phase = "done" =>
        LET reported == {d.id : d \in Reported}
            owed == IF strategy = "solver" \/ CapTruncated = {}
                    THEN (asked \ Archived) \cup request.ids ELSE ToSet(Selected)
        IN  /\ owed \subseteq ToSet(ordered) \cup reported
            /\ ToSet(ordered) \cap reported = {}
            /\ IsInjective(ordered)
            /\ \A d, e \in Reported : d.id = e.id => d = e

WholeOnly(seq) ==
    Where(seq, LAMBDA c :
        Adventure[c] # None =>
            Len(StopsOf(seq, Adventure[c])) = Len(StopsOf(reps, Adventure[c])))

\* An adventure the solver kept whole stays whole: what the trim leaves of one
\* goes as well, unless fewer than two stops would remain, and the re-add
\* never breaks up a loop of whole adventures.
AdventuresStayWhole ==
    [][ (/\ request.whole /\ Atomic(answer)
         /\ phase \in {"mending", "reclaiming", "reclaim_solving"}
         /\ phase' \in {"reclaiming", "reclaim_solving", "expanding"})
            => \/ Atomic(tour')
               \/ phase = "mending" /\ Len(WholeOnly(tour)) < 2
               \/ phase # "mending" /\ ~Atomic(tour) ]_allVars

\* "Trimming reduces distance so it stays feasible": once the loop fits the
\* budget, dropping orphans and restoring units keeps it within, as long as no
\* walk is longer than the way round over a third place.
Detourless ==
    \A a, b, c \in ToSet(reps) \cup {lot} :
        LET m(x, y) == IF lot \in {x, y} THEN IF x = y THEN 0 ELSE walk[x][y] ELSE Direct(x, y)
        IN  m(a, c) <= Plus(m(a, b), m(b, c))

OnceInBudget ==
    [][ (/\ strategy = "solver"
         /\ phase \in {"mending", "reclaiming", "reclaim_solving"}
         /\ phase' \in {"reclaiming", "reclaim_solving", "expanding"}
         /\ Detourless
         /\ ClosedLoop(dist, walk, lot, tour) <= request.budget)
            => ClosedLoop(dist, walk, lot, tour') <= request.budget ]_allVars

=============================================================================

---------------------------- MODULE SolverPlanner ----------------------------
(***************************************************************************)
(* SolverTourPlanner.planLoop: the planner for candidates with Adventure   *)
(* Lab stages.  It prepares the matrix as the greedy planner does, chooses *)
(* parking before the tour is known, poses the problem to the Timefold     *)
(* service, and mends its answer: trim the marginal stops, drop the rest   *)
(* of an adventure the trim broke, and put back, a whole adventure at a    *)
(* time, what the budget turned out to have room for.                      *)
(*                                                                         *)
(* The service is external.  What it may answer is written from the hard   *)
(* constraints it is given (infra/solver): an order that keeps them, or    *)
(* the best it found of all the stops when its time was up.                *)
(***************************************************************************)
EXTENDS GreedyPlanner

CONSTANTS
    Adventure,  \* adventureId of a cache, None for a plain cache
    Linear,     \* adventures whose stages have an order (adventureSequential)
    Sentinel    \* PARK_UNREACHABLE_SENTINEL

VARIABLES
    answer,     \* orderedCacheIds of the service
    units       \* dropped stops still to be offered a place, as whole units

posedVars == <<answer, units>>

SolverPlannerInit ==
    /\ answer = <<>>
    /\ units = <<>>

\* Candidates past the cap never reach the solver.
CapTruncated == request.ids \ ToSet(Selected)

SolverPrepare ==
    /\ phase = "requested"
    /\ IF CannotLoop
       THEN Fails("404") /\ UNCHANGED prep
       ELSE prep' = Prepared /\ phase' = "choosing" /\ UNCHANGED error
    /\ UNCHANGED <<request, tour, lot, drops, trims, routed, legs, ordered, posedVars, solverVars>>

----------------------------------------------------------------------------
(* pickParking: not aware of the loop, which there is none of yet. *)

\* Each place walks to the cache that looks nearest on the map, which may be
\* any; the shortest such walk within the cap wins, the first of equals.
ShortestWalk(places, cap) ==
    {LET walks(i) == walk[places[i]][near[i]]
         within == {i \in DOMAIN places : walks(i) < Infinity /\ walks(i) <= cap}
     IN  IF within = {} THEN None
         ELSE places[CHOOSE i \in within : \A j \in within :
                        walks(i) < walks(j) \/ (walks(i) = walks(j) /\ i <= j)] :
        near \in [DOMAIN places -> Kept]}

Pq == ShortestWalk(Offering.pq, Infinity)
Osm == ShortestWalk(Offering.osm, MaxLink)
Or(found, otherwise) == (found \ {None}) \cup IF None \in found THEN otherwise ELSE {}

Starts ==
    CASE request.preference = "user-supplied-point" -> {User}
      [] request.preference = "osrm-nearest-road" -> {Snap, Centroid}
      [] request.preference = "osm-parking" -> Or(Osm, {Centroid})
      [] request.preference = "auto" -> Or(Pq, Or(Osm, {Snap, Centroid}))
      [] request.preference = "parking-waypoint" -> Or(Pq, {Centroid})

PickParking ==
    /\ phase = "choosing"
    /\ lot' \in Starts
    /\ phase' = "posed"
    /\ UNCHANGED <<request, prep, tour, drops, trims, routed, legs, ordered, error, posedVars, solverVars>>

\* The walks as the solver is told of them: a stop parking cannot be reached
\* from looks extremely far away.
Priced ==
    [a \in DOMAIN walk |-> [b \in DOMAIN walk |->
        IF lot \in {a, b} /\ walk[a][b] >= Infinity THEN Sentinel ELSE walk[a][b]]]

----------------------------------------------------------------------------
(* The Timefold service. *)

StopsOf(seq, adventure) == Where(seq, LAMBDA c : Adventure[c] = adventure)
Adventures == {Adventure[c] : c \in ToSet(reps)} \ {None}

\* distanceBudget and reachableLegs
WithinBudget(o) == ClosedLoop(dist, Priced, lot, o) <= request.budget

\* partialAdventurePenalty() = 0
Atomic(o) ==
    \A a \in Adventures : Len(StopsOf(o, a)) \in {0, Len(StopsOf(reps, a))}

\* contiguityGapPenalty() = 0
Contiguous(o) ==
    \A i, j, k \in DOMAIN o :
        (i < j /\ j < k /\ Adventure[o[i]] = Adventure[o[k]] /\ Adventure[o[i]] # None)
            => Adventure[o[j]] = Adventure[o[i]]

\* orderingViolationPenalty() = 0; only a sequential stage is looked at.
Sequential(c) == Adventure[c] \in Linear /\ Stage[c] < Infinity

InStageOrder(o) ==
    \A i, j \in DOMAIN o :
        (/\ i < j /\ Adventure[o[i]] = Adventure[o[j]]
         /\ Sequential(o[i]) /\ Sequential(o[j]))
            => Stage[o[i]] <= Stage[o[j]]

\* The hard score of TourConstraintProvider is zero.
Feasible(o) ==
    /\ WithinBudget(o)
    /\ request.whole => Atomic(o)
    /\ ~request.interleave => Contiguous(o)
    /\ InStageOrder(o)

\* PlanService hands out the best solution found, feasible or not; the seed
\* has every cache.
Answers ==
    {o \in UNION {SetToSeqs(S) : S \in SUBSET ToSet(reps)} : Feasible(o)}
        \cup {reps}

Pose ==
    /\ phase = "posed"
    /\ \E o \in Answers :
          /\ answer' = o
          /\ tour' = o
          /\ IF o = <<>> THEN Fails("404")
             ELSE phase' = "mending" /\ UNCHANGED error
    /\ UNCHANGED <<request, prep, lot, drops, trims, routed, legs, ordered, units, solverVars>>

\* HttpSolverClient: an error status, a lost connection and the time limit
\* are all a 503.
SolverUnavailable ==
    /\ phase = "posed"
    /\ Fails("503")
    /\ UNCHANGED <<request, prep, tour, lot, drops, trims, routed, legs, ordered, posedVars, solverVars>>

----------------------------------------------------------------------------
(* Mending the answer. *)

MendDrop ==
    /\ phase = "mending"
    /\ DropWorst(Priced)
    /\ phase' = "mend_solving"
    /\ UNCHANGED <<request, prep, lot, trims, routed, legs, ordered, error, posedVars>>

MendSolved ==
    /\ phase = "mend_solving"
    /\ tour' = Solved(tour)
    /\ Collect
    /\ phase' = "mending"
    /\ UNCHANGED <<request, prep, lot, drops, trims, routed, legs, ordered, error, posedVars>>

PositionIn(seq, c) == CHOOSE i \in DOMAIN seq : seq[i] = c

\* Mutant: the rest of a broken adventure stays.
NoOrphans == {}

\* The stops left of adventures that lost one to the trim.
Orphans ==
    {c \in ToSet(tour) :
        /\ Adventure[c] # None
        /\ Len(StopsOf(tour, Adventure[c])) < Len(StopsOf(answer, Adventure[c]))}

FirstOf(adventure) == PositionIn(tour, StopsOf(tour, adventure)[1])

\* Adventure by adventure, as they come in the tour.
OrphanDrops ==
    LET orphans == Ranked(Orphans, LAMBDA x, y :
            \/ FirstOf(Adventure[x]) < FirstOf(Adventure[y])
            \/ Adventure[x] = Adventure[y] /\ PositionIn(tour, x) < PositionIn(tour, y))
    IN  [i \in DOMAIN orphans |-> [id |-> orphans[i], reason |-> "adventure-incomplete"]]

AfterOrphans == Where(tour, LAMBDA c : c \notin Orphans)
DropsOrphans == request.whole /\ Orphans # {} /\ Len(AfterOrphans) >= 2

\* What the solver itself left out, in the order it was asked.
Omitted ==
    LET cutOff(c) ==
            \/ Sentinel \in {Priced[lot][c], Priced[c][lot]}
            \/ \A o \in ToSet(reps) \ {c} : Direct(c, o) >= Infinity
        left == Where(reps, LAMBDA c : c \notin ToSet(answer))
    IN  [i \in DOMAIN left |->
            [id |-> left[i], reason |-> IF cutOff(left[i]) THEN "unreachable" ELSE "budget"]]

Reclaimable(reason) == reason \in {"budget", "adventure-incomplete"}

\* The dropped stops by adventure, a plain cache on its own, in the order in
\* which the first of each was dropped.
UnitsOf(ds) ==
    LET unit(d) == IF Adventure[d.id] = None THEN <<d>>
                   ELSE Where(ds, LAMBDA e : Adventure[e.id] = Adventure[d.id])
        heads == Where(ds, LAMBDA d : unit(d)[1] = d)
    IN  [i \in DOMAIN heads |->
            [k \in DOMAIN unit(heads[i]) |-> unit(heads[i])[k].id]]

ReasonIn(ds, c) == ds[CHOOSE i \in DOMAIN ds : ds[i].id = c].reason

\* The units all of whose stops may come back, nearest to the loop first.
Eligible(ds, loop) ==
    LET all == Where(UnitsOf(ds), LAMBDA u :
                   \A c \in ToSet(u) : Reclaimable(ReasonIn(ds, c)))
        near(i) == Min({Direct(m, c) : m \in ToSet(all[i]), c \in ToSet(loop)})
        rank == Ranked(DOMAIN all, LAMBDA i, j :
                    near(i) < near(j) \/ (near(i) = near(j) /\ i < j))
    IN  [i \in DOMAIN all |-> all[rank[i]]]

\* The trim is over: orphans go, omissions are put down, and what the budget
\* took is lined up.
Account ==
    /\ phase = "mending"
    /\ ~ShouldDrop(Priced)
    /\ tour' = IF DropsOrphans THEN AfterOrphans ELSE tour
    /\ drops' = drops \o (IF DropsOrphans THEN OrphanDrops ELSE <<>>) \o Omitted
    /\ units' = Eligible(drops', tour')
    /\ phase' = "reclaiming"
    /\ UNCHANGED <<request, prep, lot, trims, routed, legs, ordered, error, answer, solverVars>>

Reclaim ==
    /\ phase = "reclaiming"
    /\ units # <<>>
    /\ Call(MatrixOf(tour \o Head(units), Finite), 1)
    /\ phase' = "reclaim_solving"
    /\ UNCHANGED <<request, prep, tour, lot, drops, trims, routed, legs, ordered, error, posedVars>>

\* Mutant: whatever it costs.
FitsAnyway(loop) == TRUE

Fits(loop) == ClosedLoop(dist, walk, lot, loop) <= request.budget

ReclaimSolved ==
    /\ phase = "reclaim_solving"
    /\ LET loop == Solved(tour \o Head(units))
       IN  IF Fits(loop)
           THEN /\ tour' = loop
                /\ drops' = Where(drops, LAMBDA d : d.id \notin ToSet(Head(units)))
           ELSE UNCHANGED <<tour, drops>>
    /\ units' = Tail(units)
    /\ Collect
    /\ phase' = "reclaiming"
    /\ UNCHANGED <<request, prep, lot, trims, routed, legs, ordered, error, answer>>

----------------------------------------------------------------------------
(* The legs: no rotation and no fringe trim here. *)

SolverLegs ==
    /\ phase = "reclaiming"
    /\ units = <<>>
    /\ Route("expanding")
    /\ UNCHANGED posedVars

SolverExpand ==
    /\ phase = "expanding"
    /\ ExpandRoute
    /\ UNCHANGED posedVars

\* Mutant: the truncated candidates are not reported.
SolverDropsQuietly == DroppedCaches

SolverDrops ==
    DroppedCaches \cup {[id |-> id, reason |-> "candidate-cap"] : id \in CapTruncated}

SolverOsrmFails ==
    /\ "osrm" \in Faults
    /\ phase \in {"requested", "choosing", "reclaiming"}
    /\ Fails("osrm")
    /\ UNCHANGED <<request, prep, tour, lot, drops, trims, routed, legs, ordered, posedVars, solverVars>>

SolverPlannerStep ==
    \/ SolverPrepare \/ PickParking \/ Pose \/ SolverUnavailable
    \/ MendDrop \/ MendSolved \/ Account \/ Reclaim \/ ReclaimSolved
    \/ SolverLegs \/ SolverExpand
    \/ Assemble /\ UNCHANGED posedVars
    \/ SolverOsrmFails

=============================================================================

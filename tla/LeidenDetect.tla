---------------------------- MODULE LeidenDetect ----------------------------
(***************************************************************************)
(* leidenCommunities: rounds of local moving, refinement and aggregation   *)
(* over a weighted graph, run in a worker thread.  The seed is a setting,  *)
(* so a shuffle may come out in any order.  Weights are whole numbers, the *)
(* resolution is in tenths, and gains are compared times ten times the     *)
(* total degree, which is exact.                                           *)
(*                                                                         *)
(* Every round that goes on has fewer nodes than the one before, so that   *)
(* the limit of 64 rounds is not met.                                      *)
(***************************************************************************)
EXTENDS Clustering

VARIABLES
    stage,      \* "off", "moving", "refining" or "done"
    base,       \* the graph that was asked for, and the resolution
    level,      \* nodes of this round: degree k, members, weights w of pairs
    comm,       \* community of a node
    refined,    \* sub-community of a node
    pending,    \* what is left of the shuffled range
    requeued,   \* nodes that wait for another look
    nextLabel   \* a label nobody has had

leidenVars == <<stage, base, level, comm, refined, pending, requeued, nextLabel>>

Nodes == DOMAIN level.k
Linked(v) == {u \in Nodes : {u, v} \in DOMAIN level.w}

SumOver(S, val(_)) == FoldSet(LAMBDA x, sum : sum + val(x), 0, S)

NormaliserOf(lev) == FoldLeft(+, 0, lev.k)
M2 == NormaliserOf(level)

\* Dense labels in the order of first appearance.
Normalize(labels) ==
    LET first(l) == CHOOSE i \in DOMAIN labels :
                        labels[i] = l /\ \A j \in 1..(i - 1) : labels[j] # l
    IN  [i \in DOMAIN labels |->
            Cardinality({first(labels[j]) : j \in {j \in DOMAIN labels :
                            first(labels[j]) =< first(labels[i])}})]

\* What v would gain in c, itself not counted, by the labels of the others.
Gain(labels, among, v, c) ==
    LET links == {u \in among : labels[u] = c}
        others == {u \in Nodes \ {v} : labels[u] = c}
    IN  10 * M2 * SumOver(links, LAMBDA u : level.w[{u, v}])
        - base.gamma * level.k[v] * SumOver(others, LAMBDA u : level.k[u])

\* The best of the options; a tie goes to the lower label.
BestOf(options, gain(_)) ==
    CHOOSE c \in options : \A d \in options \ {c} :
        gain(d) < gain(c) \/ (gain(d) = gain(c) /\ c < d)

LeidenInit ==
    /\ stage = "off"
    /\ base = [nodes |-> <<>>, w |-> <<>>, gamma |-> 0]
    /\ level = [k |-> <<>>, members |-> <<>>, w |-> <<>>]
    /\ comm = <<>>
    /\ refined = <<>>
    /\ pending = {}
    /\ requeued = <<>>
    /\ nextLabel = 1

Identity(n) == [i \in 1..n |-> i]

\* nodes in ascending order, w the weights of the pairs of an edge.
Detect(nodes, w, gamma) ==
    LET n == Len(nodes)
        pairs == {p \in SUBSET (1..n) : \E e \in DOMAIN w : e = {nodes[i] : i \in p} /\ Cardinality(p) = 2}
        weights == [p \in pairs |-> w[{nodes[i] : i \in p}]]
    IN  /\ base' = [nodes |-> nodes, w |-> w, gamma |-> gamma]
        /\ level' = [k |-> [i \in 1..n |-> SumOver({p \in pairs : i \in p}, LAMBDA p : weights[p])],
                     members |-> [i \in 1..n |-> {nodes[i]}],
                     w |-> weights]
        /\ comm' = Identity(n)
        /\ refined' = <<>>
        /\ pending' = 1..n
        /\ requeued' = <<>>
        /\ nextLabel' = n + 1
        /\ stage' = "moving"

----------------------------------------------------------------------------
(* localMove *)

\* Mutant: the node still counts towards its own community.
TargetCountingItself(v) ==
    LET options == {comm[v]} \cup {comm[u] : u \in Linked(v)}
        gain(c) == Gain(comm, Linked(v), v, c)
                   - (IF c = comm[v] THEN base.gamma * level.k[v] * level.k[v] ELSE 0)
        best == BestOf(options, gain)
    IN  IF gain(best) < 0 THEN nextLabel ELSE best

\* Its own community, that of a neighbour, or one of its own.
Target(v) ==
    LET options == {comm[v]} \cup {comm[u] : u \in Linked(v)}
        gain(c) == Gain(comm, Linked(v), v, c)
        best == BestOf(options, gain)
    IN  IF gain(best) < 0 THEN nextLabel ELSE best

\* Neighbours are queued again in the order their edges were added.
Join(v, target, left, queue) ==
    /\ comm' = [comm EXCEPT ![v] = target]
    /\ nextLabel' = IF target = nextLabel THEN nextLabel + 1 ELSE nextLabel
    /\ pending' = left
    /\ \E again \in {{u \in Linked(v) : comm[u] # target} \ (left \cup ToSet(queue))} :
           IF target = comm[v] THEN requeued' = queue
           ELSE \E order \in SetToSeqs(again) : requeued' = queue \o order

MoveNode(v) ==
    /\ stage = "moving"
    /\ IF pending # {} THEN v \in pending ELSE requeued # <<>> /\ v = Head(requeued)
    /\ \E target \in {Target(v)} :
           Join(v, target, pending \ {v}, IF pending # {} THEN requeued ELSE Tail(requeued))
    /\ UNCHANGED <<stage, base, level, refined>>

EndMoving ==
    /\ stage = "moving"
    /\ pending = {} /\ requeued = <<>>
    /\ comm' = Normalize(comm)
    /\ refined' = Identity(Len(comm))
    /\ pending' = Nodes
    /\ stage' = "refining"
    /\ UNCHANGED <<base, level, requeued, nextLabel>>

----------------------------------------------------------------------------
(* refine and aggregate *)

\* A node whose label is its own joins the best sub-community it is linked to
\* within its community, if that gains anything.
SubCommunity(v) ==
    LET inside == {u \in Linked(v) : comm[u] = comm[v]}
        options == {v} \cup {refined[u] : u \in inside}
        gain(t) == IF t = v THEN 0 ELSE Gain(refined, inside, v, t)
    IN  IF refined[v] # v THEN refined[v] ELSE BestOf(options, gain)

RefineNode(v) ==
    /\ stage = "refining"
    /\ v \in pending
    /\ \A u \in pending : comm[v] =< comm[u]
    /\ refined' = [refined EXCEPT ![v] = SubCommunity(v)]
    /\ pending' = pending \ {v}
    /\ UNCHANGED <<stage, base, level, comm, requeued, nextLabel>>

\* One node per sub-community; edges inside of it only count in its degree.
Aggregate(labels) ==
    LET parts == 1..Max(ToSet(labels))
        part(r) == {i \in Nodes : labels[i] = r}
        between(p) == {e \in DOMAIN level.w : {labels[i] : i \in e} = p}
        pairs == {p \in SUBSET parts : Cardinality(p) = 2 /\ between(p) # {}}
    IN  [k |-> [r \in parts |-> SumOver(part(r), LAMBDA i : level.k[i])],
         members |-> [r \in parts |-> UNION {level.members[i] : i \in part(r)}],
         w |-> [p \in pairs |-> SumOver(between(p), LAMBDA e : level.w[e])]]

\* Over once nothing was merged, otherwise another round on the parts, which
\* keep the communities of their nodes.
EndRefining ==
    /\ stage = "refining"
    /\ pending = {}
    /\ LET labels == Normalize(refined)
           parts == Max(ToSet(labels))
           carried == [r \in 1..parts |-> comm[CHOOSE i \in Nodes : labels[i] = r]]
       IN  IF parts = Len(comm)
           THEN stage' = "done" /\ UNCHANGED <<level, comm, pending, nextLabel>>
           ELSE /\ stage' = "moving"
                /\ level' = Aggregate(labels)
                /\ comm' = Normalize(carried)
                /\ pending' = 1..parts
                /\ nextLabel' = Max(ToSet(Normalize(carried))) + 1
    /\ UNCHANGED <<base, refined, requeued>>

VisitNode == \E v \in Nodes : MoveNode(v) \/ RefineNode(v)

LeidenStep == VisitNode \/ EndMoving \/ EndRefining

CommunitiesOf(lev, labels) ==
    {UNION {lev.members[i] : i \in {i \in DOMAIN labels : labels[i] = c}} : c \in ToSet(labels)}

Communities == CommunitiesOf(level, comm)

----------------------------------------------------------------------------

\* Modularity of a partition of the graph that was asked for, times a constant.
Modularity(graph, partition) ==
    LET degree(S) == SumOver({e \in DOMAIN graph.w : e \cap S # {}},
                        LAMBDA e : graph.w[e] * Cardinality(e \cap S))
        inside(S) == SumOver({e \in DOMAIN graph.w : e \subseteq S}, LAMBDA e : graph.w[e])
        total == SumOver(DOMAIN graph.w, LAMBDA e : graph.w[e])
    IN  SumOver(partition, LAMBDA S :
            40 * total * inside(S) - graph.gamma * degree(S) * degree(S))

\* Every move, and every change to a coarser graph, leaves a partition of the
\* caches that is at least as modular as the one before.
QualityNeverFalls ==
    [][(stage \in {"moving", "refining"}) =>
           /\ UNION Communities' = ToSet(base.nodes)
           /\ Modularity(base, Communities') >= Modularity(base, Communities)]_leidenVars

=============================================================================

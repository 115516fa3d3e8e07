---------------------------- MODULE DynamicGraph ----------------------------
(***************************************************************************)
(* util/dynamic_graph.hpp: a graph whose adjacency lists live in one array *)
(* (edge_list).  node[n] says where the list of n begins and how long it   *)
(* is; the slots outside all lists are dummies.  The array is grown and    *)
(* compacted in place, so an insertion at one node looks at slots that may *)
(* belong to another.  Slots are counted from 1 here, from 0 in the code.  *)
(*                                                                         *)
(* Also in this module: shortest distances by exhaustive relaxation, the   *)
(* reference against which hierarchies and queries are checked.            *)
(***************************************************************************)
EXTENDS Integers, Sequences, FiniteSets, SequencesExt

CONSTANT N                  \* number of nodes (GetNumberOfNodes)

ASSUME NAssumption == N \in Nat \ {0}

Nodes == 1 .. N

\* std::numeric_limits<EdgeWeight>::max()
INVALID_EDGE_WEIGHT == 2147483647

\* A slot that belongs to no list; makeDummy only marks the target, so the data
\* left in it is never looked at.
Dummy == [to |-> 0]

isDummy(g, slot) == g.list[slot].to = 0

EmptyGraph == [node |-> [n \in Nodes |-> [first |-> 1, edges |-> 0]], list |-> <<>>, count |-> 0]

BeginEdges(g, n) == g.node[n].first
EndEdges(g, n) == g.node[n].first + g.node[n].edges

\* The edges of n in array order, as GetAdjacentEdgeRange enumerates them.
Adjacent(g, n) == SubSeq(g.list, BeginEdges(g, n), EndEdges(g, n) - 1)

\* The edges of n, whatever their order.
EdgeSet(g, n) == ToSet(Adjacent(g, n))

GetTargets(g, n) == {e.to : e \in ToSet(Adjacent(g, n))}

\* The slots of the list of n.
Slots(g, n) == BeginEdges(g, n) .. EndEdges(g, n) - 1

\* The elements of s that are in S, in their order.
Only(s, S) ==
    LET kept[i \in 0 .. Len(s)] ==
            IF i = 0 THEN <<>>
            ELSE IF s[i] \in S THEN Append(kept[i - 1], s[i]) ELSE kept[i - 1]
    IN  kept[Len(s)]

\* Where each of the lists ends when they are laid out one after the other.
Ends(lists) ==
    LET ends[n \in 0 .. N] == IF n = 0 THEN 0 ELSE ends[n - 1] + Len(lists[n])
    IN  ends

\* The constructor: lists laid out one after the other, in the order of the nodes.
FromLists(lists) ==
    LET ends == Ends(lists)
    IN  [node  |-> [n \in Nodes |-> [first |-> ends[n - 1] + 1, edges |-> Len(lists[n])]],
         list  |-> FlattenSeq([n \in Nodes |-> lists[n]]),
         count |-> ends[N]]

-----------------------------------------------------------------------------
\* Mutant of InsertEdge: the list is taken to end one slot earlier, the free slot
\* behind it is never looked for.
InsertEdgeOverNext(g, from, edge) ==
    [g EXCEPT !.list  = IF EndEdges(g, from) > Len(@) THEN Append(@, edge)
                        ELSE [@ EXCEPT ![EndEdges(g, from)] = edge],
              !.node[from].edges = @ + 1, !.count = @ + 1]

\* InsertEdge: behind the list when that slot is a dummy; else in front of it, by
\* moving the last edge to the front; else the whole list moves to the end of the
\* array, where some spare slots are left behind it.
InsertEdge(g, from, edge) ==
    LET nd == g.node[from]
        beyond == EndEdges(g, from)
        noRoomBehind == beyond = Len(g.list) + 1 \/ ~isDummy(g, beyond)
        roomBefore == nd.first # 1 /\ isDummy(g, nd.first - 1)
        newSize == (nd.edges * 11) \div 10 + 2
        moved == [i \in DOMAIN g.list |-> IF i \in Slots(g, from) THEN Dummy ELSE g.list[i]]
                     \o Adjacent(g, from) \o [i \in 1 .. newSize - nd.edges |-> Dummy]
        \* `edge` is written behind the list wherever that is now
        at == CASE ~noRoomBehind -> [first |-> nd.first, list |-> g.list]
                [] noRoomBehind /\ roomBefore ->
                     [first |-> nd.first - 1,
                      list  |-> [g.list EXCEPT ![nd.first - 1] = g.list[nd.first - 1 + nd.edges]]]
                [] OTHER -> [first |-> Len(g.list) + 1, list |-> moved]
    IN  [node  |-> [g.node EXCEPT ![from] = [first |-> at.first, edges |-> nd.edges + 1]],
         list  |-> [at.list EXCEPT ![at.first + nd.edges] = edge],
         count |-> g.count + 1]

\* DeleteEdgesTo: every edge to the target is overwritten by the last one of the
\* list, which becomes a dummy.  Each step of the loop passes one edge or deletes one.
DeleteStep(cut, target) ==
    IF cut.list[cut.at].to # target THEN [cut EXCEPT !.at = @ + 1]
    ELSE [cut EXCEPT !.list = [@ EXCEPT ![cut.at] = cut.list[cut.end - 1], ![cut.end - 1] = Dummy],
                     !.end = @ - 1]

DeleteLoop(g, source, target) ==
    LET cut[i \in 0 .. g.node[source].edges] ==
            IF i = 0 THEN [list |-> g.list, at |-> BeginEdges(g, source), end |-> EndEdges(g, source)]
            ELSE DeleteStep(cut[i - 1], target)
    IN  cut

DeleteEdgesTo(g, source, target) ==
    LET cut == DeleteLoop(g, source, target)[g.node[source].edges]
        deleted == EndEdges(g, source) - cut.end
    IN  [node  |-> [g.node EXCEPT ![source].edges = @ - deleted],
         list  |-> cut.list,
         count |-> g.count - deleted]

\* FindEdge: the slot of the first edge to the target, 0 for SPECIAL_EDGEID.
FindEdge(g, from, to) ==
    LET found == {i \in Slots(g, from) : g.list[i].to = to}
    IN  IF found = {} THEN 0 ELSE CHOOSE i \in found : \A j \in found : i <= j

\* Old and new numbers correspond one to one.
IsNumbering(perm) ==
    /\ perm \in [Nodes -> Nodes]
    /\ \A m, n \in Nodes : perm[m] = perm[n] => m = n
    /\ \A n \in Nodes : \E o \in Nodes : perm[o] = n

\* Renumber: the lists in the order of the new numbers, targets renamed, dummies dropped.
Renumber(g, old_to_new) ==
    FromLists([n \in Nodes |->
        LET old == CHOOSE o \in Nodes : old_to_new[o] = n
        IN  [i \in 1 .. g.node[old].edges |->
               [Adjacent(g, old)[i] EXCEPT !.to = old_to_new[@]]]])

\* Filter: only the edges between nodes that are kept.  The number of edges is copied
\* from the unfiltered graph.
Filter(g, keep) ==
    LET kept(n) == {e \in ToSet(Adjacent(g, n)) : n \in keep /\ e.to \in keep}
    IN  [FromLists([n \in Nodes |-> Only(Adjacent(g, n), kept(n))]) EXCEPT !.count = g.count]

\* The number of edges, list by list.
NumberOfEdges(g) == Ends([n \in Nodes |-> Adjacent(g, n)])[N]

\* The invariant of the array: no slot belongs to two lists or lies outside the array,
\* the slots of the lists hold edges and all others are dummies.
WellFormed(g) ==
    /\ \A n \in Nodes : Slots(g, n) \subseteq DOMAIN g.list
    /\ \A m, n \in Nodes : m # n => Slots(g, m) \cap Slots(g, n) = {}
    /\ \A i \in DOMAIN g.list : isDummy(g, i) <=> \A n \in Nodes : i \notin Slots(g, n)

\* The arrays of edges from E, and the well-formed ones, in which empty lists, too, begin
\* within the array or right behind it.
Arrays(E) ==
    [node : [Nodes -> [first : Nat \ {0}, edges : Nat]], list : Seq(E \cup {Dummy}), count : Int]

Consistent(g, E) ==
    /\ g \in Arrays(E)
    /\ \A n \in Nodes : EndEdges(g, n) <= Len(g.list) + 1
    /\ WellFormed(g)

-----------------------------------------------------------------------------
(***************************************************************************)
(* Reference: `arcs` is a set of records [from, to, weight].               *)
(***************************************************************************)
Least(S) == IF S = {} THEN INVALID_EDGE_WEIGHT ELSE CHOOSE w \in S : \A v \in S : w <= v

\* One round of relaxing all arcs.
RelaxAll(arcs, d) ==
    [v \in Nodes |-> Least({d[v]} \cup
        {d[a.from] + a.weight : a \in {b \in arcs : b.to = v /\ d[b.from] # INVALID_EDGE_WEIGHT}})]

\* The length of a shortest path from s to every node.
DistancesFrom(arcs, s) ==
    LET after[round \in 0 .. N - 1] ==
            IF round = 0 THEN [v \in Nodes |-> IF v = s THEN 0 ELSE INVALID_EDGE_WEIGHT]
            ELSE RelaxAll(arcs, after[round - 1])
    IN  after[N - 1]

\* What distances are characterised by: a potential is feasible for a set of arcs if no arc
\* leads further up than it is long.
Potentials == [Nodes -> 0 .. INVALID_EDGE_WEIGHT]

Feasible(p, arcs) == \A a \in arcs : p[a.to] <= p[a.from] + a.weight

\* The length of a shortest way that leaves s and comes back to it.
RoundTrip(arcs, s) ==
    Least({a.weight + DistancesFrom(arcs, a.to)[s] :
             a \in {b \in arcs : b.from = s /\ DistancesFrom(arcs, b.to)[s] # INVALID_EDGE_WEIGHT}})
=============================================================================

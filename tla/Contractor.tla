----------------------------- MODULE Contractor -----------------------------
(***************************************************************************)
(* contractor/graph_contractor.cpp: contractGraph.  Rounds of parallel     *)
(* loops over one shared graph: find an independent set, contract it, drop *)
(* the edges into it, insert the shortcuts, price its neighbours anew.     *)
(* Every iteration of a parallel loop is a step; a loop ends when all its  *)
(* iterations have (the barrier at the end of tbb::parallel_for).  The     *)
(* iterations share `weights`, which simulated contractions write too.     *)
(*                                                                         *)
(* An edge is [to, weight, orig, id, shortcut, forward, backward]; a       *)
(* shortcut not yet inserted also has its source.  Durations and distances *)
(* travel with the weight and decide nothing here; they are left out.      *)
(***************************************************************************)
EXTENDS DynamicGraph

CONSTANTS Threads,          \* workers of the TBB pool
          Hash,             \* XORFastHash on the node numbers
          SearchSpace,      \* [full, simulation]: FULL_ and SIMULATION_SEARCH_SPACE_SIZE
          RenumberPercent,  \* 35 in the code
          Significand,      \* 2^24: how many significands a float has
          Scales            \* the powers of two by which floats are scaled

ASSUME FloatAssumption == Significand \in Nat \ {0} /\ Scales \subseteq Nat \ {0}

VARIABLES
    graph,              \* the ContractorGraph the loops share
    node_data,          \* ContractorNodeData: is_core, contractable, priorities, weights, depths
    remaining,          \* remaining_nodes, always in increasing order
    number_of_core_nodes,
    new_to_old,         \* new_to_old_node_id
    next_renumbering,
    phase,              \* the loop that runs
    batch,              \* the independent nodes of this round
    todo,               \* iterations of the loop that have not run yet
    inserted            \* ContractorThreadData::inserted_edges of every thread

contractorVars == <<graph, node_data, remaining, number_of_core_nodes, new_to_old,
                    next_renumbering, phase, batch, todo, inserted>>

-----------------------------------------------------------------------------
(***************************************************************************)
(* Priorities are floats: fractions <<m, s>> of a significand and a scale. *)
(* The largest one stands for numeric_limits<float>::max().                *)
(***************************************************************************)
MaxPriority == <<1, 0>>

\* The float nearest to n / d, the even one of two.  (A number that no scale fits stays
\* as it is: 0, and what is beyond the bounds of Scales.)
Float(n, d) ==
    LET fits(s) == Significand * d <= 2 * n * s /\ n * s < Significand * d
        scale == CHOOSE s \in Scales : fits(s)
        floor == (n * scale) \div d
        rest == 2 * ((n * scale) % d)
    IN  IF \E s \in Scales : fits(s)
          THEN <<IF rest > d \/ (rest = d /\ floor % 2 = 1) THEN floor + 1 ELSE floor, scale>>
          ELSE <<n, d>>

\* Sums are rounded, products with 2 and 4 are exact.
FloatSum(p, q) == Float(p[1] * q[2] + q[1] * p[2], p[2] * q[2])
FloatTimes(k, p) == <<k * p[1], p[2]>>

Greater(p, q) == p[1] * q[2] > q[1] * p[2]

\* The tie test: std::abs(p - q) < std::numeric_limits<float>::epsilon().
Tie(p, q) ==
    LET gap == p[1] * q[2] - q[1] * p[2]
    IN  (IF gap < 0 THEN - gap ELSE gap) * Significand < 2 * p[2] * q[2]

-----------------------------------------------------------------------------
(***************************************************************************)
(* toContractorGraph: arcs of weight 0 cost 1, eigenloops go, of parallel  *)
(* arcs the cheapest stays, and two arcs of the same weight in opposite    *)
(* directions become one edge.                                             *)
(***************************************************************************)
\* Mutant: a weight of 0 stays.
ZeroWeightKept(arc) == arc.weight

InputWeight(arc) == IF arc.weight = 0 THEN 1 ELSE arc.weight

toContractorGraph(arcs) ==
    LET cheapest(u, v) ==
            Least({InputWeight(a) : a \in {b \in arcs : b.from = u /\ b.to = v}})
        edge(v, w, f, b) == [to |-> v, weight |-> w, orig |-> 1, id |-> 0, shortcut |-> FALSE,
                             forward |-> f, backward |-> b]
        edges(u, v) ==
            LET there == cheapest(u, v)
                back == cheapest(v, u)
                either(w, f, b) == IF w = INVALID_EDGE_WEIGHT THEN <<>> ELSE <<edge(v, w, f, b)>>
            IN  IF u = v THEN <<>>
                ELSE IF there = back THEN either(there, TRUE, TRUE)
                ELSE either(there, TRUE, FALSE) \o either(back, FALSE, TRUE)
    IN  FromLists([u \in Nodes |-> FlattenSeq([v \in Nodes |-> edges(u, v)])])

-----------------------------------------------------------------------------
(***************************************************************************)
(* The witness search (contractor_search.cpp): Dijkstra from one neighbour *)
(* of the node to be contracted, around that node, until all targets are   *)
(* settled, the weight limit is passed or too many nodes were settled.     *)
(* Returned are the keys of the heap, settled or not.                      *)
(***************************************************************************)
\* One round of the search; the heap stays as it is once the search has stopped.
SearchStep(g, heap, targets, limit, forbidden) ==
    LET node == CHOOSE n \in heap.open : \A m \in heap.open : heap.key[n] <= heap.key[m]
        out == {e \in ToSet(Adjacent(g, node)) : e.forward /\ e.to # forbidden}
        found == heap.found + (IF node \in targets THEN 1 ELSE 0)
        known == DOMAIN heap.key
        relaxed == [v \in known \cup {e.to : e \in out} |->
                      Least((IF v \in known THEN {heap.key[v]} ELSE {})
                            \cup {heap.key[node] + e.weight : e \in {f \in out : f.to = v}})]
    IN  IF heap.open = {} THEN heap
        ELSE IF \/ heap.settled + 1 > limit.nodes
                \/ heap.key[node] > limit.weight
                \/ node \in targets /\ found >= Cardinality(targets)
        THEN [heap EXCEPT !.open = {}]
        ELSE [key     |-> relaxed,
              open    |-> (heap.open \ {node}) \cup (DOMAIN relaxed \ known),
              found   |-> found,
              settled |-> heap.settled + 1]

\* Every round settles a node, so N rounds are enough.
search(g, heap, targets, limit, forbidden) ==
    LET after[i \in 0 .. N] ==
            IF i = 0 THEN heap ELSE SearchStep(g, after[i - 1], targets, limit, forbidden)
    IN  after[N].key

\* A shortcut past node, or its mirror image at the other end.
Shortcut(source, target, in, out, node, forward) ==
    [source |-> source, to |-> target, weight |-> in.weight + out.weight,
     orig |-> in.orig + out.orig, id |-> node, shortcut |-> TRUE,
     forward |-> forward, backward |-> ~forward]

\* One incoming edge of the node that is contracted: a loop at its source for every way
\* there and back, cheaper than the bound the node has; then a shortcut to every target
\* for which the search found no witness.
ContractInEdge(g, node, simulation, acc, in) ==
    LET source == in.to
        adjacent == Adjacent(g, node)
        out == Only(adjacent, {e \in ToSet(adjacent) : e.forward /\ e.to # node})
        loops == Only(out, {e \in ToSet(out) : e.to = source /\ in.weight + e.weight < acc.weights[node]})
        weights == IF loops = <<>> THEN acc.weights
                   ELSE [acc.weights EXCEPT ![source] =
                           in.weight + Last(loops).weight + (IF simulation THEN 1 ELSE 0)]
        targets == {e.to : e \in ToSet(out)} \ {source}
        max_weight == Max({0} \cup {in.weight + e.weight : e \in {f \in ToSet(out) : f.to # source}})
        key == search(g, [key     |-> [v \in targets \cup {source} |->
                                         IF v = source THEN 0 ELSE INVALID_EDGE_WEIGHT],
                          open    |-> targets \cup {source}, found |-> 0, settled |-> 0],
                      targets,
                      [nodes  |-> IF simulation THEN SearchSpace.simulation ELSE SearchSpace.full,
                       weight |-> max_weight],
                      node)
        needed == loops \o Only(out, {e \in ToSet(out) : in.weight + e.weight < key[e.to]})
        \* each with its mirror image behind it
        edges == [i \in 1 .. 2 * Len(needed) |->
                    LET e == needed[(i + 1) \div 2]
                    IN  IF i % 2 = 1 THEN Shortcut(source, e.to, in, e, node, TRUE)
                        ELSE Shortcut(e.to, source, in, e, node, FALSE)]
    IN  [weights |-> weights, edges |-> acc.edges \o edges]

\* ContractNode without its last loop: the new bounds and the shortcuts.
ContractEdges(g, node, weights, simulation) ==
    LET adjacent == Adjacent(g, node)
        in == Only(adjacent, {e \in ToSet(adjacent) : e.to # node /\ e.backward})
        after[i \in 0 .. Len(in)] ==
            IF i = 0 THEN [weights |-> weights, edges |-> <<>>]
            ELSE ContractInEdge(g, node, simulation, after[i - 1], in[i])
    IN  after[Len(in)]

\* The last loop of ContractNode: of the shortcuts that differ in their direction only,
\* the last one stays and takes the directions of all.
MergeDirections(edges) ==
    LET same(i) == {j \in DOMAIN edges : /\ edges[j].source = edges[i].source
                                         /\ edges[j].to = edges[i].to
                                         /\ edges[j].weight = edges[i].weight}
        merged(i) == [edges[i] EXCEPT !.forward = \E j \in same(i) : edges[j].forward,
                                      !.backward = \E j \in same(i) : edges[j].backward]
        kept[i \in 0 .. Len(edges)] ==
            IF i = 0 THEN <<>>
            ELSE IF \E j \in same(i) : j > i THEN kept[i - 1] ELSE Append(kept[i - 1], merged(i))
    IN  kept[Len(edges)]

\* The sum of originalEdges.
OriginalEdges(edges) ==
    LET sum[i \in 0 .. Len(edges)] == IF i = 0 THEN 0 ELSE sum[i - 1] + edges[i].orig
    IN  sum[Len(edges)]

\* SimulateNodeContraction and EvaluateNodePriority.
Simulated(g, node, weights, depth) ==
    LET result == ContractEdges(g, node, weights, TRUE)
        adjacent == Adjacent(g, node)
        gone == Only(adjacent, {e \in ToSet(adjacent) : e.to # node})
        deleted == Len(gone)
        origs == OriginalEdges(gone)
    IN  [weights  |-> result.weights,
         priority |-> IF deleted = 0 THEN <<depth, 1>>
                      ELSE FloatSum(FloatSum(FloatTimes(2, Float(Len(result.edges), deleted)),
                                             FloatTimes(4, Float(OriginalEdges(result.edges), origs))),
                                    <<depth, 1>>)]

-----------------------------------------------------------------------------
(***************************************************************************)
(* Independent nodes.                                                      *)
(***************************************************************************)
Neighbours(g, node) == GetTargets(g, node) \ {node}

Bias(a, b) == IF Hash[a] # Hash[b] THEN Hash[a] < Hash[b] ELSE a < b

\* Some node at most two hops away goes first.
Precedes(node, other) ==
    \/ Greater(node_data.priorities[node], node_data.priorities[other])
    \/ /\ Tie(node_data.priorities[node], node_data.priorities[other])
       /\ Bias(new_to_old[node], new_to_old[other])

\* Mutant: only the direct neighbours are compared.
OneHopIndependent(node) == \A other \in Neighbours(graph, node) : ~Precedes(node, other)

\* Mutant: a node steps back for every neighbour of the same priority.
TimidIndependent(node) ==
    LET near == Neighbours(graph, node)
    IN  \A other \in (near \cup UNION {GetTargets(graph, u) : u \in near}) \ {node} :
            ~Greater(node_data.priorities[node], node_data.priorities[other])
            /\ ~Tie(node_data.priorities[node], node_data.priorities[other])

IsNodeIndependent(node) ==
    LET near == Neighbours(graph, node)
    IN  \A other \in (near \cup UNION {GetTargets(graph, u) : u \in near}) \ {node} :
            ~Precedes(node, other)

-----------------------------------------------------------------------------
(***************************************************************************)
(* Renumbering: vector'[perm[i]] = vector[i] (util::inplacePermutation).   *)
(***************************************************************************)
Permuted(f, perm) == [n \in Nodes |-> f[CHOOSE o \in Nodes : perm[o] = n]]

RenumberNodeData(data, perm) ==
    [is_core      |-> Permuted(data.is_core, perm),
     contractable |-> Permuted(data.contractable, perm),
     priorities   |-> Permuted(data.priorities, perm),
     weights      |-> Permuted(data.weights, perm),
     depths       |-> Permuted(data.depths, perm)]

\* Mutant: the middle nodes of the shortcuts keep their old numbers.
RenumberTargetsOnly(g, perm) == Renumber(g, perm)

RenumberGraph(g, perm) ==
    LET h == Renumber(g, perm)
    IN  [h EXCEPT !.list = [i \in DOMAIN h.list |->
            IF h.list[i].shortcut THEN [h.list[i] EXCEPT !.id = perm[@]] ELSE h.list[i]]]

\* The remaining nodes get the low numbers, the contracted ones the others, each in order.
RemainingFirst ==
    [n \in Nodes |-> IF n \in remaining THEN Cardinality({m \in remaining : m <= n})
                     ELSE Cardinality(remaining) + Cardinality({m \in Nodes \ remaining : m <= n})]

-----------------------------------------------------------------------------
(***************************************************************************)
(* contractGraph.                                                          *)
(***************************************************************************)
ContractorIdle ==
    /\ graph = EmptyGraph
    /\ node_data = [is_core |-> [n \in Nodes |-> FALSE]]
    /\ remaining = {} /\ number_of_core_nodes = 0
    /\ new_to_old = [n \in Nodes |-> n] /\ next_renumbering = 0
    /\ phase = "idle" /\ batch = {} /\ todo = {} /\ inserted = [t \in Threads |-> <<>>]

\* The call: g, which nodes are not contracted yet, which may be, the bounds, and how
\* many nodes are left as core.
contractGraph(g, uncontracted, contractable, weights, core) ==
    /\ graph' = g
    /\ node_data' = [is_core      |-> [n \in Nodes |-> n \in uncontracted],
                     contractable |-> [n \in Nodes |-> n \in contractable],
                     priorities   |-> [n \in Nodes |-> IF n \in uncontracted \ contractable
                                                       THEN MaxPriority ELSE <<0, 1>>],
                     weights      |-> weights,
                     depths       |-> [n \in Nodes |-> 0]]
    /\ remaining' = uncontracted \cap contractable
    /\ number_of_core_nodes' = core
    /\ new_to_old' = [n \in Nodes |-> n]
    /\ next_renumbering' = (N * RenumberPercent) \div 100
    /\ phase' = IF remaining' = {} THEN "head" ELSE "prioritise"
    /\ batch' = {}
    /\ todo' = remaining'
    /\ inserted' = [t \in Threads |-> <<>>]

\* Leaving a loop: after its last iteration the next one starts, over all of `next`.
Barrier(rest, next, loop) ==
    /\ todo' = IF rest = {} THEN next ELSE rest
    /\ phase' = IF rest = {} THEN loop ELSE phase

\* An iteration of the loop that computes the first priorities.
InitialPriority(node) ==
    LET sim == Simulated(graph, node, node_data.weights, node_data.depths[node])
    IN  /\ phase = "prioritise" /\ node \in todo
        /\ node_data' = [node_data EXCEPT !.weights = sim.weights,
                                          !.priorities[node] = sim.priority]
        /\ Barrier(todo \ {node}, {}, "head")
        /\ UNCHANGED <<graph, remaining, number_of_core_nodes, new_to_old, next_renumbering, batch, inserted>>

\* RenumberData: for better locality, once.
RenumberData ==
    /\ phase = "head" /\ Cardinality(remaining) > number_of_core_nodes
    /\ Cardinality(remaining) < next_renumbering
    /\ new_to_old' = Permuted(new_to_old, RemainingFirst)
    /\ node_data' = RenumberNodeData(node_data, RemainingFirst)
    /\ graph' = RenumberGraph(graph, RemainingFirst)
    /\ remaining' = 1 .. Cardinality(remaining)
    /\ next_renumbering' = 0
    /\ UNCHANGED <<number_of_core_nodes, phase, batch, todo, inserted>>

\* The loop that marks the independent nodes reads only: one step.  Without one the round
\* contracts nothing and the next one begins (asserted never to happen).
FindIndependent ==
    /\ phase = "head" /\ Cardinality(remaining) > number_of_core_nodes
    /\ Cardinality(remaining) >= next_renumbering
    /\ batch' = {n \in remaining : IsNodeIndependent(n)}
    /\ todo' = batch'
    /\ phase' = IF batch' = {} THEN "head" ELSE "contract"
    /\ UNCHANGED <<graph, node_data, remaining, number_of_core_nodes, new_to_old, next_renumbering, inserted>>

\* An iteration of the loop that contracts, on thread t.  The core flags are set in serial
\* after the loop.
ContractNode(t, node) ==
    LET result == ContractEdges(graph, node, node_data.weights, FALSE)
        last == todo = {node}
    IN  /\ phase = "contract" /\ node \in todo
        /\ node_data' = [node_data EXCEPT
                           !.weights = result.weights,
                           !.is_core = [n \in Nodes |-> @[n] /\ ~(last /\ n \in batch)]]
        /\ inserted' = [inserted EXCEPT ![t] = @ \o MergeDirections(result.edges)]
        /\ Barrier(todo \ {node}, batch, "delete")
        /\ UNCHANGED <<graph, remaining, number_of_core_nodes, new_to_old, next_renumbering, batch>>

\* Mutant: the node drops its edges to the neighbours instead.
CutOffWrongEnd(g, node) ==
    LET after[u \in 0 .. N] ==
            IF u = 0 THEN g
            ELSE IF u \in Neighbours(g, node) THEN DeleteEdgesTo(after[u - 1], node, u)
            ELSE after[u - 1]
    IN  after[N]

\* The neighbours of the node, in increasing order, drop their edges to it.
CutOff(g, node) ==
    LET after[u \in 0 .. N] ==
            IF u = 0 THEN g
            ELSE IF u \in Neighbours(g, node) THEN DeleteEdgesTo(after[u - 1], u, node)
            ELSE after[u - 1]
    IN  after[N]

\* DeleteIncomingEdges: no list of another node leads to a contracted node any more.
DeleteIncomingEdges(node) ==
    /\ phase = "delete" /\ node \in todo
    /\ graph' = CutOff(graph, node)
    /\ Barrier(todo \ {node}, Threads, "insert")
    /\ UNCHANGED <<node_data, remaining, number_of_core_nodes, new_to_old, next_renumbering, batch, inserted>>

\* Mutant: a shortcut is dropped or replaced without a look at its directions.
InsertAnyDirection(g, e) ==
    LET slot == FindEdge(g, e.source, e.to)
        edge == [to |-> e.to, weight |-> e.weight, orig |-> e.orig, id |-> e.id, shortcut |-> TRUE,
                 forward |-> e.forward, backward |-> e.backward]
    IN  IF slot # 0
        THEN IF e.weight < g.list[slot].weight THEN [g EXCEPT !.list[slot] = edge] ELSE g
        ELSE InsertEdge(g, e.source, edge)

\* A shortcut replaces the shortcut FindEdge meets first when that one has the same
\* directions and a larger weight, is dropped when it is not lighter, and is added otherwise.
InsertShortcut(g, e) ==
    LET slot == FindEdge(g, e.source, e.to)
        edge == [to |-> e.to, weight |-> e.weight, orig |-> e.orig, id |-> e.id, shortcut |-> TRUE,
                 forward |-> e.forward, backward |-> e.backward]
    IN  IF /\ slot # 0
           /\ g.list[slot].shortcut
           /\ g.list[slot].forward = e.forward
           /\ g.list[slot].backward = e.backward
        THEN IF e.weight < g.list[slot].weight THEN [g EXCEPT !.list[slot] = edge] ELSE g
        ELSE InsertEdge(g, e.source, edge)

\* DynamicGraph::InputEdge::operator<
NotBehind(d, e) == d.source < e.source \/ (d.source = e.source /\ d.to <= e.to)

\* The places of an edge in a sorted sequence.
SortedInto(s, e) ==
    {InsertAt(s, k, e) : k \in {j \in 1 .. Len(s) + 1 :
        \A i \in 1 .. Len(s) : IF i < j THEN NotBehind(s[i], e) ELSE NotBehind(e, s[i])}}

\* The orders tbb::parallel_sort may leave the edges in: it is not stable.
Sorted(edges) ==
    LET orders[i \in 0 .. Len(edges)] ==
            IF i = 0 THEN {<<>>} ELSE UNION {SortedInto(s, edges[i]) : s \in orders[i - 1]}
    IN  orders[Len(edges)]

InsertShortcuts(g, edges) ==
    LET after[i \in 0 .. Len(edges)] == IF i = 0 THEN g ELSE InsertShortcut(after[i - 1], edges[i])
    IN  after[Len(edges)]

\* The edges of thread t, sorted, go into the graph in serial; the order of the threads
\* is that of their thread-local storage.
InsertEdges(t) ==
    /\ phase = "insert" /\ t \in todo
    /\ \E edges \in Sorted(inserted[t]) : graph' = InsertShortcuts(graph, edges)
    /\ inserted' = [inserted EXCEPT ![t] = <<>>]
    /\ Barrier(todo \ {t}, {p \in batch \X Nodes : p[2] \in Neighbours(graph, p[1])}, "update")
    /\ UNCHANGED <<node_data, remaining, number_of_core_nodes, new_to_old, next_renumbering, batch>>

\* UpdateNodeNeighbours of a contracted node, one neighbour after the other: it moves up
\* and, if it may be contracted, gets a new priority.
UpdateNodeNeighbours(node, u) ==
    LET depth == Max({node_data.depths[node] + 1, node_data.depths[u]})
        sim == Simulated(graph, u, node_data.weights, depth)
    IN  /\ phase = "update" /\ <<node, u>> \in todo
        /\ \A v \in Nodes : v < u => <<node, v>> \notin todo
        /\ node_data' = IF node_data.contractable[u]
                        THEN [node_data EXCEPT !.depths[u] = depth, !.weights = sim.weights,
                                               !.priorities[u] = sim.priority]
                        ELSE [node_data EXCEPT !.depths[u] = depth]
        /\ todo' = todo \ {<<node, u>>}
        /\ UNCHANGED <<graph, remaining, number_of_core_nodes, new_to_old, next_renumbering, phase, batch, inserted>>

\* The contracted nodes leave the pool.
EndRound ==
    /\ phase = "update" /\ todo = {}
    /\ remaining' = remaining \ batch
    /\ batch' = {}
    /\ phase' = "head"
    /\ UNCHANGED <<graph, node_data, number_of_core_nodes, new_to_old, next_renumbering, todo, inserted>>

\* The loop ends: everything gets its original number back.
Return ==
    /\ phase = "head" /\ Cardinality(remaining) <= number_of_core_nodes
    /\ graph' = RenumberGraph(graph, new_to_old)
    /\ node_data' = RenumberNodeData(node_data, new_to_old)
    /\ new_to_old' = [n \in Nodes |-> n]
    /\ phase' = "returned"
    /\ UNCHANGED <<remaining, number_of_core_nodes, next_renumbering, batch, todo, inserted>>

ContractorStep ==
    \/ \E n \in Nodes : InitialPriority(n)
    \/ RenumberData
    \/ FindIndependent
    \/ \E t \in Threads, n \in Nodes : ContractNode(t, n)
    \/ \E n \in Nodes : DeleteIncomingEdges(n)
    \/ \E t \in Threads : InsertEdges(t)
    \/ \E n, u \in Nodes : UpdateNodeNeighbours(n, u)
    \/ EndRound
    \/ Return
=============================================================================

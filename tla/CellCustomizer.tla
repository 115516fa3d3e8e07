--------------------------- MODULE CellCustomizer ---------------------------
(***************************************************************************)
(* osrm-customize: the weights of the shortcuts across the cells of a      *)
(* multi-level partition, level by level, the cells of a level in          *)
(* parallel, once for every exclude filter.  With the partition and the    *)
(* boundary nodes of its cells (partitioner/multi_level_partition.hpp,     *)
(* cell_storage.hpp) and the graph sorted by level                         *)
(* (multi_level_graph.hpp).                                                *)
(*                                                                         *)
(* An edge of the graph is [source, to, weight, penalty, forward,          *)
(* backward].  Durations are taken equal to weights, distances left out.   *)
(***************************************************************************)
EXTENDS DynamicGraph

CONSTANTS Levels,       \* the highest level; level 0 is the graph itself
          Networks,     \* [weights, turns]: node weights and turns [from, to, penalty]
          Partitions,   \* functions from levels to functions from nodes to cells
          NodeFilters   \* sequences of sets of nodes: what each exclude combination allows

VARIABLES
    network,        \* the input
    partition,      \* MultiLevelPartition, nested
    node_filters,   \* excludeFlagsToNodeFilter
    base,           \* the edges of the MultiLevelEdgeBasedGraph
    level,          \* level whose cells are customised
    todo,           \* its cells that are not finished
    metric,         \* CellMetric of the current filter: level -> source -> row of weights
    metrics         \* CellMetrics of the filters that are finished

customizerVars == <<network, partition, node_filters, base, level, todo, metric, metrics>>

-----------------------------------------------------------------------------
(***************************************************************************)
(* The graph.                                                              *)
(***************************************************************************)
\* The weight of a turn is that of the node it leaves and its penalty, at least 1
\* (splitBidirectionalEdges).
TurnWeight(net, t) == Max({net.weights[t.from] + t.penalty, 1})

\* The input: cells of a level lie inside cells of the next, and no sum of weights overflows
\* an EdgeWeight.  The bound is a simple one that is enough for that: ways of 2 * N of the
\* heaviest turn still fit, which is more than the ways of a search need and than large
\* networks with one heavy turn satisfy.  The code checks no bound.
ASSUME CustomizerAssumption ==
    /\ Levels \in Nat \ {0}
    /\ \A net \in Networks :
         /\ net.weights \in [Nodes -> Nat]
         /\ net.turns \subseteq [from : Nodes, to : Nodes, penalty : Int]
         /\ \A t \in net.turns : 2 * N * TurnWeight(net, t) < INVALID_EDGE_WEIGHT
    /\ \A p \in Partitions :
         /\ p \in [1 .. Levels -> [Nodes -> Nat]]
         /\ \A l \in 1 .. Levels - 1 : \A m, n \in Nodes : p[l][m] = p[l][n] => p[l + 1][m] = p[l + 1][n]
    /\ NodeFilters \subseteq Seq(SUBSET Nodes)

\* splitBidirectionalEdges and prepareEdgesForUsageInGraph: no eigenloops, of parallel turns
\* the lightest; turns of the same weight in opposite directions become one edge, which keeps
\* the data of the forward one.
prepareEdgesForUsageInGraph(net) ==
    LET lightest(u, v) ==
            LET all == {t \in net.turns : t.from = u /\ t.to = v}
            IN  {t \in all : \A s \in all : TurnWeight(net, t) <= TurnWeight(net, s)}
        edge(u, v, t, f, b) == [source |-> u, to |-> v, weight |-> TurnWeight(net, t),
                                penalty |-> t.penalty, forward |-> f, backward |-> b]
        between(u, v) ==
            LET there == lightest(u, v)
                back == lightest(v, u)
                same == \E t \in there, b \in back : TurnWeight(net, t) = TurnWeight(net, b)
            IN  IF same THEN {edge(u, v, t, TRUE, TRUE) : t \in there}
                ELSE {edge(u, v, t, TRUE, FALSE) : t \in there} \cup {edge(u, v, t, FALSE, TRUE) : t \in back}
    IN  UNION {between(p[1], p[2]) : p \in {q \in Nodes \X Nodes : q[1] # q[2]}}

GetCell(l, n) == partition[l][n]

Cells(l) == {GetCell(l, n) : n \in Nodes}

\* Partition numbers hold the cell of the highest level in their highest bits.
GetHighestDifferentLevel(m, n) == Max({0} \cup {l \in 1 .. Levels : GetCell(l, m) # GetCell(l, n)})

EdgesOf(n) == {e \in base : e.source = n}

\* The edges of a node are sorted by the highest level at which they cross a border.
GetBorderEdgeRange(l, n) == {e \in EdgesOf(n) : GetHighestDifferentLevel(n, e.to) >= l}
GetInternalEdgeRange(l, n) == EdgesOf(n) \ GetBorderEdgeRange(l, n)

-----------------------------------------------------------------------------
(***************************************************************************)
(* The boundary nodes of the cells.                                        *)
(***************************************************************************)
IsBoundary(l, n) == \E e \in EdgesOf(n) : GetCell(l, e.to) # GetCell(l, n)
LeadsInside(l, n) == \E e \in EdgesOf(n) : GetCell(l, e.to) = GetCell(l, n) /\ e.forward
ReachedInside(l, n) == \E e \in EdgesOf(n) : GetCell(l, e.to) = GetCell(l, n) /\ e.backward

\* The lists of a cell, in an order that rows and columns share.
GetSourceNodes(l, c) ==
    SetToSeq({n \in Nodes : GetCell(l, n) = c /\ IsBoundary(l, n) /\ LeadsInside(l, n)})

\* A boundary node without edges in its cell is kept as a destination.
GetDestinationNodes(l, c) ==
    SetToSeq({n \in Nodes : /\ GetCell(l, n) = c /\ IsBoundary(l, n)
                            /\ LeadsInside(l, n) => ReachedInside(l, n)})

\* MakeMetric: no weight is known.
MakeMetric ==
    [l \in 1 .. Levels |-> [n \in Nodes |->
        [i \in 1 .. Len(GetDestinationNodes(l, GetCell(l, n))) |-> INVALID_EDGE_WEIGHT]]]

\* The row of a source node and the column of a destination, empty for other nodes.
GetOutWeight(m, l, n) ==
    IF n \in ToSet(GetSourceNodes(l, GetCell(l, n))) THEN m[l][n] ELSE <<>>

GetInWeight(m, l, n) ==
    LET sources == GetSourceNodes(l, GetCell(l, n))
        column == SelectInSeq(GetDestinationNodes(l, GetCell(l, n)), LAMBDA d : d = n)
    IN  IF column = 0 THEN <<>> ELSE [i \in DOMAIN sources |-> m[l][sources[i]][column]]

-----------------------------------------------------------------------------
(***************************************************************************)
(* A heap: keys, whether a node was reached by a shortcut, parents, and    *)
(* the nodes that are not settled.  A shorter way replaces a longer one.   *)
(***************************************************************************)
StartHeap(keys) == [key |-> keys, parent |-> [n \in DOMAIN keys |-> n],
                    clique |-> [n \in DOMAIN keys |-> FALSE], open |-> DOMAIN keys]

\* The weight of the cheapest way to v among `ways` [to, weight, clique].
Cheapest(ways, v) == Least({w.weight : w \in {x \in ways : x.to = v}})

\* The ways on from a node; one that is no shorter than what is known changes nothing.
insertOrUpdate(heap, node, ways) ==
    LET known == DOMAIN heap.key
        reached == {w.to : w \in ways}
        via(v) == heap.key[node] + Cheapest(ways, v)
        better(v) == v \in reached /\ (v \in known => via(v) < heap.key[v])
        clique(v) == \E w \in ways : w.to = v /\ w.weight = Cheapest(ways, v) /\ w.clique
    IN  [key    |-> [v \in known \cup reached |-> IF better(v) THEN via(v) ELSE heap.key[v]],
         parent |-> [v \in known \cup reached |-> IF better(v) THEN node ELSE heap.parent[v]],
         clique |-> [v \in known \cup reached |-> IF better(v) THEN clique(v) ELSE heap.clique[v]],
         open   |-> heap.open \cup (reached \ known)]

MinKey(heap) == Least({heap.key[n] : n \in heap.open})

MinNodes(heap) == {n \in heap.open : heap.key[n] = MinKey(heap)}

DeleteMin(heap, node) == [heap EXCEPT !.open = @ \ {node}]

\* The shortcuts of the sub-cell.  A destination that is not allowed is passed over without
\* moving on in the list of destinations.
SubcellWays(m, l, node, allowed) ==
    LET row == GetOutWeight(m, l - 1, node)
        destinations == GetDestinationNodes(l - 1, GetCell(l - 1, node))
        passed[k \in 0 .. Len(row)] ==
            IF k = 0 THEN 0
            ELSE IF row[k] = INVALID_EDGE_WEIGHT \/ destinations[passed[k - 1] + 1] \in allowed
            THEN passed[k - 1] + 1 ELSE passed[k - 1]
        to(k) == destinations[passed[k - 1] + 1]
    IN  {[to |-> to(k), weight |-> row[k], clique |-> TRUE] :
           k \in {j \in DOMAIN row : row[j] # INVALID_EDGE_WEIGHT /\ to(j) \in allowed}}

\* Mutant: the edges between the nodes of one sub-cell are relaxed, its borders are not.
RelaxInsideSubcell(l, node, e) == l = 1 \/ GetCell(l - 1, node) = GetCell(l - 1, e.to)

\* Edges inside a sub-cell are covered by its shortcuts.
CrossesSubcells(l, node, e) == l = 1 \/ GetCell(l - 1, node) # GetCell(l - 1, e.to)

RelaxNode(m, l, heap, node, allowed) ==
    LET shortcuts == IF l = 1 \/ heap.clique[node] THEN {} ELSE SubcellWays(m, l, node, allowed)
        out == {e \in GetInternalEdgeRange(l, node) :
                  e.to \in allowed /\ e.forward /\ CrossesSubcells(l, node, e)}
        edges == {[to |-> e.to, weight |-> e.weight, clique |-> FALSE] : e \in out}
    IN  insertOrUpdate(heap, node, shortcuts \cup edges)

\* The search from one source until all allowed destinations are settled; no node is
\* settled twice.
explore(m, l, source, destinations, allowed) ==
    LET turn[i \in 0 .. N] ==
            IF i = 0 THEN [heap |-> StartHeap([n \in {source} |-> 0]), left |-> destinations]
            ELSE LET s == turn[i - 1]
                     node == CHOOSE n \in MinNodes(s.heap) : TRUE
                 IN  IF s.heap.open = {} \/ s.left = {} THEN s
                     ELSE [heap |-> RelaxNode(m, l, DeleteMin(s.heap, node), node, allowed),
                           left |-> s.left \ {node}]
    IN  turn[N].heap

\* Customize: the rows of the allowed sources of a cell.
Customize(m, l, c, allowed) ==
    LET destinations == GetDestinationNodes(l, c)
        row(s) == LET heap == explore(m, l, s, ToSet(destinations) \cap allowed, allowed)
                  IN  [i \in DOMAIN destinations |->
                         IF destinations[i] \in DOMAIN heap.key THEN heap.key[destinations[i]]
                         ELSE INVALID_EDGE_WEIGHT]
        sources == ToSet(GetSourceNodes(l, c)) \cap allowed
    IN  [m EXCEPT ![l] = [n \in Nodes |-> IF n \in sources THEN row(n) ELSE @[n]]]

-----------------------------------------------------------------------------
CustomizerInit ==
    /\ network \in Networks /\ partition \in Partitions /\ node_filters \in NodeFilters
    /\ base = prepareEdgesForUsageInGraph(network)
    /\ level = 1
    /\ todo = Cells(1)
    /\ metric = MakeMetric
    /\ metrics = <<>>

\* An iteration of the parallel loop over the cells of a level.  After the last one the
\* next level begins, after the last level the next filter.
CustomizeCell(c) ==
    LET customized == Customize(metric, level, c, node_filters[Len(metrics) + 1])
    IN  /\ Len(metrics) < Len(node_filters)
        /\ c \in todo
        /\ IF todo # {c}
           THEN /\ todo' = todo \ {c} /\ metric' = customized
                /\ UNCHANGED <<level, metrics>>
           ELSE IF level < Levels
           THEN /\ level' = level + 1 /\ todo' = Cells(level + 1) /\ metric' = customized
                /\ UNCHANGED metrics
           ELSE /\ metrics' = Append(metrics, customized)
                /\ level' = 1 /\ todo' = Cells(1) /\ metric' = MakeMetric
        /\ UNCHANGED <<network, partition, node_filters, base>>

CustomizerStep == \E c \in todo : CustomizeCell(c)

CustomizerSpec == CustomizerInit /\ [][CustomizerStep]_customizerVars

-----------------------------------------------------------------------------
\* The turns of the input that a filter allows, with their weights.
AllowedTurns(i) ==
    {[from |-> t.from, to |-> t.to, weight |-> TurnWeight(network, t)] :
        t \in {u \in network.turns : {u.from, u.to} \subseteq node_filters[i] /\ u.from # u.to}}

\* Those inside a cell.
CellTurns(i, l, c) == {t \in AllowedTurns(i) : GetCell(l, t.from) = c /\ GetCell(l, t.to) = c}

\* The rows of a cell hold the shortest distances inside it.
CellExact(m, i, l, c) ==
    LET destinations == GetDestinationNodes(l, c)
    IN  \A s \in ToSet(GetSourceNodes(l, c)) \cap node_filters[i] : \A k \in DOMAIN destinations :
            m[l][s][k] = DistancesFrom(CellTurns(i, l, c), s)[destinations[k]]

\* A finished metric holds, for all boundary nodes of all cells of all levels, the shortest
\* distances inside the cell past allowed nodes (cell_customizer.hpp: "d(parent, node) +
\* d(node, v) >= d(parent, v)"), however the cells of a level were interleaved.  Looked at
\* when it is new; no step changes it later.
MetricExact ==
    metrics # <<>> /\ level = 1 /\ todo = Cells(1) =>
        \A l \in 1 .. Levels : \A c \in Cells(l) : CellExact(metrics[Len(metrics)], Len(metrics), l, c)

-----------------------------------------------------------------------------
(***************************************************************************)
(* The inductive invariant of the customisation.                           *)
(***************************************************************************)
\* The input is as assumed, and the graph is made from it.
InputInv ==
    /\ network \in Networks /\ partition \in Partitions /\ node_filters \in NodeFilters
    /\ base = prepareEdgesForUsageInGraph(network)

\* A metric has a row for every node, with an entry for each destination of its cell.
IsMetric(m) ==
    /\ m \in [1 .. Levels -> [Nodes -> Seq(Nat)]]
    /\ \A l \in 1 .. Levels : \A n \in Nodes : DOMAIN m[l][n] = DOMAIN GetDestinationNodes(l, GetCell(l, n))

\* The cells that are finished are exact, also while others of their level are not: their
\* rows are what the next level reads (cell_customizer.hpp, Customize).
CustomizerInv ==
    /\ InputInv
    /\ level \in 1 .. Levels /\ todo \subseteq Cells(level)
    /\ IsMetric(metric)
    /\ metrics \in Seq([1 .. Levels -> [Nodes -> Seq(Nat)]]) /\ Len(metrics) <= Len(node_filters)
    /\ Len(metrics) < Len(node_filters) =>
         \A l \in 1 .. Levels : \A c \in Cells(l) :
            l < level \/ (l = level /\ c \notin todo) => CellExact(metric, Len(metrics) + 1, l, c)
    /\ \A i \in 1 .. Len(metrics) : \A l \in 1 .. Levels : \A c \in Cells(l) : CellExact(metrics[i], i, l, c)
=============================================================================

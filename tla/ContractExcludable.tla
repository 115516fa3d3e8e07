------------------------- MODULE ContractExcludable -------------------------
(***************************************************************************)
(* Contractor::Run and contractor/contract_excludable_graph.hpp: one       *)
(* hierarchy for every combination of road classes a query may exclude.    *)
(* The nodes no filter excludes are contracted first, once for all         *)
(* filters; the core that is left is contracted again for every filter,    *)
(* without the nodes it excludes.  ContractedEdgeContainer keeps the union *)
(* of all edges, each with the filters it is valid for.                    *)
(***************************************************************************)
EXTENDS Contractor

CONSTANTS Inputs,       \* sets of arcs [from, to, weight]: the edge-expanded graphs
          FilterLists,  \* sequences of sets of nodes: what each exclude combination allows
          Bounds,       \* the node weights, INVALID_EDGE_WEIGHT for one-way streets
          BaseCore      \* number of nodes the shared contraction leaves (10% of N in the code)

VARIABLES
    arcs,           \* the input
    filters,        \* node_filters
    bounds,         \* node_weights
    filter_index,   \* filter whose core is contracted, 0 for the shared contraction
    shared_core,    \* [graph, nodes]: shared_core_graph and is_shared_core
    container       \* edge_container: function from edges to the filters they are valid for

excludableVars == <<arcs, filters, bounds, filter_index, shared_core, container>>

\* toEdges<QueryEdge>
toEdges(g) ==
    UNION {{[source |-> n, to |-> e.to, weight |-> e.weight, id |-> e.id, shortcut |-> e.shortcut,
             forward |-> e.forward, backward |-> e.backward] : e \in ToSet(Adjacent(g, n))} : n \in Nodes}

\* ContractedEdgeContainer::Merge: known edges get one more flag, new ones only this flag.
Merge(old, edges, flag) ==
    [e \in DOMAIN old \cup edges |-> (IF e \in DOMAIN old THEN old[e] ELSE {})
                                       \cup (IF e \in edges THEN {flag} ELSE {})]

ExcludableInit ==
    /\ arcs \in Inputs /\ filters \in FilterLists /\ bounds \in Bounds
    /\ filter_index = 0
    /\ shared_core = [graph |-> EmptyGraph, nodes |-> {}]
    /\ container = <<>>
    /\ ContractorIdle

\* One filter that allows everything: contractFullGraph.
Full == Len(filters) = 1 /\ filters[1] = Nodes

\* The nodes all filters allow.
AlwaysAllowed == {n \in Nodes : \A i \in DOMAIN filters : n \in filters[i]}

\* contractFullGraph, or the shared contraction of contractExcludableGraph.
BeginContraction ==
    /\ phase = "idle"
    /\ IF Full THEN contractGraph(toContractorGraph(arcs), Nodes, Nodes, bounds, 0)
       ELSE contractGraph(toContractorGraph(arcs), Nodes, AlwaysAllowed, bounds, BaseCore)
    /\ UNCHANGED excludableVars

\* contractFullGraph returns.
FullGraphContracted ==
    /\ phase = "returned" /\ Full
    /\ container' = Merge(<<>>, toEdges(graph), 1)
    /\ phase' = "written"
    /\ UNCHANGED <<graph, node_data, remaining, number_of_core_nodes, new_to_old, next_renumbering,
                   batch, todo, inserted, arcs, filters, bounds, filter_index, shared_core>>

\* The edges that are not between core nodes are final, each for the filters that allow
\* both its ends; the rest is the core, contracted for the first filter.
SharedGraphContracted ==
    LET core == {n \in Nodes : node_data.is_core[n]}
        done == {e \in toEdges(graph) : ~(e.source \in core /\ e.to \in core)}
    IN  /\ phase = "returned" /\ ~Full /\ filter_index = 0
        /\ container' = [e \in done |-> {i \in DOMAIN filters : {e.source, e.to} \subseteq filters[i]}]
        /\ shared_core' = [graph |-> Filter(graph, core), nodes |-> core]
        /\ filter_index' = 1
        /\ contractGraph(Filter(Filter(graph, core), filters[1]), core, core, bounds, 0)
        /\ UNCHANGED <<arcs, filters, bounds>>

\* The core of a filter is contracted: its edges are merged, the next one follows.
FilterContracted ==
    /\ phase = "returned" /\ filter_index > 0
    /\ container' = Merge(container, toEdges(graph), filter_index)
    /\ IF filter_index < Len(filters)
       THEN /\ filter_index' = filter_index + 1
            /\ contractGraph(Filter(shared_core.graph, filters[filter_index + 1]),
                             shared_core.nodes, shared_core.nodes, bounds, 0)
       ELSE /\ phase' = "written"
            /\ UNCHANGED <<graph, node_data, remaining, number_of_core_nodes, new_to_old,
                           next_renumbering, batch, todo, inserted, filter_index>>
    /\ UNCHANGED <<arcs, filters, bounds, shared_core>>

ExcludableStep ==
    \/ BeginContraction
    \/ FullGraphContracted
    \/ SharedGraphContracted
    \/ FilterContracted
    \/ ContractorStep /\ UNCHANGED excludableVars

-----------------------------------------------------------------------------
\* What the contraction works on, with the weights it gives them.
InputArcs == {[a EXCEPT !.weight = InputWeight(a)] : a \in {b \in arcs : b.from # b.to}}

\* Types, and no edge of the shared graph is free of charge: toContractorGraph lifts a weight
\* of 0 to 1 (graph_contractor_adaptors.hpp), on which stalling and loops rely.
ContractorTypeOK ==
    /\ phase \in {"idle", "prioritise", "head", "contract", "delete", "insert", "update", "returned",
                  "written", "gone"}
    /\ remaining \subseteq Nodes /\ batch \subseteq remaining
    /\ new_to_old \in [Nodes -> Nodes]
    /\ \A e \in ToSet(graph.list) : e.to \in 0 .. N /\ (e.to # 0 => e.weight >= 1)

\* The nodes one loop contracts concurrently share no edge and no neighbour, so what one
\* iteration writes (bounds, adjacency lists and priorities of neighbours) no other touches
\* (graph_contractor.cpp:197, "This only works due to the independent node-setting").
ContractedApart ==
    phase \in {"contract", "delete"} =>
        \A m, n \in batch : m # n => /\ m \notin Neighbours(graph, n)
                                     /\ Neighbours(graph, m) \cap Neighbours(graph, n) = {}

\* The array of the shared graph stays consistent under concurrent deletion and insertion
\* and in renumbering (dynamic_graph.hpp), and counts its edges correctly whenever the
\* edge list is read from it (assertion in toEdges).
ArrayConsistent ==
    /\ WellFormed(graph)
    /\ phase = "returned" => graph.count = NumberOfEdges(graph)

\* The arcs of the nodes that are left, under their original numbers.
LiveArcs == UNION {{[from |-> new_to_old[n], to |-> new_to_old[e.to], weight |-> e.weight] :
                      e \in {f \in ToSet(Adjacent(graph, n)) : f.forward}} : n \in {m \in Nodes : node_data.is_core[m]}}

\* Before every round of the first contraction, the nodes that are left have the shortest
\* distances of the input: a shortcut replaces every way past a contracted node that no
\* witness replaces (ContractNode, InsertEdges).
DistancesPreserved ==
    phase = "head" /\ filter_index = 0 =>
        \A m, n \in {x \in Nodes : node_data.is_core[x]} :
            DistancesFrom(LiveArcs, new_to_old[m])[new_to_old[n]]
                = DistancesFrom(InputArcs, new_to_old[m])[new_to_old[n]]

\* Two priorities that tie although one of them is greater: both nodes step back.  (Floats from
\* 1 upwards are never that close together.)
NearTie(p, q) == Tie(p, q) /\ (Greater(p, q) \/ Greater(q, p))

\* A round of the contraction finds a node to contract, however priorities and hashes tie,
\* unless two priorities tie without being equal (asserted at the end of the round; without
\* a node the loop would never end).  The tie test is then an equality, and the order by
\* priority, hash and number has a first node.
RoundContracts ==
    /\ phase = "head"
    /\ Cardinality(remaining) > number_of_core_nodes
    /\ \A m, n \in remaining : ~ NearTie(node_data.priorities[m], node_data.priorities[n])
    => \E n \in remaining : IsNodeIndependent(n)
=============================================================================

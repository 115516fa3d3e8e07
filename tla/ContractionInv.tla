--------------------------- MODULE ContractionInv ---------------------------
(***************************************************************************)
(* The inductive invariant of the contraction: why the loops over the      *)
(* shared graph do not disturb each other and always find a node.          *)
(***************************************************************************)
EXTENDS CHRouting

\* What the input files hold: arcs between nodes, bounds that are weights.
ASSUME ContractionAssumption ==
    /\ Hash \in [Nodes -> Int]
    /\ \A input \in Inputs : input \subseteq [from : Nodes, to : Nodes, weight : Nat]
    /\ Bounds \subseteq [Nodes -> Nat]
    /\ BaseCore \in Nat

\* The nodes that are not contracted.
Core == {n \in Nodes : node_data.is_core[n]}

\* The edges of a ContractorGraph; the id of a shortcut is its middle node.
ContractorEdges ==
    {e \in [to : Nodes, weight : Nat \ {0}, orig : Nat \ {0}, id : 0 .. N,
            shortcut : BOOLEAN, forward : BOOLEAN, backward : BOOLEAN] : e.shortcut => e.id \in Nodes}

Shortcuts ==
    [source : Nodes, to : Nodes, weight : Nat \ {0}, orig : Nat \ {0}, id : Nodes,
     shortcut : {TRUE}, forward : BOOLEAN, backward : BOOLEAN]

LoopPhases == {"prioritise", "head", "contract", "delete", "insert", "update"}
RunPhases == LoopPhases \cup {"returned"}
Phases == RunPhases \cup {"idle", "written", "gone"}

\* ContractorNodeData of a run.
NodeRecords ==
    [is_core : [Nodes -> BOOLEAN], contractable : [Nodes -> BOOLEAN],
     priorities : [Nodes -> Int \X Nat], weights : [Nodes -> Nat], depths : [Nodes -> Nat]]

\* The input does not change.
InputInv == arcs \in Inputs /\ bounds \in Bounds

\* The shared core is a consistent array, in which edges between nodes of the core lead
\* there and back.
SharedCoreInv ==
    /\ Consistent(shared_core.graph, ContractorEdges)
    /\ shared_core.nodes \subseteq Nodes
    /\ \A u \in Nodes : \A v \in GetTargets(shared_core.graph, u) :
         u \in GetTargets(shared_core.graph, v) /\ u \in shared_core.nodes /\ v \in shared_core.nodes

\* The graph is a consistent array, its edges counted when a contraction is over.
GraphInv ==
    /\ Consistent(graph, ContractorEdges)
    /\ phase = "returned" => graph.count = NumberOfEdges(graph)

NumberingInv == IsNumbering(new_to_old) /\ number_of_core_nodes \in Nat

\* The data of the nodes has its types; only nodes that stay have a priority without limit.
NodeInv ==
    phase \in RunPhases =>
        /\ node_data \in NodeRecords
        /\ \A n \in Nodes : node_data.contractable[n] => node_data.priorities[n][2] > 0

\* The pool and the batch of a round.
PoolInv ==
    /\ remaining \subseteq Nodes /\ batch \subseteq remaining
    /\ phase \in LoopPhases =>
         /\ remaining \ batch \subseteq Core
         /\ \A n \in remaining : node_data.contractable[n]
         /\ \A n \in Core \ remaining : ~ node_data.contractable[n] /\ node_data.priorities[n] = MaxPriority
         /\ phase \in {"prioritise", "head"} => batch = {}
         /\ phase = "prioritise" => todo \subseteq remaining
         /\ phase = "contract" => batch \subseteq Core
         /\ phase \in {"contract", "delete"} => todo \subseteq batch
         /\ phase \in {"delete", "insert", "update"} => batch \cap Core = {}

\* The edges of nodes that are left lead to nodes that are left, and back.
SymmetryInv ==
    phase \in RunPhases => \A u \in Core : \A v \in GetTargets(graph, u) :
        /\ u \in GetTargets(graph, v)
        /\ v \in Core \/ (phase = "delete" /\ v \in todo)

\* The shortcuts that wait to be inserted are between nodes that are left, there and back.
InsertedInv ==
    /\ inserted \in [Threads -> Seq(Shortcuts)]
    /\ \A t \in Threads :
         /\ phase \notin {"contract", "delete"} /\ ~(phase = "insert" /\ t \in todo) => inserted[t] = <<>>
         /\ \A e \in ToSet(inserted[t]) :
              /\ e.source \in Core \ batch /\ e.to \in Core \ batch
              /\ \E f \in ToSet(inserted[t]) : f.source = e.to /\ f.to = e.source

\* What the loops of contractGraph rely on from step to step, distances and routes apart.
RunInv ==
    /\ phase \in Phases
    /\ GraphInv /\ NumberingInv /\ NodeInv /\ PoolInv /\ SymmetryInv /\ InsertedInv
    /\ ContractedApart

\* The loops and what they are called with: the array of the shared graph stays consistent,
\* what is left of the graph has edges there and back, batches are contracted apart
\* (graph_contractor.cpp, contract_excludable_graph.hpp).
ContractorInv == InputInv /\ SharedCoreInv /\ RunInv

-----------------------------------------------------------------------------
(***************************************************************************)
(* Distances.  The potentials feasible for the input are, on the nodes     *)
(* that are left, those feasible for the edges between them and for the    *)
(* shortcuts that wait.                                                    *)
(***************************************************************************)
Directions == {"forward", "backward"}

Open(e, d) == IF d = "forward" THEN e.forward ELSE e.backward

\* u has an edge to v, of weight w or less.
Leads(g, d, u, v, w) == \E e \in EdgeSet(g, u) : Open(e, d) /\ e.to = v /\ e.weight <= w

\* A list of shortcuts has one from u to v, of weight w or less.
Offers(edges, d, u, v, w) == \E e \in ToSet(edges) : Open(e, d) /\ e.source = u /\ e.to = v /\ e.weight <= w

\* The edges of g between nodes of C, and the shortcuts the threads keep, as arcs.
Arcs == [from : Nodes, to : Nodes, weight : Nat \ {0}]
ArcsBetween(g, C) == {a \in Arcs : a.from \in C /\ a.to \in C /\ Leads(g, "forward", a.from, a.to, a.weight)}
ArcsKept(lists) == {a \in Arcs : \E t \in Threads : Offers(lists[t], "forward", a.from, a.to, a.weight)}

\* The arcs that do not touch S.
Without(A, S) == {a \in A : a.from \notin S /\ a.to \notin S}

\* A way from u past n to v.
Through(A, n, u, v, length) ==
    \E a, b \in A : a.from = u /\ a.to = n /\ b.from = n /\ b.to = v /\ length = a.weight + b.weight

\* A way past n from u to v is as long as some arc of P, or no shorter than a way around n.
Bypassed(A, P, n) ==
    \A u, v \in Nodes \ {n} : \A length \in Nat : u # v /\ Through(A, n, u, v, length) =>
        \/ \E c \in P : c.from = u /\ c.to = v /\ c.weight <= length
        \/ \A p \in Potentials : Feasible(p, Without(A, {n})) => p[v] <= p[u] + length

\* The arcs A between nodes of C, numbered anew, have the distances of the input: what is
\* feasible for the input is feasible for A, and what is feasible for A can be extended to
\* the other nodes.
Represents(A, C, names, input) ==
    /\ \A p \in Potentials : Feasible(p, input) => Feasible([n \in Nodes |-> p[names[n]]], A)
    /\ \A p \in Potentials : Feasible(p, A) =>
         \E q \in Potentials : Feasible(q, input) /\ \A n \in C : q[names[n]] = p[n]

\* An edge that can be used from u to v has an image at v that says so, and so do shortcuts.
HasMirrors(g, C) ==
    \A u, v \in C : \A w \in Nat : Leads(g, "forward", u, v, w) <=> Leads(g, "backward", v, u, w)
IsMirrored(edges) ==
    \A u, v : \A w \in Nat : Offers(edges, "forward", u, v, w) <=> Offers(edges, "backward", v, u, w)

\* The edges of g between nodes of C, with the shortcuts that wait, have the distances of the
\* input, lead there and back, and stand for all ways past the nodes that are contracted.
KeepsDistances(g, C, lists, names, input, contracted) ==
    /\ Represents(ArcsBetween(g, C) \cup ArcsKept(lists), C, names, input)
    /\ HasMirrors(g, C) /\ \A t \in Threads : IsMirrored(lists[t])
    /\ \A n \in contracted : Bypassed(ArcsBetween(g, C), ArcsKept(lists), n)

\* The nodes the loop that contracts has been at; they leave the core when it ends.
Contracted == IF phase = "contract" THEN batch \ todo ELSE {}

RunDistances == KeepsDistances(graph, Core, inserted, new_to_old, InputArcs, Contracted)

\* Why the first contraction keeps distances (graph_contractor.cpp, contractGraph): between
\* any two of its steps what is left of the graph, with the shortcuts that wait, has the
\* distances of the input.
DistancesInv ==
    /\ phase \in RunPhases \cup {"idle"} => filter_index \in Nat
    /\ phase \in LoopPhases /\ filter_index = 0 => RunDistances
=============================================================================

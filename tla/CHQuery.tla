------------------------------ MODULE CHQuery ------------------------------
(***************************************************************************)
(* engine/routing_algorithms/routing_base_ch: the bidirectional search on  *)
(* a contraction hierarchy (search, routingStep, stallAtNode), with the    *)
(* heaps of util/query_heap.hpp, and the unpacking of the path it finds.   *)
(* `facade` is the set of edges of the hierarchy the query may use; nodes  *)
(* keep their edges to nodes contracted later only.                        *)
(***************************************************************************)
EXTENDS DynamicGraph

VARIABLES
    facade,         \* edges of the QueryGraph that the exclude filter lets through
    endpoints,      \* [source, target]: weights of the source and target segments by node
    forward_heap, reverse_heap,
    middle,         \* middle_node_id, 0 for SPECIAL_NODEID
    weight,         \* upper_bound, and at the end the weight of the route
    turn            \* "none", the direction of the next routingStep, or "found"

queryVars == <<endpoints, forward_heap, reverse_heap, middle, weight, turn>>

-----------------------------------------------------------------------------
(***************************************************************************)
(* QueryHeap: key and parent of every node ever inserted, and the nodes    *)
(* still in the heap.                                                      *)
(***************************************************************************)
EmptyHeap == [key |-> <<>>, parent |-> <<>>, open |-> {}]

WasInserted(heap, node) == node \in DOMAIN heap.key

MinKey(heap) == Least({heap.key[n] : n \in heap.open})

MinNodes(heap) == {n \in heap.open : heap.key[n] = MinKey(heap)}

\* The heap of the start nodes; a start node is its own parent.
StartHeap(keys) == [key |-> keys, parent |-> [n \in DOMAIN keys |-> n], open |-> DOMAIN keys]

\* DeleteMin.
Settled(heap, node) == [heap EXCEPT !.open = @ \ {node}]

\* DeleteAll: the keys and parents stay readable.
DeleteAll(heap) == [heap EXCEPT !.open = {}]

-----------------------------------------------------------------------------
EdgesOf(node) == {e \in facade : e.source = node}

\* The edges a search in the direction follows.
Follows(dir, e) == IF dir = "forward" THEN e.forward ELSE e.backward

\* stallAtNode: a higher node reaches this one on a shorter way.
stallAtNode(dir, heap, node) ==
    \E e \in EdgesOf(node) : /\ Follows(IF dir = "forward" THEN "reverse" ELSE "forward", e)
                             /\ WasInserted(heap, e.to)
                             /\ heap.key[e.to] + e.weight < heap.key[node]

\* relaxOutgoingEdges.  An improved key leaves its node in or out of the heap as it was.
relaxOutgoingEdges(dir, heap, node) ==
    LET out == {e \in EdgesOf(node) : Follows(dir, e)}
        via(v) == Least({heap.key[node] + e.weight : e \in {f \in out : f.to = v}})
        known == DOMAIN heap.key
        reached == {e.to : e \in out}
        better(v) == v \in reached /\ (v \in known => via(v) < heap.key[v])
    IN  [key    |-> [v \in known \cup reached |-> IF better(v) THEN via(v) ELSE heap.key[v]],
         parent |-> [v \in known \cup reached |-> IF better(v) THEN node ELSE heap.parent[v]],
         open   |-> heap.open \cup (reached \ known)]

\* The cheapest loop at a node that makes a route of a weight that is not negative.
LoopWeights(dir, node, w) ==
    {w + e.weight : e \in {f \in EdgesOf(node) : f.to = node /\ Follows(dir, f)}} \cap Nat

\* min_edge_offset: the start nodes carry negative keys, so the search may not stop at
\* the upper bound itself.
MinEdgeOffset == Least({0} \cup {0 - endpoints.source[n] : n \in DOMAIN endpoints.source})

\* Mutant: the search of a direction ends as soon as the two have met.
EndsWhenMet(heap, node, bound) == bound # INVALID_EDGE_WEIGHT

\* The search of this direction ends when nothing it settles can beat the upper bound.
PastBound(heap, node, bound) == heap.key[node] + MinEdgeOffset > bound

\* routingStep: settle a node of `heap`; where the other search has been there too, the
\* two ways make a route, unless it would run against the direction of the segment that
\* source and target share: then a loop at the node is needed.
routingStep(dir, heap, other, node, heap2, middle2, weight2) ==
    LET meets == WasInserted(other, node)
        w == heap.key[node] + other.key[node]
        better == meets /\ w < weight
        candidates == IF ~better THEN {} ELSE IF w < 0 THEN {l \in LoopWeights(dir, node, w) : l < weight}
                      ELSE {w}
        bound == Least({weight} \cup candidates)
        popped == Settled(heap, node)
    IN  /\ weight2 = bound
        /\ middle2 = IF candidates = {} THEN middle ELSE node
        /\ heap2 = IF PastBound(heap, node, bound) THEN DeleteAll(popped)
                   ELSE IF stallAtNode(dir, heap, node) THEN popped
                   ELSE relaxOutgoingEdges(dir, popped, node)

-----------------------------------------------------------------------------
QueryInit ==
    /\ facade = {} /\ endpoints = [source |-> <<>>, target |-> <<>>]
    /\ forward_heap = EmptyHeap /\ reverse_heap = EmptyHeap
    /\ middle = 0 /\ weight = INVALID_EDGE_WEIGHT /\ turn = "none"

\* insertNodesInHeaps: the weight from the start of its segment to the source is already
\* driven, the one to the target still to be driven.
BeginSearch(source, target) ==
    /\ turn = "none"
    /\ endpoints' = [source |-> source, target |-> target]
    /\ forward_heap' = StartHeap([n \in DOMAIN source |-> 0 - source[n]])
    /\ reverse_heap' = StartHeap(target)
    /\ middle' = 0 /\ weight' = INVALID_EDGE_WEIGHT
    /\ turn' = "forward"
    /\ UNCHANGED facade

\* The loop of search(): the two directions take turns, an empty heap loses its turn.
ForwardStep ==
    /\ turn = "forward" /\ forward_heap.open # {}
    /\ \E n \in MinNodes(forward_heap) :
         routingStep("forward", forward_heap, reverse_heap, n, forward_heap', middle', weight')
    /\ turn' = IF reverse_heap.open # {} THEN "reverse"
               ELSE IF forward_heap'.open # {} THEN "forward" ELSE "found"
    /\ UNCHANGED <<facade, endpoints, reverse_heap>>

ReverseStep ==
    /\ turn = "reverse" /\ reverse_heap.open # {}
    /\ \E n \in MinNodes(reverse_heap) :
         routingStep("reverse", reverse_heap, forward_heap, n, reverse_heap', middle', weight')
    /\ turn' = IF forward_heap.open # {} THEN "forward"
               ELSE IF reverse_heap'.open # {} THEN "reverse" ELSE "found"
    /\ UNCHANGED <<facade, endpoints, forward_heap>>

\* The heaps are cleared for the next query of the thread.
EndQuery ==
    /\ turn = "found"
    /\ endpoints' = [source |-> <<>>, target |-> <<>>]
    /\ forward_heap' = EmptyHeap /\ reverse_heap' = EmptyHeap
    /\ middle' = 0 /\ weight' = INVALID_EDGE_WEIGHT /\ turn' = "none"
    /\ UNCHANGED facade

-----------------------------------------------------------------------------
(***************************************************************************)
(* The route of a finished search.                                         *)
(***************************************************************************)
\* The nodes from the parent of `node` to the root.
retrievePackedPathFromSingleHeap(heap, node) ==
    LET up[i \in 0 .. N] == IF i = 0 THEN node ELSE heap.parent[up[i - 1]]
        length == CHOOSE l \in 0 .. N : /\ heap.parent[up[l]] = up[l]
                                        /\ \A i \in 0 .. l - 1 : heap.parent[up[i]] # up[i]
    IN  [i \in 1 .. length |-> up[i]]

\* search(), its end: a loop makes up the whole path, or the two halves are joined.
PackedLeg ==
    IF weight # forward_heap.key[middle] + reverse_heap.key[middle] THEN <<middle, middle>>
    ELSE Reverse(retrievePackedPathFromSingleHeap(forward_heap, middle)) \o <<middle>>
           \o retrievePackedPathFromSingleHeap(reverse_heap, middle)

\* StaticGraph::FindSmallestEdge among the edges the filter accepts; SPECIAL_EDGEID is {}.
FindSmallestEdge(from, to, dir) ==
    LET found == {e \in EdgesOf(from) : e.to = to /\ Follows(dir, e)}
        smallest == {e \in found : \A f \in found : e.weight <= f.weight}
    IN  IF found = {} THEN {} ELSE {CHOOSE e \in smallest : TRUE}

\* The edge a pair of consecutive nodes stands for: on the way up at the first, on the way
\* down at the second.
PackedEdge(from, to) ==
    LET up == FindSmallestEdge(from, to, "forward")
    IN  IF up # {} THEN up ELSE FindSmallestEdge(to, from, "reverse")

\* unpackPath: the original edges of a packed path, shortcuts replaced by their halves;
\* `depth` bounds the recursion.  An arc of weight 0 in the result is an edge that is missing.
unpackPath(path, depth) ==
    LET missing(p) == <<[from |-> p[1], to |-> p[2], weight |-> 0]>>
        unpack[d \in 0 .. depth] == [p \in Nodes \X Nodes |->
            LET found == PackedEdge(p[1], p[2])
                edge == CHOOSE e \in found : TRUE
            IN  IF found = {} \/ d = 0 THEN missing(p)
                ELSE IF edge.shortcut
                THEN unpack[d - 1][<<p[1], edge.id>>] \o unpack[d - 1][<<edge.id, p[2]>>]
                ELSE <<[from |-> p[1], to |-> p[2], weight |-> edge.weight]>>]
    IN  FlattenSeq([i \in 1 .. Len(path) - 1 |-> unpack[depth][<<path[i], path[i + 1]>>]])
=============================================================================

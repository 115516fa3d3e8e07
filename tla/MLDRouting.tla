----------------------------- MODULE MLDRouting -----------------------------
(***************************************************************************)
(* engine/routing_algorithms/routing_base_mld.hpp: the bidirectional       *)
(* search on the cells osrm-customize has weighted, and the unpacking of   *)
(* the shortcuts on the path it finds, level by level.                     *)
(*                                                                         *)
(* A search is [forward, reverse, min, middle, weight]: the two heaps,     *)
(* their least keys, where they met (0 for SPECIAL_NODEID) and the weight  *)
(* there.  Its `args` are what the code passes as template arguments: the  *)
(* end points of the query, or a fixed level and the cell it must not      *)
(* leave.                                                                  *)
(***************************************************************************)
EXTENDS CellCustomizer

CONSTANT Phantoms       \* functions from sets of nodes to weights: sources and targets

VARIABLES
    filter,         \* index of the metric the query uses, 0 before the data is loaded
    endpoints,      \* [source, target]: weights of the source and target segments by node
    query,          \* the search
    stage           \* "none", "search" or "found"

queryVars == <<filter, endpoints, query, stage>>

allVars == <<customizerVars, queryVars>>

-----------------------------------------------------------------------------
Unrestricted == [restricted |-> FALSE]
Inside(l, cell) == [restricted |-> TRUE, level |-> l, parent |-> cell]

GetQueryLevel(start, target, node) ==
    Least({GetHighestDifferentLevel(start, node), GetHighestDifferentLevel(target, node)})

getNodeQueryLevel(node, args) ==
    IF args.restricted THEN args.level
    ELSE Least({GetQueryLevel(s, t, node) : s \in DOMAIN endpoints.source, t \in DOMAIN endpoints.target})

checkParentCellRestriction(l, node, args) == args.restricted => GetCell(l + 1, node) = args.parent

\* The shortcuts of the node's cell in the direction, as a sequence of nodes and weights.
ShortcutsOf(dir, l, node) ==
    LET nodes == IF dir = "forward" THEN GetDestinationNodes(l, GetCell(l, node))
                 ELSE GetSourceNodes(l, GetCell(l, node))
        weights == IF dir = "forward" THEN GetOutWeight(metrics[filter], l, node)
                   ELSE GetInWeight(metrics[filter], l, node)
    IN  {[to |-> nodes[i], weight |-> weights[i]] :
           i \in {k \in DOMAIN weights : weights[k] # INVALID_EDGE_WEIGHT /\ nodes[k] # node}}

\* relaxOutgoingEdges.  A node that was reached by a shortcut takes no other one; the weight
\* of an edge is that of the node it leaves and of the turn the edge stands for.
relaxOutgoingEdges(dir, heap, node, args) ==
    LET l == getNodeQueryLevel(node, args)
        shortcuts == IF l >= 1 /\ ~heap.clique[node] THEN ShortcutsOf(dir, l, node) ELSE {}
        out == {e \in GetBorderEdgeRange(l, node) :
                  /\ IF dir = "forward" THEN e.forward ELSE e.backward
                  /\ e.to \in node_filters[filter]
                  /\ checkParentCellRestriction(l, e.to, args)}
        edgeWeight(e) == network.weights[IF dir = "forward" THEN node ELSE e.to] + e.penalty
    IN  insertOrUpdate(heap, node,
                       {[to |-> s.to, weight |-> s.weight, clique |-> TRUE] : s \in shortcuts} \cup
                       {[to |-> e.to, weight |-> edgeWeight(e), clique |-> FALSE] : e \in out})

\* Two searches that meet make a route unless its weight is negative: then the target lies
\* behind the source on the segment they share.
Improves(s, w) == w >= 0 /\ w < s.weight

Opposite(dir) == IF dir = "forward" THEN "reverse" ELSE "forward"

\* An empty heap leaves the least key as it was.
Relaxed(dir, s, heap) ==
    [s EXCEPT ![dir] = heap, !.min[dir] = IF heap.open = {} THEN @ ELSE MinKey(heap)]

\* routingStep, on the heap of the direction.
routingStep(dir, s, node, args) ==
    LET meets == /\ node \in DOMAIN s[Opposite(dir)].key
                 /\ Improves(s, s.forward.key[node] + s.reverse.key[node])
        met == IF meets THEN [s EXCEPT !.middle = node, !.weight = s.forward.key[node] + s.reverse.key[node]]
               ELSE s
    IN  Relaxed(dir, met, relaxOutgoingEdges(dir, DeleteMin(s[dir], node), node, args))

NewSearch(source, target) ==
    [forward |-> StartHeap(source), reverse |-> StartHeap(target),
     min |-> [forward |-> MinKey(StartHeap(source)), reverse |-> MinKey(StartHeap(target))],
     middle |-> 0, weight |-> INVALID_EDGE_WEIGHT]

\* Mutant: the search is over when the two heaps have met.
MayStop(s) == s.middle = 0 /\ (s.forward.open # {} \/ s.reverse.open # {})

\* The condition of the loop in runSearch.
Continues(s) ==
    /\ s.forward.open # {} \/ s.reverse.open # {}
    /\ s.min.forward + s.min.reverse < s.weight

StepUnlessEmpty(dir, s, node, args) ==
    IF s[dir].open = {} THEN s ELSE routingStep(dir, s, node, args)

\* One turn of the loop: a step in each direction whose heap is not empty.  f and r are
\* the nodes the heaps give out.
Turn(s, f, r, args) == StepUnlessEmpty("reverse", StepUnlessEmpty("forward", s, f, args), r, args)

\* The nodes a heap may give out; an empty heap gives none.
Candidates(heap) == IF heap.open = {} THEN {0} ELSE MinNodes(heap)

RECURSIVE runSearch(_, _)
runSearch(s, args) ==
    IF ~Continues(s) THEN s
    ELSE runSearch(Turn(s, CHOOSE n \in Candidates(s.forward) : TRUE,
                           CHOOSE n \in Candidates(s.reverse) : TRUE, args), args)

-----------------------------------------------------------------------------
(***************************************************************************)
(* The path.                                                               *)
(***************************************************************************)
\* retrievePackedPathFromHeap: the edges of the path with their kind.
RECURSIVE PathToStart(_, _)
PathToStart(heap, node) ==
    IF heap.parent[node] = node THEN <<>>
    ELSE <<[from |-> heap.parent[node], to |-> node, clique |-> heap.clique[node]]>>
           \o PathToStart(heap, heap.parent[node])

Turned(path) == [i \in DOMAIN path |-> [path[i] EXCEPT !.from = path[i].to, !.to = path[i].from]]

retrievePackedPath(s) ==
    Reverse(PathToStart(s.forward, s.middle)) \o Turned(PathToStart(s.reverse, s.middle))

\* Mutant: the inner search is held to the cell of the highest level.
WithinTopCell(l, node) == Inside(l - 1, GetCell(Levels, node))

\* What a shortcut of level l is unpacked with: edges and shortcuts one level below, inside
\* the cell the shortcut crosses.
WithinShortcut(l, node) == Inside(l - 1, GetCell(l, node))

\* The rest of search(): shortcuts are searched again one level below, inside their cell.
\* The result has one node per edge: the node it leads to.
RECURSIVE unpackSearch(_, _)
unpackEdge(e, inner) ==
    IF ~e.clique THEN <<e.to>>
    ELSE unpackSearch(runSearch(NewSearch(e.from :> 0, e.to :> 0), inner), inner)

unpackPath(packed, args) ==
    FlattenSeq([i \in DOMAIN packed |->
        unpackEdge(packed[i], WithinShortcut(getNodeQueryLevel(packed[i].from, args), packed[i].from))])

unpackSearch(s, args) == IF s.middle = 0 THEN <<0>> ELSE unpackPath(retrievePackedPath(s), args)

\* The first node of the path, then those the edges lead to.
NodesOf(packed) ==
    <<IF packed = <<>> THEN query.middle ELSE packed[1].from>> \o unpackPath(packed, Unrestricted)

UnpackedNodes == NodesOf(retrievePackedPath(query))

-----------------------------------------------------------------------------
Idle == NewSearch(<<>>, <<>>)

Init ==
    /\ CustomizerInit
    /\ filter = 0 /\ endpoints = [source |-> <<>>, target |-> <<>>]
    /\ query = Idle /\ stage = "none"

Customizing == CustomizerStep /\ UNCHANGED queryVars

\* A query with an exclude filter, between points on nodes it allows and no further along
\* a segment than it is long (insertNodesInHeaps).
Query(i) ==
    /\ Len(metrics) = Len(node_filters) /\ stage = "none"
    /\ \E s, t \in Phantoms :
         /\ DOMAIN s \cup DOMAIN t \subseteq node_filters[i]
         /\ \A n \in DOMAIN s : s[n] <= network.weights[n]
         /\ \A n \in DOMAIN t : t[n] <= network.weights[n]
         /\ endpoints' = [source |-> s, target |-> t]
         /\ query' = NewSearch([n \in DOMAIN s |-> 0 - s[n]], t)
    /\ filter' = i /\ stage' = "search"
    /\ UNCHANGED customizerVars

SearchTurn ==
    /\ stage = "search" /\ Continues(query)
    /\ \E f \in Candidates(query.forward), r \in Candidates(query.reverse) :
         query' = Turn(query, f, r, Unrestricted)
    /\ UNCHANGED <<customizerVars, filter, endpoints, stage>>

SearchEnds ==
    /\ stage = "search" /\ ~Continues(query)
    /\ stage' = "found"
    /\ UNCHANGED <<customizerVars, filter, endpoints, query>>

EndQuery ==
    /\ stage = "found"
    /\ filter' = 0 /\ endpoints' = [source |-> <<>>, target |-> <<>>]
    /\ query' = Idle /\ stage' = "none"
    /\ UNCHANGED customizerVars

Next ==
    \/ Customizing
    \/ \E i \in DOMAIN node_filters : Query(i)
    \/ SearchTurn
    \/ SearchEnds
    \/ EndQuery

Spec == Init /\ [][Next]_allVars

-----------------------------------------------------------------------------
\* The turns a filter allows as the input weighs them: a bonus may make a turn cheaper than
\* the 1 that the edges of the graph weigh at least.
InputTurns ==
    {[from |-> t.from, to |-> t.to, weight |-> network.weights[t.from] + t.penalty] :
        t \in {u \in network.turns : {u.from, u.to} \subseteq node_filters[filter] /\ u.from # u.to}}

\* The weight from a source node to a target node along turns; on a shared segment with
\* the target behind the source, after a round trip.
RouteWeight(turns, s, t) ==
    LET way == IF s = t /\ endpoints.source[s] > endpoints.target[t] THEN RoundTrip(turns, s)
               ELSE DistancesFrom(turns, s)[t]
    IN  IF way = INVALID_EDGE_WEIGHT THEN way ELSE way - endpoints.source[s] + endpoints.target[t]

ShortestRoute(turns) ==
    Least({RouteWeight(turns, s, t) : s \in DOMAIN endpoints.source, t \in DOMAIN endpoints.target})

\* The turns that share an edge of the graph have the same penalty: the edge keeps one.
MergedTurnsAgree ==
    \A t, b \in network.turns :
        t.from = b.to /\ t.to = b.from /\ TurnWeight(network, t) = TurnWeight(network, b) => t.penalty = b.penalty

\* A search may count on finding a route: merged turns agree, and no bonus makes a route
\* from one segment to another weigh less than nothing, which the search takes for a target
\* behind the source.
Searchable == MergedTurnsAgree /\ ShortestRoute(InputTurns) >= 0

\* A finished multi-level search has the weight of a shortest route of the input, with
\* every exclude filter and also when the route comes back to its own segment.  Turns that
\* weigh less than 1 are counted as 1 on shortcuts and as they are elsewhere: then the weight
\* lies between those of the two shortest routes.
SearchShortest ==
    stage = "found" /\ Searchable =>
        query.weight \in ShortestRoute(InputTurns) .. ShortestRoute(AllowedTurns(filter))

\* The weight of a route along nodes from a source to a target.
WeightAlong(turns, nodes) ==
    LET last == Len(nodes)
        weight(i) == Least({t.weight : t \in {u \in turns : u.from = nodes[i] /\ u.to = nodes[i + 1]}})
    IN  FoldLeft(LAMBDA v, i : v + weight(i),
                 endpoints.target[nodes[last]] - endpoints.source[nodes[1]],
                 [i \in 1 .. last - 1 |-> i])

\* Turns lead along the nodes, from a source to a target, and weigh w, except that turns
\* below 1 may have been counted as 1.
IsRouteOfWeight(nodes, w) ==
    LET last == Len(nodes)
    IN  /\ \A i \in 1 .. last - 1 : \E t \in InputTurns : t.from = nodes[i] /\ t.to = nodes[i + 1]
        /\ nodes[1] \in DOMAIN endpoints.source /\ nodes[last] \in DOMAIN endpoints.target
        /\ w \in WeightAlong(InputTurns, nodes) .. WeightAlong(AllowedTurns(filter), nodes)

\* The shortcuts on the path unpack, inside their cells, to turns of the input from a source
\* to a target, of the weight the search found.
SearchUnpacks ==
    stage = "found" /\ query.middle # 0 /\ Searchable => IsRouteOfWeight(UnpackedNodes, query.weight)

\* "Finds the fastest route between coordinates": the route a finished search unpacks to
\* weighs as little as any of the input, whatever its turns cost, and none is found only if
\* there is none.
FastestRoute ==
    stage = "found" =>
        ShortestRoute(InputTurns) = IF query.middle = 0 THEN INVALID_EDGE_WEIGHT
                                    ELSE WeightAlong(InputTurns, UnpackedNodes)
=============================================================================

----------------------------- MODULE CHRouting -----------------------------
(***************************************************************************)
(* osrm-contract followed by queries on the hierarchy it wrote.            *)
(***************************************************************************)
EXTENDS ContractExcludable, CHQuery

CONSTANT Phantoms       \* functions from sets of nodes to weights: sources and targets

Init == ExcludableInit /\ QueryInit

\* The tool has ended; the facade of one exclude filter is opened.
OpenFacade(i) ==
    /\ phase = "written"
    /\ facade' = {e \in DOMAIN container : i \in container[e]}
    /\ filter_index' = i
    /\ phase' = "gone" /\ graph' = EmptyGraph
    /\ node_data' = [is_core |-> [n \in Nodes |-> FALSE]]
    /\ container' = <<>> /\ shared_core' = [graph |-> EmptyGraph, nodes |-> {}]
    /\ UNCHANGED <<remaining, number_of_core_nodes, new_to_old, next_renumbering, batch, todo,
                   inserted, arcs, filters, bounds, queryVars>>

Contracting == ExcludableStep /\ UNCHANGED <<facade, queryVars>>

\* What a query of the filter may use.
AllowedArcs == {a \in InputArcs : {a.from, a.to} \subseteq filters[filter_index]}

\* Phantoms lie on nodes the filter allows, and no further along a segment than it is long:
\* the weight of an edge is that of the segment it leaves and of the turn.
Query ==
    /\ phase = "gone"
    /\ \E s, t \in Phantoms :
         /\ DOMAIN s \cup DOMAIN t \subseteq filters[filter_index]
         /\ \A a \in InputArcs : /\ a.from \in DOMAIN s => s[a.from] <= a.weight
                                 /\ a.from \in DOMAIN t => t[a.from] <= a.weight
         /\ BeginSearch(s, t)
    /\ UNCHANGED <<contractorVars, excludableVars>>

Next ==
    \/ Contracting
    \/ \E i \in DOMAIN filters : OpenFacade(i)
    \/ Query
    \/ (ForwardStep \/ ReverseStep \/ EndQuery) /\ UNCHANGED <<contractorVars, excludableVars>>

allVars == <<contractorVars, excludableVars, facade, queryVars>>

Spec == Init /\ [][Next]_allVars

-----------------------------------------------------------------------------
\* The weight from a source node to a target node, past nodes the filter allows; on a
\* shared segment with the target behind the source, after a round trip.
RouteWeight(s, t) ==
    LET way == IF s = t /\ endpoints.source[s] > endpoints.target[t] THEN RoundTrip(AllowedArcs, s)
               ELSE DistancesFrom(AllowedArcs, s)[t]
    IN  IF way = INVALID_EDGE_WEIGHT THEN way ELSE way - endpoints.source[s] + endpoints.target[t]

ShortestRoute == Least({RouteWeight(s, t) : s \in DOMAIN endpoints.source, t \in DOMAIN endpoints.target})

\* A route that has to come back to its own segment needs the loop of a round trip.
NeedsLoop == \E n \in DOMAIN endpoints.source \cap DOMAIN endpoints.target :
                endpoints.source[n] > endpoints.target[n]

\* A finished search on the hierarchy has the weight of a shortest route of the input,
\* for queries that exclude nothing.
QueryShortest ==
    turn = "found" /\ ~NeedsLoop /\ filters[filter_index] = Nodes => weight = ShortestRoute

\* The same for queries that come back to the segment they start on.
QueryShortestWithLoop == turn = "found" /\ NeedsLoop /\ filters[filter_index] = Nodes => weight = ShortestRoute

\* The same for queries that exclude classes.
QueryShortestExcluding == turn = "found" /\ ~NeedsLoop => weight = ShortestRoute

\* The packed path unpacks to a connected sequence of original arcs from a source to a
\* target, of the weight the search found.
UnpacksToRoute ==
    turn = "found" /\ weight # INVALID_EDGE_WEIGHT =>
        LET leg == PackedLeg
            route == unpackPath(leg, N)
            sum == FoldLeft(LAMBDA w, a : w + a.weight, 0, route)
        IN  /\ \A i \in DOMAIN route : route[i] \in AllowedArcs
            /\ \A i \in 1 .. Len(route) - 1 : route[i].to = route[i + 1].from
            /\ leg[1] \in DOMAIN endpoints.source /\ leg[Len(leg)] \in DOMAIN endpoints.target
            /\ weight = sum - endpoints.source[leg[1]] + endpoints.target[leg[Len(leg)]]
=============================================================================

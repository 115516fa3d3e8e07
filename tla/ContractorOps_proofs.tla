------------------------ MODULE ContractorOps_proofs ------------------------
(***************************************************************************)
(* What the operators of Contractor compute: types, the pairs in which     *)
(* shortcuts come, and which edges a graph has after shortcuts went in,    *)
(* edges to a contracted node were cut or nodes were renumbered; what the  *)
(* witness search guarantees, and why nodes that lie apart can be          *)
(* contracted at once without a change of distances.                       *)
(***************************************************************************)
EXTENDS ContractionInv, DynamicGraph_proofs, FiniteSetTheorems

-----------------------------------------------------------------------------
(***************************************************************************)
(* The edges and the graph the contraction starts from.                    *)
(***************************************************************************)
\* The edges of the contractor lead to nodes and may be given other targets.
LEMMA EdgesLead == LeadToNodes(ContractorEdges) /\ CanBeRetargeted(ContractorEdges)
BY DEF LeadToNodes, CanBeRetargeted, ContractorEdges

\* The least of a set of weights is a weight.
LEMMA LeastWeight ==
    ASSUME NEW S, S \subseteq Nat \ {0}
    PROVE  Least(S) \in Nat \ {0}
<1>1. CASE S = {}
  BY <1>1 DEF Least, INVALID_EDGE_WEIGHT
<1>2. CASE S # {}
  <2>1. \E w \in S : \A v \in S : w <= v
    BY <1>2, LeastNatural
  <2> QED BY <1>2, <2>1 DEF Least
<1> QED
  BY <1>1, <1>2

\* Edges lead back to where they come from.
Mutual(g, C) == \A u \in C : \A v \in GetTargets(g, u) : u \in GetTargets(g, v)

\* The weight of the cheapest arc from u to v.
Cheapest(input, u, v) == Least({InputWeight(a) : a \in {b \in input : b.from = u /\ b.to = v}})

\* An edge leads from u to v, seen from u or from v, if the cheapest arc between them does.
InputWays(g, input) ==
    \A u, v \in Nodes : \A w \in Nat :
        /\ Leads(g, "forward", u, v, w)
             <=> u # v /\ Cheapest(input, u, v) # INVALID_EDGE_WEIGHT /\ Cheapest(input, u, v) <= w
        /\ Leads(g, "backward", v, u, w)
             <=> u # v /\ Cheapest(input, u, v) # INVALID_EDGE_WEIGHT /\ Cheapest(input, u, v) <= w

\* toContractorGraph makes a consistent array with edges in both directions, of the weights
\* of the cheapest arcs.
LEMMA InputGraph ==
    ASSUME NEW input, \A a \in input : a.from \in Nodes /\ a.to \in Nodes /\ a.weight \in Nat
    PROVE  /\ Consistent(toContractorGraph(input), ContractorEdges)
           /\ Mutual(toContractorGraph(input), Nodes)
           /\ \A u \in Nodes : GetTargets(toContractorGraph(input), u) \subseteq Nodes
           /\ InputWays(toContractorGraph(input), input)
           /\ \A u, v \in Nodes : Cheapest(input, u, v) \in Nat \ {0}
<1> DEFINE E == ContractorEdges
           cheapest(u, v) == Cheapest(input, u, v)
           edge(v, w, f, b) == [to |-> v, weight |-> w, orig |-> 1, id |-> 0, shortcut |-> FALSE,
                                forward |-> f, backward |-> b]
           either(v, w, f, b) == IF w = INVALID_EDGE_WEIGHT THEN <<>> ELSE <<edge(v, w, f, b)>>
           edges(u, v) ==
               IF u = v THEN <<>>
               ELSE IF cheapest(u, v) = cheapest(v, u) THEN either(v, cheapest(u, v), TRUE, TRUE)
               ELSE either(v, cheapest(u, v), TRUE, FALSE) \o either(v, cheapest(v, u), FALSE, TRUE)
           row(u) == [v \in Nodes |-> edges(u, v)]
           lists == [u \in Nodes |-> FlattenSeq(row(u))]
           g == toContractorGraph(input)
<1>1. g = FromLists(lists)
  BY DEF toContractorGraph, Cheapest
<1>2. ASSUME NEW u \in Nodes, NEW v \in Nodes PROVE cheapest(u, v) \in Nat \ {0}
  <2>1. \A a \in input : InputWeight(a) \in Nat \ {0}
    BY DEF InputWeight
  <2> QED BY <2>1, LeastWeight DEF Cheapest
<1> HIDE DEF cheapest
<1>3. ASSUME NEW v \in Nodes, NEW w \in Nat \ {0}, NEW f \in BOOLEAN, NEW b \in BOOLEAN
      PROVE  /\ edge(v, w, f, b) \in E /\ edge(v, w, f, b).to = v
             /\ either(v, w, f, b) \in Seq(E)
             /\ \A x : x \in ToSet(either(v, w, f, b)) <=> w # INVALID_EDGE_WEIGHT /\ x = edge(v, w, f, b)
  <2>1. edge(v, w, f, b) \in E /\ edge(v, w, f, b).to = v
    BY NAssumption DEF ContractorEdges
  <2> HIDE DEF edge, E
  <2>2. ToSet(<<>>) = {} /\ ToSet(<<edge(v, w, f, b)>>) = {edge(v, w, f, b)}
    BY DEF ToSet
  <2> QED BY <2>1, <2>2
<1> HIDE DEF either, edge, E
<1>4. ASSUME NEW u \in Nodes, NEW v \in Nodes
      PROVE  /\ edges(u, v) \in Seq(E)
             /\ \A x \in ToSet(edges(u, v)) : x.to = v
             /\ (\E x : x \in ToSet(edges(u, v)))
                  <=> /\ u # v
                      /\ cheapest(u, v) # INVALID_EDGE_WEIGHT \/ cheapest(v, u) # INVALID_EDGE_WEIGHT
             /\ \A w \in Nat :
                  /\ (\E x \in ToSet(edges(u, v)) : x.forward /\ x.weight <= w)
                       <=> u # v /\ cheapest(u, v) # INVALID_EDGE_WEIGHT /\ cheapest(u, v) <= w
                  /\ (\E x \in ToSet(edges(u, v)) : x.backward /\ x.weight <= w)
                       <=> u # v /\ cheapest(v, u) # INVALID_EDGE_WEIGHT /\ cheapest(v, u) <= w
  <2> DEFINE there == cheapest(u, v)
             back == cheapest(v, u)
             a == either(v, there, TRUE, TRUE)
             b == either(v, there, TRUE, FALSE)
             c == either(v, back, FALSE, TRUE)
  <2>1. there \in Nat \ {0} /\ back \in Nat \ {0}
    BY <1>2
  <2> HIDE DEF there, back
  <2>2. /\ a \in Seq(E) /\ b \in Seq(E) /\ c \in Seq(E)
        /\ \A x : x \in ToSet(a) <=> there # INVALID_EDGE_WEIGHT /\ x = edge(v, there, TRUE, TRUE)
        /\ \A x : x \in ToSet(b) <=> there # INVALID_EDGE_WEIGHT /\ x = edge(v, there, TRUE, FALSE)
        /\ \A x : x \in ToSet(c) <=> back # INVALID_EDGE_WEIGHT /\ x = edge(v, back, FALSE, TRUE)
        /\ edge(v, there, TRUE, TRUE).to = v /\ edge(v, there, TRUE, FALSE).to = v
        /\ edge(v, back, FALSE, TRUE).to = v
    BY <1>3, <2>1
  <2>9. /\ edge(v, there, TRUE, TRUE).weight = there
        /\ edge(v, there, TRUE, FALSE).weight = there
        /\ edge(v, back, FALSE, TRUE).weight = back
        /\ edge(v, there, TRUE, TRUE).forward /\ edge(v, there, TRUE, TRUE).backward
        /\ edge(v, there, TRUE, FALSE).forward /\ ~ edge(v, there, TRUE, FALSE).backward
        /\ ~ edge(v, back, FALSE, TRUE).forward /\ edge(v, back, FALSE, TRUE).backward
    BY <2>1 DEF edge
  <2> HIDE DEF a, b, c
  <2>3. b \o c \in Seq(E) /\ \A x : x \in ToSet(b \o c) <=> x \in ToSet(b) \/ x \in ToSet(c)
    BY <2>2, ToSetConcat
  <2>4. ToSet(<<>>) = {} /\ <<>> \in Seq(E)
    BY DEF ToSet
  <2>5. edges(u, v) = IF u = v THEN <<>> ELSE IF there = back THEN a ELSE b \o c
    BY DEF a, b, c, there, back
  <2> HIDE DEF edges
  <2>6. CASE u = v
    BY <2>4, <2>5, <2>6
  <2>7. CASE u # v /\ there = back
    BY <2>2, <2>5, <2>7, <2>9 DEF there, back
  <2>8. CASE u # v /\ there # back
    BY <2>2, <2>3, <2>5, <2>8, <2>9 DEF there, back
  <2> QED BY <2>6, <2>7, <2>8
<1>5. ASSUME NEW u \in Nodes
      PROVE  row(u) \in [Nodes -> Seq(E)] /\ \A v \in Nodes : row(u)[v] = edges(u, v)
  <2> HIDE DEF edges
  <2> QED BY <1>4
<1> HIDE DEF row, edges
<1>6. ASSUME NEW u \in Nodes
      PROVE  /\ lists[u] \in Seq(E)
             /\ \A x : x \in ToSet(lists[u]) <=> \E v \in Nodes : x \in ToSet(edges(u, v))
  <2>1. lists[u] = FlattenSeq(row(u)) /\ row(u) \in [Nodes -> Seq(E)]
    BY <1>5
  <2> DEFINE r == row(u)
  <2>2. /\ FlattenSeq(r) \in Seq(E)
        /\ \A x : x \in ToSet(FlattenSeq(r)) <=> \E v \in Nodes : x \in ToSet(r[v])
    <3> HIDE DEF r
    <3>1. r \in [Nodes -> Seq(E)]
      BY <2>1 DEF r
    <3> QED BY <3>1, FlattenLists, FlattenElements
  <2> HIDE DEF lists
  <2> QED BY <1>5, <2>1, <2>2
<1>7. lists \in [Nodes -> Seq(E)]
  <2>1. lists = [u \in Nodes |-> lists[u]]
    OBVIOUS
  <2> HIDE DEF lists
  <2> QED BY <1>6, <2>1
<1> HIDE DEF lists, g
<1>8. LeadToNodes(E)
  BY EdgesLead DEF E
<1>9. Consistent(g, E) /\ \A n \in Nodes : Adjacent(g, n) = lists[n]
  BY <1>1, <1>7, <1>8, FromListsConsistent
<1>10. ASSUME NEW u \in Nodes, NEW v
       PROVE  v \in GetTargets(g, u) <=> v \in Nodes /\ \E x : x \in ToSet(edges(u, v))
  <2>1. v \in GetTargets(g, u) <=> \E x \in ToSet(lists[u]) : v = x.to
    BY <1>9 DEF GetTargets
  <2>2. (\E x \in ToSet(lists[u]) : v = x.to) <=> \E w \in Nodes : \E x \in ToSet(edges(u, w)) : v = x.to
    BY <1>6
  <2> QED BY <1>4, <2>1, <2>2
<1>11. ASSUME NEW u \in Nodes, NEW v \in GetTargets(g, u)
       PROVE  v \in Nodes /\ u \in GetTargets(g, v)
  <2>1. v \in Nodes /\ \E x : x \in ToSet(edges(u, v))
    BY <1>10, <1>11
  <2>2. \E x : x \in ToSet(edges(v, u))
    BY <1>4, <2>1
  <2> QED BY <1>10, <2>1, <2>2
<1>12. ASSUME NEW u \in Nodes, NEW v \in Nodes, NEW w \in Nat
       PROVE  /\ Leads(g, "forward", u, v, w)
                   <=> u # v /\ cheapest(u, v) # INVALID_EDGE_WEIGHT /\ cheapest(u, v) <= w
              /\ Leads(g, "backward", v, u, w)
                   <=> u # v /\ cheapest(u, v) # INVALID_EDGE_WEIGHT /\ cheapest(u, v) <= w
  <2>1. \A x : /\ x \in EdgeSet(g, u) <=> \E y \in Nodes : x \in ToSet(edges(u, y))
               /\ x \in EdgeSet(g, v) <=> \E y \in Nodes : x \in ToSet(edges(v, y))
    BY <1>6, <1>9 DEF EdgeSet
  <2>2. /\ Leads(g, "forward", u, v, w) <=> \E x \in ToSet(edges(u, v)) : x.forward /\ x.weight <= w
        /\ Leads(g, "backward", v, u, w) <=> \E x \in ToSet(edges(v, u)) : x.backward /\ x.weight <= w
    BY <1>4, <2>1 DEF Leads, Open
  <2> QED BY <1>4, <2>2
<1>13. InputWays(g, input)
  BY <1>12 DEF InputWays, cheapest
<1>14. \A u, v \in Nodes : Cheapest(input, u, v) \in Nat \ {0}
  BY <1>2 DEF cheapest
<1> QED
  BY <1>9, <1>11, <1>13, <1>14 DEF g, E, Mutual

-----------------------------------------------------------------------------
(***************************************************************************)
(* The witness search: what it returns is no less than a potential allows, *)
(* however early it stops.                                                 *)
(***************************************************************************)
\* The edges of nodes of C lead to nodes of C.
StaysIn(g, C) == \A u \in C : GetTargets(g, u) \subseteq C

\* No edge between nodes of C, around n, leads further up than it is long.
FeasibleAround(p, g, C, n) ==
    \A u \in C \ {n} : \A e \in EdgeSet(g, u) : e.forward /\ e.to # n => p[e.to] <= p[u] + e.weight

\* Heaps of a search among the nodes of C.
Keys(C) == UNION {[S -> Nat] : S \in SUBSET C}
Heaps(C) == [key : Keys(C), open : SUBSET C, found : Nat, settled : Nat]

\* The keys of a search from s, T among them.
HeapInv(heap, p, s, T) ==
    /\ T \subseteq DOMAIN heap.key
    /\ heap.open \subseteq DOMAIN heap.key
    /\ \A v \in DOMAIN heap.key : p[v] <= p[s] + heap.key[v]

\* A function to weights from nodes of C.
LEMMA KeysOf ==
    ASSUME NEW C, NEW k
    PROVE  /\ k \in Keys(C) => DOMAIN k \subseteq C /\ \A v \in DOMAIN k : k[v] \in Nat
           /\ \A S \in SUBSET C : k \in [S -> Nat] => k \in Keys(C) /\ DOMAIN k = S
BY DEF Keys

\* A round of the search relaxes edges of C around n, or ends it.
LEMMA SearchStepKeys ==
    ASSUME NEW g, Consistent(g, ContractorEdges), NEW C, C \subseteq Nodes, StaysIn(g, C), NEW n,
           NEW p \in Potentials, FeasibleAround(p, g, C, n), NEW s \in Nodes, NEW T,
           NEW heap \in Heaps(C \ {n}), HeapInv(heap, p, s, T), NEW targets, NEW limit
    PROVE  /\ SearchStep(g, heap, targets, limit, n) \in Heaps(C \ {n})
           /\ HeapInv(SearchStep(g, heap, targets, limit, n), p, s, T)
<1> DEFINE Q == C \ {n}
           node == CHOOSE x \in heap.open : \A m \in heap.open : heap.key[x] <= heap.key[m]
           out == {e \in ToSet(Adjacent(g, node)) : e.forward /\ e.to # n}
           found == heap.found + (IF node \in targets THEN 1 ELSE 0)
           known == DOMAIN heap.key
           ways(v) == (IF v \in known THEN {heap.key[v]} ELSE {})
                         \cup {heap.key[node] + e.weight : e \in {f \in out : f.to = v}}
           D == known \cup {e.to : e \in out}
           relaxed == [v \in D |-> Least(ways(v))]
           next == [key     |-> relaxed,
                    open    |-> (heap.open \ {node}) \cup (DOMAIN relaxed \ known),
                    found   |-> found,
                    settled |-> heap.settled + 1]
           h == SearchStep(g, heap, targets, limit, n)
<1>1. \/ h = heap
      \/ h = [heap EXCEPT !.open = {}]
      \/ heap.open # {} /\ h = next
  BY DEF SearchStep
<1>2. heap.key \in Keys(Q) /\ heap.open \subseteq Q /\ heap.found \in Nat /\ heap.settled \in Nat
  BY DEF Heaps
<1>3. known \subseteq Q /\ (\A v \in known : heap.key[v] \in Nat) /\ heap.open \subseteq known /\ T \subseteq known
  <2> HIDE DEF Q
  <2> QED BY <1>2, KeysOf DEF HeapInv
<1> HIDE DEF node, h
<1>4. CASE h = heap
  BY <1>4 DEF h
<1>5. CASE h = [heap EXCEPT !.open = {}]
  <2>1. h.key = heap.key /\ h.open = {} /\ h \in Heaps(Q)
    BY <1>5 DEF Heaps
  <2> QED BY <2>1 DEF HeapInv, h
<1>6. CASE heap.open # {} /\ h = next
  <2>1. node \in heap.open
    <3> DEFINE K == {heap.key[x] : x \in heap.open}
    <3>1. K \subseteq Nat /\ K # {}
      BY <1>3, <1>6
    <3> HIDE DEF K
    <3>2. PICK k \in K : \A y \in K : k <= y
      BY <3>1, LeastNatural
    <3>3. \E x \in heap.open : \A m \in heap.open : heap.key[x] <= heap.key[m]
      BY <3>2 DEF K
    <3> QED BY <3>3 DEF node
  <2>2. node \in known /\ node \in Q /\ node \in Nodes /\ heap.key[node] \in Nat
    BY <1>3, <2>1
  <2>3. ASSUME NEW e \in out
        PROVE  /\ e.to \in Q /\ e.weight \in Nat /\ e \in EdgeSet(g, node)
               /\ p[e.to] <= p[node] + e.weight
    <3>1. e \in EdgeSet(g, node) /\ e.forward /\ e.to # n
      BY DEF EdgeSet
    <3>2. e \in ContractorEdges
      BY <2>2, <3>1, EdgesLead, EdgeSlots
    <3>3. e.to \in GetTargets(g, node)
      BY <3>1 DEF GetTargets, EdgeSet
    <3> QED BY <2>2, <3>1, <3>2, <3>3 DEF StaysIn, FeasibleAround, ContractorEdges
  <2> HIDE DEF out, known
  <2>4. D \subseteq Q
    BY <1>3, <2>3
  <2>5. ASSUME NEW v \in Nodes PROVE p[v] \in Nat
    <3>1. p[v] \in 0 .. INVALID_EDGE_WEIGHT
      BY DEF Potentials
    <3> QED BY <3>1, InvalidWeight
  <2>6. ASSUME NEW v \in D
        PROVE  relaxed[v] \in Nat /\ p[v] <= p[s] + relaxed[v]
    <3>1. ways(v) \subseteq Nat
      BY <1>3, <2>2, <2>3
    <3>2. ways(v) # {}
      BY <2>6
    <3>3. relaxed[v] = Least(ways(v))
      OBVIOUS
    <3>4. ASSUME NEW x \in ways(v) PROVE p[v] <= p[s] + x
      <4>1. CASE v \in known /\ x = heap.key[v]
        BY <4>1 DEF HeapInv, known
      <4>2. CASE \E e \in out : e.to = v /\ x = heap.key[node] + e.weight
        <5>1. PICK e \in out : e.to = v /\ x = heap.key[node] + e.weight
          BY <4>2
        <5>2. p[v] <= p[node] + e.weight /\ e.weight \in Nat /\ v \in Nodes
          BY <2>3, <5>1
        <5>3. p[node] <= p[s] + heap.key[node]
          BY <2>2 DEF HeapInv, known
        <5>4. p[v] \in Nat /\ p[node] \in Nat /\ p[s] \in Nat
          BY <2>2, <2>5, <5>2
        <5> QED BY <2>2, <5>1, <5>2, <5>3, <5>4
      <4> QED BY <4>1, <4>2
    <3> HIDE DEF ways, relaxed
    <3>5. Least(ways(v)) \in ways(v)
      BY <3>1, <3>2, LeastElement
    <3> QED BY <3>1, <3>3, <3>4, <3>5
  <2>7. DOMAIN relaxed = D /\ relaxed = [v \in D |-> relaxed[v]]
    OBVIOUS
  <2>8. found \in Nat
    BY <1>2
  <2>9. known \subseteq D
    OBVIOUS
  <2> HIDE DEF relaxed, D, found
  <2>10. relaxed \in [D -> Nat]
    BY <2>6, <2>7
  <2>11. relaxed \in Keys(Q)
    <3> HIDE DEF Q
    <3> QED BY <2>4, <2>10, KeysOf
  <2>12. h.key = relaxed /\ h.open = (heap.open \ {node}) \cup (D \ known)
    BY <1>6, <2>7
  <2>13. h \in Heaps(Q)
    BY <1>2, <1>3, <1>6, <2>4, <2>7, <2>8, <2>11 DEF Heaps
  <2>14. HeapInv(h, p, s, T)
    <3>1. T \subseteq D /\ h.open \subseteq D
      BY <1>3, <2>9, <2>12
    <3> QED BY <2>6, <2>7, <2>12, <3>1 DEF HeapInv
  <2> QED BY <2>13, <2>14 DEF h
<1> QED
  BY <1>1, <1>4, <1>5, <1>6 DEF h

\* The keys of a search from s are lengths of ways among the nodes of C, around n.
LEMMA SearchKeys ==
    ASSUME NEW g, Consistent(g, ContractorEdges), NEW C, C \subseteq Nodes, StaysIn(g, C), NEW n,
           NEW p \in Potentials, FeasibleAround(p, g, C, n), NEW s \in Nodes, NEW T,
           NEW heap \in Heaps(C \ {n}), HeapInv(heap, p, s, T), NEW targets, NEW limit
    PROVE  /\ T \subseteq DOMAIN search(g, heap, targets, limit, n)
           /\ \A v \in T : /\ search(g, heap, targets, limit, n)[v] \in Nat
                           /\ p[v] <= p[s] + search(g, heap, targets, limit, n)[v]
<1> DEFINE K == N
           After(v, i) == SearchStep(g, v, targets, limit, n)
           Loop(x) == x = [i \in 0 .. K |-> IF i = 0 THEN heap ELSE After(x[i - 1], i)]
           Runs(x) == /\ x = [i \in 0 .. K |-> x[i]] /\ x[0] = heap
                      /\ \A m \in 1 .. K : x[m] = After(x[m - 1], m)
           D == Heaps(C \ {n})
           step == [q \in D \X (1 .. K) |-> After(q[1], q[2])]
           I == {q \in (0 .. K) \X D : HeapInv(q[2], p, s, T)}
           result == CHOOSE x : Loop(x)
<1>1. K \in Nat
  BY NAssumption
<1>2. ASSUME NEW m \in 1 .. K, NEW v \in D, <<m - 1, v>> \in I
      PROVE  <<m, After(v, m)>> \in I
  <2>1. HeapInv(v, p, s, T) /\ v \in Heaps(C \ {n}) /\ m \in 0 .. K
    BY <1>1, <1>2
  <2>2. After(v, m) \in D /\ HeapInv(After(v, m), p, s, T)
    BY <2>1, SearchStepKeys
  <2> HIDE DEF After, D
  <2> QED BY <2>1, <2>2
<1>3. <<0, heap>> \in I
  BY <1>1
<1>4. \A m \in 1 .. K : \A v \in D : step[<<v, m>>] = After(v, m)
  <2> HIDE DEF After, D, K
  <2> QED OBVIOUS
<1>5. LoopKeeps(K, D, I, heap, step)
  <2>1. I \subseteq (0 .. K) \X D
    OBVIOUS
  <2> HIDE DEF I, step, D, After
  <2> QED BY <1>2, <1>3, <1>4, <2>1 DEF LoopKeeps
<1>6. PICK run : LoopRun(run, K, D, I, heap, step)
  <2> HIDE DEF K, D, I, step
  <2> QED BY <1>1, <1>5, LoopRuns
<1>7. ASSUME NEW x PROVE Loop(x) <=> Runs(x)
  <2> HIDE DEF After, K
  <2> QED BY <1>1
<1>8. Loop(result)
  <2> HIDE DEF Loop, K, After, D, I, step
  <2>1. \A m \in 1 .. K : m - 1 \in 0 .. K
    BY <1>1
  <2>2. Runs(run)
    BY <1>4, <1>6, <2>1 DEF LoopRun
  <2> HIDE DEF Runs
  <2> QED BY <1>7, <2>2
<1>9. search(g, heap, targets, limit, n) = result[K].key
  BY DEF search
<1>10. LoopRun(result, K, D, I, heap, step)
  <2> HIDE DEF result, Loop, D, After, step, K
  <2>1. Runs(result)
    BY <1>7, <1>8
  <2>2. \A m \in 1 .. K : <<m - 1, result[m - 1]>> \in I => result[m] = step[<<result[m - 1], m>>]
    BY <1>1, <1>4, <2>1
  <2> HIDE DEF I
  <2> QED BY <1>1, <1>5, <2>1, <2>2, LoopInvariant
<1> HIDE DEF result, I, After, Loop, Runs, step, D
<1>11. <<K, result[K]>> \in I
  <2> HIDE DEF K
  <2> QED BY <1>1, <1>10 DEF LoopRun
<1> DEFINE last == result[K]
<1>12. last \in Heaps(C \ {n}) /\ HeapInv(last, p, s, T)
  BY <1>11 DEF I, D
<1> HIDE DEF last
<1>13. \A v \in DOMAIN last.key : last.key[v] \in Nat
  <2>1. last.key \in Keys(C \ {n})
    BY <1>12 DEF Heaps
  <2> QED BY <2>1, KeysOf
<1> QED
  BY <1>9, <1>12, <1>13 DEF HeapInv, last

-----------------------------------------------------------------------------
(***************************************************************************)
(* ContractNode: shortcuts lie between the neighbours of the node, there   *)
(* and back.                                                               *)
(***************************************************************************)
There(source, target, in, out, node) == Shortcut(source, target, in, out, node, TRUE)
Back(source, target, in, out, node) == Shortcut(target, source, in, out, node, FALSE)

\* The one is used forward, the other backward, at the same weight.
IsPair(there, back, w) ==
    /\ there.weight = w /\ Open(there, "forward") /\ ~ Open(there, "backward")
    /\ back.weight = w /\ Open(back, "backward") /\ ~ Open(back, "forward")

\* A shortcut past a node and its mirror image.
LEMMA ShortcutType ==
    ASSUME NEW source \in Nodes, NEW target \in Nodes, NEW in \in ContractorEdges,
           NEW out \in ContractorEdges, NEW node \in Nodes
    PROVE  /\ There(source, target, in, out, node) \in Shortcuts
           /\ There(source, target, in, out, node).source = source
           /\ There(source, target, in, out, node).to = target
           /\ Back(source, target, in, out, node) \in Shortcuts
           /\ Back(source, target, in, out, node).source = target
           /\ Back(source, target, in, out, node).to = source
           /\ IsPair(There(source, target, in, out, node), Back(source, target, in, out, node), in.weight + out.weight)
<1>1. /\ in.weight \in Nat \ {0} /\ in.orig \in Nat \ {0}
      /\ out.weight \in Nat \ {0} /\ out.orig \in Nat \ {0}
  BY DEF ContractorEdges
<1>2. in.weight + out.weight \in Nat \ {0} /\ in.orig + out.orig \in Nat \ {0}
  BY <1>1
<1> QED
  BY <1>2 DEF Shortcut, Shortcuts, There, Back, IsPair, Open

\* Edges between nodes of C, each with one that leads back.
BothWays(edges, C) ==
    \A e \in ToSet(edges) :
        /\ e.source \in C /\ e.to \in C
        /\ \E f \in ToSet(edges) : f.source = e.to /\ f.to = e.source

\* The shortcuts for a list of outgoing edges, each with its mirror image behind it.
Mirrored(needed, source, in, node) ==
    [i \in 1 .. 2 * Len(needed) |->
        LET e == needed[(i + 1) \div 2]
        IN  IF i % 2 = 1 THEN Shortcut(source, e.to, in, e, node, TRUE)
            ELSE Shortcut(e.to, source, in, e, node, FALSE)]

\* The mirrored shortcuts lead from source to the targets of `needed`, at the weight of both edges.
MirrorWays(m, needed, source, in) ==
    \A u, v : \A w \in Nat :
        /\ Offers(m, "forward", u, v, w)
             <=> u = source /\ \E e \in ToSet(needed) : e.to = v /\ in.weight + e.weight <= w
        /\ Offers(m, "backward", v, u, w)
             <=> u = source /\ \E e \in ToSet(needed) : e.to = v /\ in.weight + e.weight <= w

\* Shortcuts with their mirror images lead both ways.
LEMMA MirroredBothWays ==
    ASSUME NEW C, C \subseteq Nodes, NEW source \in C, NEW in \in ContractorEdges, NEW node \in Nodes,
           NEW needed \in Seq(ContractorEdges), \A e \in ToSet(needed) : e.to \in C
    PROVE  /\ Mirrored(needed, source, in, node) \in Seq(Shortcuts)
           /\ BothWays(Mirrored(needed, source, in, node), C)
           /\ MirrorWays(Mirrored(needed, source, in, node), needed, source, in)
<1> DEFINE m == Mirrored(needed, source, in, node)
           K == 2 * Len(needed)
           there(i) == There(source, needed[i].to, in, needed[i], node)
           back(i) == Back(source, needed[i].to, in, needed[i], node)
<1>1. Len(needed) \in Nat /\ K \in Nat
  OBVIOUS
<1>2. ASSUME NEW i \in 1 .. Len(needed)
      PROVE  /\ there(i) \in Shortcuts /\ there(i).source = source /\ there(i).to = needed[i].to
             /\ back(i) \in Shortcuts /\ back(i).source = needed[i].to /\ back(i).to = source
             /\ needed[i].to \in C /\ IsPair(there(i), back(i), in.weight + needed[i].weight)
  <2>1. needed[i] \in ContractorEdges /\ needed[i] \in ToSet(needed)
    BY DEF ToSet
  <2>2. needed[i].to \in C /\ needed[i].to \in Nodes /\ source \in Nodes
    BY <2>1
  <2> DEFINE e == needed[i]
             target == needed[i].to
  <2>3. e \in ContractorEdges /\ target \in Nodes
    BY <2>1, <2>2
  <2> HIDE DEF e, target
  <2>4. /\ There(source, target, in, e, node) \in Shortcuts
        /\ There(source, target, in, e, node).source = source
        /\ There(source, target, in, e, node).to = target
        /\ Back(source, target, in, e, node) \in Shortcuts
        /\ Back(source, target, in, e, node).source = target
        /\ Back(source, target, in, e, node).to = source
        /\ IsPair(There(source, target, in, e, node), Back(source, target, in, e, node), in.weight + e.weight)
    BY <2>2, <2>3, ShortcutType
  <2> QED BY <2>2, <2>4 DEF e, target
<1>3. ASSUME NEW i \in 1 .. K
      PROVE  /\ (i + 1) \div 2 \in 1 .. Len(needed)
             /\ m[i] = IF i % 2 = 1 THEN there((i + 1) \div 2) ELSE back((i + 1) \div 2)
  <2>1. (i + 1) \div 2 \in 1 .. Len(needed)
    BY <1>1
  <2> HIDE DEF K
  <2>2. m[i] = IF i % 2 = 1 THEN there((i + 1) \div 2) ELSE back((i + 1) \div 2)
    BY DEF Mirrored, K, There, Back
  <2> QED BY <2>1, <2>2
<1>4. ASSUME NEW j \in 1 .. Len(needed)
      PROVE  /\ 2 * j \in 1 .. K /\ 2 * j - 1 \in 1 .. K
             /\ m[2 * j - 1] = there(j) /\ m[2 * j] = back(j)
  <2>1. 2 * j \in 1 .. K /\ 2 * j - 1 \in 1 .. K
    BY <1>1
  <2>2. (2 * j) % 2 = 0 /\ (2 * j - 1) % 2 = 1 /\ (2 * j + 1) \div 2 = j /\ ((2 * j - 1) + 1) \div 2 = j
    BY <1>1
  <2> HIDE DEF K, m, there, back
  <2> QED BY <1>3, <2>1, <2>2
<1>5. m = [i \in 1 .. K |-> m[i]]
  BY DEF Mirrored
<1> HIDE DEF m, there, back
<1>6. m \in [1 .. K -> Shortcuts]
  BY <1>2, <1>3, <1>5
<1>7. m \in Seq(Shortcuts) /\ Len(m) = K
  BY <1>1, <1>6, SeqOfFunction
<1>8. \A x : x \in ToSet(m) <=> \E i \in 1 .. K : x = m[i]
  <2> HIDE DEF K
  <2> QED BY <1>7 DEF ToSet
<1>9. ASSUME NEW e \in ToSet(m)
      PROVE  /\ e.source \in C /\ e.to \in C
             /\ \E f \in ToSet(m) : f.source = e.to /\ f.to = e.source
  <2>1. PICK i \in 1 .. K : e = m[i]
    BY <1>8, <1>9
  <2>2. PICK j \in 1 .. Len(needed) : e = there(j) \/ e = back(j)
    BY <1>3, <2>1
  <2>3. there(j) \in ToSet(m) /\ back(j) \in ToSet(m)
    BY <1>4, <1>8
  <2> QED BY <1>2, <2>2, <2>3
<1>10. \A e : e \in ToSet(needed) <=> \E j \in 1 .. Len(needed) : e = needed[j]
  BY DEF ToSet
<1>11. \A e : e \in ToSet(m) <=> \E j \in 1 .. Len(needed) : e = there(j) \/ e = back(j)
  <2>1. ASSUME NEW e \in ToSet(m) PROVE \E j \in 1 .. Len(needed) : e = there(j) \/ e = back(j)
    <3>1. PICK i \in 1 .. K : e = m[i]
      BY <1>8
    <3> QED BY <1>3, <3>1
  <2>2. ASSUME NEW j \in 1 .. Len(needed) PROVE there(j) \in ToSet(m) /\ back(j) \in ToSet(m)
    BY <1>4, <1>8
  <2> QED BY <2>1, <2>2
<1>12. ASSUME NEW u, NEW v, NEW w \in Nat
       PROVE  /\ Offers(m, "forward", u, v, w)
                   <=> u = source /\ \E e \in ToSet(needed) : e.to = v /\ in.weight + e.weight <= w
              /\ Offers(m, "backward", v, u, w)
                   <=> u = source /\ \E e \in ToSet(needed) : e.to = v /\ in.weight + e.weight <= w
  <2> DEFINE way(j) == needed[j].to = v /\ in.weight + needed[j].weight <= w
  <2>1. (\E e \in ToSet(needed) : e.to = v /\ in.weight + e.weight <= w) <=> \E j \in 1 .. Len(needed) : way(j)
    BY <1>10
  <2>2. Offers(m, "forward", u, v, w) <=> u = source /\ \E j \in 1 .. Len(needed) : way(j)
    <3>1. ASSUME NEW e \in ToSet(m), Open(e, "forward"), e.source = u, e.to = v, e.weight <= w
          PROVE  u = source /\ \E j \in 1 .. Len(needed) : way(j)
      <4>1. PICK j \in 1 .. Len(needed) : e = there(j) \/ e = back(j)
        BY <1>11
      <4> QED BY <1>2, <3>1, <4>1 DEF IsPair
    <3>2. ASSUME u = source, NEW j \in 1 .. Len(needed), way(j) PROVE Offers(m, "forward", u, v, w)
      <4>1. there(j) \in ToSet(m)
        BY <1>11
      <4> QED BY <1>2, <3>2, <4>1 DEF IsPair, Offers
    <3> HIDE DEF way
    <3> QED BY <3>1, <3>2 DEF Offers
  <2>3. Offers(m, "backward", v, u, w) <=> u = source /\ \E j \in 1 .. Len(needed) : way(j)
    <3>1. ASSUME NEW e \in ToSet(m), Open(e, "backward"), e.source = v, e.to = u, e.weight <= w
          PROVE  u = source /\ \E j \in 1 .. Len(needed) : way(j)
      <4>1. PICK j \in 1 .. Len(needed) : e = there(j) \/ e = back(j)
        BY <1>11
      <4> QED BY <1>2, <3>1, <4>1 DEF IsPair
    <3>2. ASSUME u = source, NEW j \in 1 .. Len(needed), way(j) PROVE Offers(m, "backward", v, u, w)
      <4>1. back(j) \in ToSet(m)
        BY <1>11
      <4> QED BY <1>2, <3>2, <4>1 DEF IsPair, Offers
    <3> HIDE DEF way
    <3> QED BY <3>1, <3>2 DEF Offers
  <2> QED BY <2>1, <2>2, <2>3
<1> QED
  BY <1>7, <1>9, <1>12 DEF m, BothWays, MirrorWays

\* Lists of edges that lie between the same nodes can be put together.
LEMMA BothWaysConcat ==
    ASSUME NEW T, NEW C, NEW s \in Seq(T), NEW t \in Seq(T), BothWays(s, C), BothWays(t, C)
    PROVE  s \o t \in Seq(T) /\ BothWays(s \o t, C)
<1>1. s \o t \in Seq(T) /\ \A x : x \in ToSet(s \o t) <=> x \in ToSet(s) \/ x \in ToSet(t)
  BY ToSetConcat
<1> QED
  BY <1>1 DEF BothWays

\* Lists that are put together offer what each of them does.
LEMMA OffersConcat ==
    ASSUME NEW T, NEW s \in Seq(T), NEW t \in Seq(T)
    PROVE  \A d, u, v, w : Offers(s \o t, d, u, v, w) <=> Offers(s, d, u, v, w) \/ Offers(t, d, u, v, w)
<1>1. \A x : x \in ToSet(s \o t) <=> x \in ToSet(s) \/ x \in ToSet(t)
  BY ToSetConcat
<1> QED
  BY <1>1 DEF Offers

\* Edges of the node make a way from u past it to v.
Passes(g, node, u, v, w) ==
    \E in, out \in EdgeSet(g, node) :
        /\ in.backward /\ in.to = u /\ u # node
        /\ out.forward /\ out.to = v /\ v # node
        /\ in.weight + out.weight <= w

\* Shortcuts stand for ways past the node.
Sound(edges, g, node) == \A u, v : \A w \in Nat : Offers(edges, "forward", u, v, w) => Passes(g, node, u, v, w)

\* Some way among the nodes of C, around n, is no longer.
Witnessed(g, C, n, u, v, length) ==
    \A p \in Potentials : FeasibleAround(p, g, C, n) => p[v] <= p[u] + length

\* For every way from an incoming edge on there is a shortcut or a witness.
Covers(edges, g, node, in) ==
    \A C \in SUBSET Nodes : StaysIn(g, C) /\ node \in C =>
        \A out \in EdgeSet(g, node) : out.forward /\ out.to # node /\ out.to # in.to =>
            \/ Offers(edges, "forward", in.to, out.to, in.weight + out.weight)
            \/ Witnessed(g, C, node, in.to, out.to, in.weight + out.weight)

\* What contracting a node yields.
Results == [weights : [Nodes -> Nat], edges : Seq(Shortcuts)]

\* One incoming edge: the bounds stay weights, the shortcuts lead both ways between
\* neighbours of the node, and they replace the ways over this edge that have no witness.
LEMMA InEdgeResult ==
    ASSUME NEW g, Consistent(g, ContractorEdges), NEW node \in Nodes, NEW simulation \in BOOLEAN,
           NEW acc \in Results, BothWays(acc.edges, Neighbours(g, node)),
           NEW in \in ContractorEdges, in.to \in Neighbours(g, node), in \in EdgeSet(g, node), in.backward,
           IsMirrored(acc.edges), Sound(acc.edges, g, node)
    PROVE  /\ ContractInEdge(g, node, simulation, acc, in) \in Results
           /\ BothWays(ContractInEdge(g, node, simulation, acc, in).edges, Neighbours(g, node))
           /\ IsMirrored(ContractInEdge(g, node, simulation, acc, in).edges)
           /\ Sound(ContractInEdge(g, node, simulation, acc, in).edges, g, node)
           /\ Covers(ContractInEdge(g, node, simulation, acc, in).edges, g, node, in)
           /\ \A d, u, v, w : Offers(acc.edges, d, u, v, w)
                                => Offers(ContractInEdge(g, node, simulation, acc, in).edges, d, u, v, w)
<1> DEFINE E == ContractorEdges
           C == Neighbours(g, node)
           source == in.to
           adjacent == Adjacent(g, node)
           out == Only(adjacent, {e \in ToSet(adjacent) : e.forward /\ e.to # node})
           loops == Only(out, {e \in ToSet(out) : e.to = source /\ in.weight + e.weight < acc.weights[node]})
           weights == IF loops = <<>> THEN acc.weights
                      ELSE [acc.weights EXCEPT ![source] =
                              in.weight + Last(loops).weight + (IF simulation THEN 1 ELSE 0)]
           targets == {e.to : e \in ToSet(out)} \ {source}
           max_weight == Max({0} \cup {in.weight + e.weight : e \in {f \in ToSet(out) : f.to # source}})
           heap == [key     |-> [v \in targets \cup {source} |->
                                   IF v = source THEN 0 ELSE INVALID_EDGE_WEIGHT],
                    open    |-> targets \cup {source}, found |-> 0, settled |-> 0]
           limit == [nodes  |-> IF simulation THEN SearchSpace.simulation ELSE SearchSpace.full,
                     weight |-> max_weight]
           key == search(g, heap, targets, limit, node)
           witnessed == Only(out, {e \in ToSet(out) : in.weight + e.weight < key[e.to]})
           needed == loops \o witnessed
           result == ContractInEdge(g, node, simulation, acc, in)
<1>1. result = [weights |-> weights, edges |-> acc.edges \o Mirrored(needed, source, in, node)]
  BY DEF ContractInEdge, Mirrored
<1>2. LeadToNodes(E)
  BY EdgesLead
<1>3. adjacent \in Seq(E)
  <2> HIDE DEF E
  <2> QED BY <1>2, AdjacentEdges DEF E
<1>4. C \subseteq Nodes /\ \A e \in ToSet(adjacent) : e \in E /\ (e.to # node => e.to \in C)
  <2>1. \A e \in ToSet(adjacent) : e \in E
    BY <1>3 DEF ToSet
  <2> QED BY <1>2, <2>1 DEF Neighbours, GetTargets, LeadToNodes
<1>5. /\ out \in Seq(E) /\ \A e \in ToSet(out) : e \in E /\ e.to \in C
      /\ \A e : e \in ToSet(out) <=> e \in EdgeSet(g, node) /\ e.forward /\ e.to # node
  <2> DEFINE S == {e \in ToSet(adjacent) : e.forward /\ e.to # node}
  <2>1. Only(adjacent, S) \in Seq(E) /\ ToSet(Only(adjacent, S)) = ToSet(adjacent) \cap S
    <3> HIDE DEF S, adjacent, E
    <3> QED BY <1>3, OnlyElements
  <2>2. \A e \in S : e.to # node
    OBVIOUS
  <2>3. \A e : e \in ToSet(adjacent) \cap S <=> e \in EdgeSet(g, node) /\ e.forward /\ e.to # node
    BY DEF EdgeSet
  <2> HIDE DEF S, E, C, adjacent
  <2> QED BY <1>4, <2>1, <2>2, <2>3 DEF S
<1> HIDE DEF out, key, E, C
<1>6. loops \in Seq(E) /\ \A e \in ToSet(loops) : e \in E /\ e.to \in C
  BY <1>5, OnlyElements
<1>7. witnessed \in Seq(E) /\ \A e \in ToSet(witnessed) : e \in E /\ e.to \in C
  BY <1>5, OnlyElements
<1>14. /\ \A e \in ToSet(loops) : e \in ToSet(out)
       /\ \A e : e \in ToSet(witnessed) <=> e \in ToSet(out) /\ in.weight + e.weight < key[e.to]
  <2> DEFINE S == {e \in ToSet(out) : e.to = source /\ in.weight + e.weight < acc.weights[node]}
             W == {e \in ToSet(out) : in.weight + e.weight < key[e.to]}
  <2>1. ToSet(Only(out, S)) = ToSet(out) \cap S /\ ToSet(Only(out, W)) = ToSet(out) \cap W
    <3> HIDE DEF S, W
    <3> QED BY <1>5, OnlyElements
  <2> QED BY <2>1
<1> HIDE DEF loops, witnessed
<1>8. needed \in Seq(E) /\ \A e \in ToSet(needed) : e.to \in C
  BY <1>6, <1>7, ToSetConcat
<1>15. /\ \A e \in ToSet(needed) : e \in ToSet(out)
       /\ \A e \in ToSet(out) : in.weight + e.weight < key[e.to] => e \in ToSet(needed)
  BY <1>6, <1>7, <1>14, ToSetConcat
<1>9. weights \in [Nodes -> Nat]
  <2>1. acc.weights \in [Nodes -> Nat] /\ source \in Nodes
    BY <1>4 DEF Results, C
  <2>2. CASE loops # <<>>
    <3>1. Last(loops) \in E
      BY <1>6, <2>2 DEF Last
    <3>2. Last(loops).weight \in Nat /\ in.weight \in Nat
      BY <3>1 DEF E, ContractorEdges
    <3> QED BY <2>1, <2>2, <3>2
  <2> QED BY <2>1, <2>2
<1> HIDE DEF needed, weights
<1>10. /\ Mirrored(needed, source, in, node) \in Seq(Shortcuts)
       /\ BothWays(Mirrored(needed, source, in, node), C)
       /\ MirrorWays(Mirrored(needed, source, in, node), needed, source, in)
  <2> HIDE DEF source
  <2> QED BY <1>4, <1>8, MirroredBothWays DEF C, E, source
<1> DEFINE m == Mirrored(needed, source, in, node)
<1> HIDE DEF m, source
<1>11. acc.edges \o m \in Seq(Shortcuts) /\ BothWays(acc.edges \o m, C)
  <2>1. acc.edges \in Seq(Shortcuts) /\ BothWays(acc.edges, C)
    BY DEF Results, C
  <2> QED BY <1>10, <2>1, BothWaysConcat DEF m
<1>12. result = [weights |-> weights, edges |-> acc.edges \o m]
  BY <1>1 DEF m
<1> HIDE DEF result
<1>13. result \in Results /\ result.edges = acc.edges \o m
  BY <1>9, <1>11, <1>12 DEF Results
<1>16. \A d, u, v, w : Offers(result.edges, d, u, v, w) <=> Offers(acc.edges, d, u, v, w) \/ Offers(m, d, u, v, w)
  <2>1. acc.edges \in Seq(Shortcuts) /\ m \in Seq(Shortcuts)
    BY <1>10 DEF Results, m
  <2> QED BY <1>13, <2>1, OffersConcat
<1>17. MirrorWays(m, needed, source, in)
  BY <1>10 DEF m
<1>18. IsMirrored(result.edges)
  BY <1>16, <1>17 DEF IsMirrored, MirrorWays
<1>19. Sound(result.edges, g, node)
  <2> SUFFICES ASSUME NEW u, NEW v, NEW w \in Nat, Offers(result.edges, "forward", u, v, w)
               PROVE  Passes(g, node, u, v, w)
    BY DEF Sound
  <2>1. CASE Offers(acc.edges, "forward", u, v, w)
    BY <2>1 DEF Sound
  <2>2. CASE Offers(m, "forward", u, v, w)
    <3>1. u = source /\ \E e \in ToSet(needed) : e.to = v /\ in.weight + e.weight <= w
      BY <1>17, <2>2 DEF MirrorWays
    <3>2. PICK e \in ToSet(needed) : e.to = v /\ in.weight + e.weight <= w
      BY <3>1
    <3>3. e \in EdgeSet(g, node) /\ e.forward /\ e.to # node
      BY <1>5, <1>15
    <3>4. in.to = u /\ u # node
      BY <3>1 DEF source, Neighbours
    <3> QED BY <3>2, <3>3, <3>4 DEF Passes
  <2> QED BY <1>16, <2>1, <2>2
<1>20. Covers(result.edges, g, node, in)
  <2> SUFFICES ASSUME NEW B \in SUBSET Nodes, StaysIn(g, B), node \in B,
                      NEW e \in EdgeSet(g, node), e.forward, e.to # node, e.to # source,
                      ~ Offers(result.edges, "forward", source, e.to, in.weight + e.weight),
                      NEW p \in Potentials, FeasibleAround(p, g, B, node)
               PROVE  p[e.to] <= p[source] + (in.weight + e.weight)
    BY DEF Covers, Witnessed, source
  <2>1. e \in ToSet(out) /\ e.to \in targets
    BY <1>5
  <2>2. in.weight \in Nat /\ e.weight \in Nat /\ in.weight + e.weight \in Nat
    BY <1>5, <2>1 DEF E, ContractorEdges
  <2>3. ~ (in.weight + e.weight < key[e.to])
    <3> SUFFICES ASSUME e \in ToSet(needed) PROVE FALSE
      BY <1>15, <2>1
    <3>1. Offers(m, "forward", source, e.to, in.weight + e.weight)
      BY <1>17, <2>2 DEF MirrorWays
    <3> QED BY <1>16, <3>1
  <2> DEFINE T == targets \cup {source}
  <2>4. source \in B \ {node} /\ T \subseteq B \ {node} /\ e.to \in T
    <3>1. C \subseteq B \ {node} /\ source \in C
      BY DEF C, Neighbours, StaysIn, source
    <3> HIDE DEF source
    <3> QED BY <1>5, <2>1, <3>1
  <2>5. \A v \in Nodes : p[v] \in Nat /\ p[v] <= INVALID_EDGE_WEIGHT /\ INVALID_EDGE_WEIGHT \in Nat
    <3>1. \A v \in Nodes : p[v] \in 0 .. INVALID_EDGE_WEIGHT
      BY DEF Potentials
    <3> QED BY <3>1, InvalidWeight
  <2>6. heap.key = [v \in T |-> IF v = source THEN 0 ELSE INVALID_EDGE_WEIGHT]
        /\ heap.open = T /\ heap.found = 0 /\ heap.settled = 0
    OBVIOUS
  <2>7. heap = [key |-> heap.key, open |-> heap.open, found |-> heap.found, settled |-> heap.settled]
    OBVIOUS
  <2> HIDE DEF heap, T, targets, limit
  <2>8. heap.key \in [T -> Nat]
    BY <2>4, <2>5, <2>6
  <2>9. heap \in Heaps(B \ {node})
    <3>1. heap.key \in Keys(B \ {node})
      BY <2>4, <2>8, KeysOf
    <3> QED BY <2>4, <2>6, <2>7, <3>1 DEF Heaps
  <2>10. HeapInv(heap, p, source, T)
    <3>1. \A v \in T : p[v] <= p[source] + heap.key[v]
      BY <2>4, <2>5, <2>6
    <3> QED BY <2>6, <3>1 DEF HeapInv
  <2>11. source \in Nodes /\ B \subseteq Nodes
    BY <2>4
  <2>12. key[e.to] \in Nat /\ p[e.to] <= p[source] + key[e.to]
    BY <2>4, <2>9, <2>10, <2>11, SearchKeys DEF key
  <2>13. p[e.to] \in Nat /\ p[source] \in Nat
    BY <2>4, <2>5
  <2> QED BY <2>2, <2>3, <2>12, <2>13
<1> QED
  BY <1>11, <1>13, <1>16, <1>18, <1>19, <1>20 DEF result, C

\* All incoming edges: the same.
LEMMA ContractEdgesResult ==
    ASSUME NEW g, Consistent(g, ContractorEdges), NEW node \in Nodes, NEW simulation \in BOOLEAN,
           NEW weights \in [Nodes -> Nat]
    PROVE  /\ ContractEdges(g, node, weights, simulation) \in Results
           /\ BothWays(ContractEdges(g, node, weights, simulation).edges, Neighbours(g, node))
           /\ IsMirrored(ContractEdges(g, node, weights, simulation).edges)
           /\ Sound(ContractEdges(g, node, weights, simulation).edges, g, node)
           /\ \A in \in EdgeSet(g, node) : in.backward /\ in.to # node
                => Covers(ContractEdges(g, node, weights, simulation).edges, g, node, in)
<1> DEFINE adjacent == Adjacent(g, node)
           ins == Only(adjacent, {e \in ToSet(adjacent) : e.to # node /\ e.backward})
           base == [weights |-> weights, edges |-> <<>>]
           K == Len(ins)
           After(v, i) == ContractInEdge(g, node, simulation, v, ins[i])
           Loop(x) == x = [i \in 0 .. K |-> IF i = 0 THEN base ELSE After(x[i - 1], i)]
           Runs(x) == /\ x = [i \in 0 .. K |-> x[i]] /\ x[0] = base
                      /\ \A n \in 1 .. K : x[n] = After(x[n - 1], n)
           D == Results
           step == [p \in D \X (1 .. K) |-> After(p[1], p[2])]
           Done(edges, i) == /\ BothWays(edges, Neighbours(g, node))
                             /\ IsMirrored(edges) /\ Sound(edges, g, node)
                             /\ \A j \in 1 .. i : Covers(edges, g, node, ins[j])
           I == {p \in (0 .. K) \X D : Done(p[2].edges, p[1])}
           result == CHOOSE x : Loop(x)
<1>1. /\ K \in Nat
      /\ \A i \in 1 .. K : /\ ins[i] \in ContractorEdges /\ ins[i].to \in Neighbours(g, node)
                           /\ ins[i] \in EdgeSet(g, node) /\ ins[i].backward
      /\ \A x \in EdgeSet(g, node) : x.backward /\ x.to # node => \E i \in 1 .. K : x = ins[i]
  <2> DEFINE S == {e \in ToSet(adjacent) : e.to # node /\ e.backward}
  <2>1. LeadToNodes(ContractorEdges)
    BY EdgesLead
  <2>2. adjacent \in Seq(ContractorEdges)
    BY <2>1, AdjacentEdges
  <2>3. \A e \in S : e.to \in Neighbours(g, node) /\ e.backward
    BY DEF Neighbours, GetTargets
  <2>6. EdgeSet(g, node) = ToSet(adjacent) /\ \A x \in ToSet(adjacent) : x.backward /\ x.to # node => x \in S
    BY DEF EdgeSet
  <2> HIDE DEF adjacent
  <2>4. ins \in Seq(ContractorEdges) /\ ToSet(ins) = ToSet(adjacent) \cap S
    BY <2>2, OnlyElements
  <2> HIDE DEF ins, S
  <2>5. /\ \A i \in 1 .. Len(ins) : ins[i] \in ToSet(ins)
        /\ \A x \in ToSet(ins) : \E i \in 1 .. Len(ins) : x = ins[i]
    BY <2>4 DEF ToSet
  <2> QED BY <2>3, <2>4, <2>5, <2>6
<1> HIDE DEF ins
<1>2. ASSUME NEW n \in 1 .. K, NEW v \in D, <<n - 1, v>> \in I
      PROVE  <<n, After(v, n)>> \in I
  <2>1. Done(v.edges, n - 1) /\ n \in 0 .. K /\ v \in Results
    <3> HIDE DEF Done
    <3> QED BY <1>1, <1>2
  <2> DEFINE in == ins[n]
             r == ContractInEdge(g, node, simulation, v, in)
  <2>2. /\ in \in ContractorEdges /\ in.to \in Neighbours(g, node)
        /\ in \in EdgeSet(g, node) /\ in.backward
    BY <1>1
  <2>3. /\ BothWays(v.edges, Neighbours(g, node)) /\ IsMirrored(v.edges) /\ Sound(v.edges, g, node)
        /\ \A j \in 1 .. n - 1 : Covers(v.edges, g, node, ins[j])
    BY <2>1
  <2>4. After(v, n) = r
    OBVIOUS
  <2> HIDE DEF in
  <2>5. /\ r \in Results /\ BothWays(r.edges, Neighbours(g, node))
        /\ IsMirrored(r.edges) /\ Sound(r.edges, g, node) /\ Covers(r.edges, g, node, in)
        /\ \A d, u, x, w : Offers(v.edges, d, u, x, w) => Offers(r.edges, d, u, x, w)
    BY <2>1, <2>2, <2>3, InEdgeResult
  <2> HIDE DEF After, r
  <2>6. ASSUME NEW j \in 1 .. n PROVE Covers(r.edges, g, node, ins[j])
    <3>1. CASE j = n
      BY <2>5, <3>1 DEF in
    <3>2. CASE j # n
      <4>1. j \in 1 .. n - 1
        BY <1>1, <3>2
      <4>2. Covers(v.edges, g, node, ins[j])
        BY <2>3, <4>1
      <4> QED BY <2>5, <4>2 DEF Covers
    <3> QED BY <3>1, <3>2
  <2>7. Done(r.edges, n)
    BY <2>5, <2>6
  <2> HIDE DEF Done
  <2> QED BY <2>1, <2>4, <2>5, <2>7
<1>3. <<0, base>> \in I
  <2>1. base \in Results /\ base.edges = <<>> /\ 0 \in 0 .. K
    BY <1>1 DEF Results
  <2>2. ToSet(<<>>) = {}
    BY DEF ToSet
  <2>3. Done(<<>>, 0)
    BY <2>2 DEF BothWays, IsMirrored, Sound, Offers
  <2> HIDE DEF base, Done
  <2> QED BY <2>1, <2>3
<1> HIDE DEF Done
<1>4. \A n \in 1 .. K : \A v \in D : step[<<v, n>>] = After(v, n)
  <2> HIDE DEF base, After, D, K
  <2> QED OBVIOUS
<1>5. LoopKeeps(K, D, I, base, step)
  <2>1. I \subseteq (0 .. K) \X D
    OBVIOUS
  <2> HIDE DEF base, I, step, D, After
  <2> QED BY <1>2, <1>3, <1>4, <2>1 DEF LoopKeeps
<1>6. PICK run : LoopRun(run, K, D, I, base, step)
  <2> HIDE DEF base, K, D, I, step
  <2> QED BY <1>1, <1>5, LoopRuns
<1>7. ASSUME NEW x PROVE Loop(x) <=> Runs(x)
  <2> HIDE DEF base, After, K
  <2> QED BY <1>1
<1>8. Loop(result)
  <2> HIDE DEF base, Loop, K, After, D, I, step
  <2>1. \A n \in 1 .. K : n - 1 \in 0 .. K
    BY <1>1
  <2>2. Runs(run)
    BY <1>4, <1>6, <2>1 DEF LoopRun
  <2> HIDE DEF base, Runs
  <2> QED BY <1>7, <2>2
<1>9. ContractEdges(g, node, weights, simulation) = result[K]
  BY DEF ContractEdges, ins
<1>10. LoopRun(result, K, D, I, base, step)
  <2> HIDE DEF base, result, Loop, D, After, step, K
  <2>1. Runs(result)
    BY <1>7, <1>8
  <2>2. \A n \in 1 .. K : <<n - 1, result[n - 1]>> \in I => result[n] = step[<<result[n - 1], n>>]
    BY <1>1, <1>4, <2>1
  <2> HIDE DEF base, I
  <2> QED BY <1>1, <1>5, <2>1, <2>2, LoopInvariant
<1> HIDE DEF result, I, D, After, Loop, Runs, step, base
<1>11. <<K, result[K]>> \in I
  BY <1>1, <1>10 DEF LoopRun
<1>12. result[K] \in Results /\ Done(result[K].edges, K)
  BY <1>11 DEF I, D
<1> DEFINE edges == result[K].edges
<1> HIDE DEF edges
<1>13. /\ BothWays(edges, Neighbours(g, node)) /\ IsMirrored(edges) /\ Sound(edges, g, node)
       /\ \A j \in 1 .. K : Covers(edges, g, node, ins[j])
  BY <1>12 DEF Done, edges
<1>14. \A in \in EdgeSet(g, node) : in.backward /\ in.to # node => Covers(edges, g, node, in)
  <2> HIDE DEF K
  <2> QED BY <1>1, <1>13
<1> QED
  BY <1>9, <1>12, <1>13, <1>14 DEF edges

-----------------------------------------------------------------------------
\* Some edge of the list goes from u to v.
Joins(edges, u, v) == \E e \in ToSet(edges) : e.source = u /\ e.to = v

\* Edges that join the same nodes lead both ways if the others do.
LEMMA BothWaysJoins ==
    ASSUME NEW s, NEW t, NEW C, BothWays(s, C), \A u, v : Joins(t, u, v) <=> Joins(s, u, v)
    PROVE  BothWays(t, C)
<1> SUFFICES ASSUME NEW e \in ToSet(t)
             PROVE  /\ e.source \in C /\ e.to \in C
                    /\ \E f \in ToSet(t) : f.source = e.to /\ f.to = e.source
  BY DEF BothWays
<1>1. Joins(t, e.source, e.to)
  BY DEF Joins
<1>2. PICK d \in ToSet(s) : d.source = e.source /\ d.to = e.to
  BY <1>1 DEF Joins
<1>3. e.source \in C /\ e.to \in C /\ Joins(s, e.to, e.source)
  BY <1>2 DEF BothWays, Joins
<1>4. Joins(t, e.to, e.source)
  BY <1>3
<1> QED
  BY <1>3, <1>4 DEF Joins

\* Two lists of shortcuts offer the same ways.
SameOffers(s, t) ==
    \A d \in Directions : \A u, v : \A w \in Nat : Offers(t, d, u, v, w) <=> Offers(s, d, u, v, w)

\* Merged shortcuts join what they joined before and offer the same ways.
LEMMA MergedShortcuts ==
    ASSUME NEW edges \in Seq(Shortcuts)
    PROVE  /\ MergeDirections(edges) \in Seq(Shortcuts)
           /\ \A u, v : Joins(MergeDirections(edges), u, v) <=> Joins(edges, u, v)
           /\ SameOffers(edges, MergeDirections(edges))
<1> DEFINE K == Len(edges)
           same(i) == {j \in DOMAIN edges : /\ edges[j].source = edges[i].source
                                            /\ edges[j].to = edges[i].to
                                            /\ edges[j].weight = edges[i].weight}
           merged(i) == [edges[i] EXCEPT !.forward = \E j \in same(i) : edges[j].forward,
                                         !.backward = \E j \in same(i) : edges[j].backward]
           last(i) == ~ \E j \in same(i) : j > i
           Stays(s, n) == \A j \in 1 .. n : last(j) => merged(j) \in ToSet(s)
           Known(s) == \A x \in ToSet(s) : \E j \in 1 .. K : x = merged(j)
           After(v, i) == IF \E j \in same(i) : j > i THEN v ELSE Append(v, merged(i))
           Loop(x) == x = [i \in 0 .. K |-> IF i = 0 THEN <<>> ELSE After(x[i - 1], i)]
           Runs(x) == /\ x = [i \in 0 .. K |-> x[i]] /\ x[0] = <<>>
                      /\ \A n \in 1 .. K : x[n] = After(x[n - 1], n)
           D == Seq(Shortcuts)
           step == [p \in D \X (1 .. K) |-> After(p[1], p[2])]
           I == {p \in (0 .. K) \X D : Known(p[2]) /\ Stays(p[2], p[1])}
           result == CHOOSE x : Loop(x)
<1>1. K \in Nat /\ DOMAIN edges = 1 .. K
  OBVIOUS
<1>11. ASSUME NEW i \in 1 .. K
       PROVE  /\ merged(i) \in Shortcuts
              /\ merged(i).source = edges[i].source /\ merged(i).to = edges[i].to
              /\ merged(i).weight = edges[i].weight
              /\ \A d \in Directions : Open(merged(i), d) <=> \E j \in same(i) : Open(edges[j], d)
  <2> DEFINE a == \E j \in same(i) : edges[j].forward
             b == \E j \in same(i) : edges[j].backward
  <2>1. a \in BOOLEAN /\ b \in BOOLEAN
    BY Zenon
  <2>2. edges[i] \in Shortcuts
    BY <1>1
  <2>3. merged(i) = [edges[i] EXCEPT !.forward = a, !.backward = b]
    OBVIOUS
  <2> HIDE DEF a, b, merged
  <2>4. /\ merged(i) \in Shortcuts
        /\ merged(i).source = edges[i].source /\ merged(i).to = edges[i].to
        /\ merged(i).weight = edges[i].weight
        /\ merged(i).forward = a /\ merged(i).backward = b
    BY <2>1, <2>2, <2>3 DEF Shortcuts
  <2> HIDE DEF same
  <2>5. (merged(i).forward <=> \E j \in same(i) : edges[j].forward)
        /\ (merged(i).backward <=> \E j \in same(i) : edges[j].backward)
    BY <2>4, Zenon DEF a, b
  <2>6. \A d \in Directions : Open(merged(i), d) <=> \E j \in same(i) : Open(edges[j], d)
    BY <2>5, Zenon DEF Open, Directions
  <2> QED BY <2>4, <2>6
<1> HIDE DEF merged
<1>2. ASSUME NEW n \in 1 .. K, NEW v \in D, <<n - 1, v>> \in I
      PROVE  <<n, After(v, n)>> \in I
  <2>1. Known(v) /\ Stays(v, n - 1) /\ n \in 0 .. K
    <3> HIDE DEF Known, Stays
    <3> QED BY <1>1, <1>2
  <2>2. CASE ~ last(n)
    <3>1. After(v, n) = v
      BY <2>2
    <3>2. Stays(v, n)
      <4> HIDE DEF last
      <4> QED BY <1>1, <2>1, <2>2
    <3> HIDE DEF Known, Stays, After
    <3> QED BY <2>1, <3>1, <3>2
  <2>3. CASE last(n)
    <3> DEFINE r == Append(v, merged(n))
    <3>1. After(v, n) = r /\ r \in D
      BY <1>11, <2>3
    <3>2. ToSet(r) = ToSet(v) \cup {merged(n)}
      BY <1>11, ToSetAppend
    <3> HIDE DEF r, same, last
    <3>5. Known(r)
      BY <2>1, <3>2
    <3>6. Stays(r, n)
      <4> SUFFICES ASSUME NEW j \in 1 .. n, last(j) PROVE merged(j) \in ToSet(r)
        OBVIOUS
      <4>1. j = n \/ j \in 1 .. n - 1
        BY <1>1
      <4> QED BY <2>1, <3>2, <4>1
    <3> HIDE DEF Known, Stays, After
    <3> QED BY <2>1, <3>1, <3>5, <3>6
  <2> QED BY <2>2, <2>3
<1>3. <<0, <<>> >> \in I
  <2>1. <<>> \in D /\ 0 \in 0 .. K
    BY <1>1
  <2>2. Known(<<>>) /\ Stays(<<>>, 0)
    <3> HIDE DEF last
    <3> QED BY DEF Joins, ToSet
  <2> HIDE DEF Known, Stays, D, K
  <2> QED BY <2>1, <2>2
<1> HIDE DEF Known, Stays
<1>4. \A n \in 1 .. K : \A v \in D : step[<<v, n>>] = After(v, n)
  <2> HIDE DEF After, D, K
  <2> QED OBVIOUS
<1>5. LoopKeeps(K, D, I, <<>>, step)
  <2>1. I \subseteq (0 .. K) \X D
    OBVIOUS
  <2> HIDE DEF I, step, D, After
  <2> QED BY <1>2, <1>3, <1>4, <2>1 DEF LoopKeeps
<1>6. PICK run : LoopRun(run, K, D, I, <<>>, step)
  <2> HIDE DEF K, D, I, step
  <2> QED BY <1>1, <1>5, LoopRuns
<1>7. ASSUME NEW x PROVE Loop(x) <=> Runs(x)
  <2> HIDE DEF After, K
  <2> QED BY <1>1
<1>8. Loop(result)
  <2> HIDE DEF Loop, K, After, D, I, step
  <2>1. \A n \in 1 .. K : n - 1 \in 0 .. K
    BY <1>1
  <2>2. Runs(run)
    BY <1>4, <1>6, <2>1 DEF LoopRun
  <2> HIDE DEF Runs
  <2> QED BY <1>7, <2>2
<1>9. MergeDirections(edges) = result[K]
  BY DEF MergeDirections, merged
<1>10. LoopRun(result, K, D, I, <<>>, step)
  <2> HIDE DEF result, Loop, D, After, step, K
  <2>1. Runs(result)
    BY <1>7, <1>8
  <2>2. \A n \in 1 .. K : <<n - 1, result[n - 1]>> \in I => result[n] = step[<<result[n - 1], n>>]
    BY <1>1, <1>4, <2>1
  <2> HIDE DEF I
  <2> QED BY <1>1, <1>5, <2>1, <2>2, LoopInvariant
<1> HIDE DEF result, I, After, Loop, Runs, step
<1>12. <<K, result[K]>> \in I
  <2> HIDE DEF K
  <2> QED BY <1>1, <1>10 DEF LoopRun
<1>13. result[K] \in Seq(Shortcuts) /\ Known(result[K]) /\ Stays(result[K], K)
  BY <1>12 DEF I
<1> DEFINE m == result[K]
<1> HIDE DEF m
<1>14. \A x : x \in ToSet(edges) <=> \E j \in 1 .. K : x = edges[j]
  BY DEF ToSet
<1>15. /\ \A x \in ToSet(m) : \E j \in 1 .. K : x = merged(j)
       /\ \A j \in 1 .. K : last(j) => merged(j) \in ToSet(m)
  BY <1>13 DEF Known, Stays, m
<1>16. ASSUME NEW i \in 1 .. K PROVE \E j \in 1 .. K : last(j) /\ j \in same(i) /\ i \in same(j)
  <2> DEFINE back == {k \in Nat : K - k \in same(i)}
  <2>3. i \in same(i) /\ K - i \in Nat /\ K - (K - i) = i
    BY <1>1
  <2>4. K - i \in back
    BY <2>3
  <2>5. back # {} /\ back \subseteq Nat
    BY <2>4
  <2> HIDE DEF back
  <2>6. PICK k \in back : \A y \in back : k <= y
    BY <2>5, LeastNatural
  <2> DEFINE j == K - k
  <2>7. j \in same(i) /\ j \in 1 .. K /\ k \in Nat
    BY <1>1, <2>6 DEF back
  <2>8. last(j)
    <3> SUFFICES ASSUME NEW y \in same(j), y > j PROVE FALSE
      OBVIOUS
    <3>1. y \in same(i) /\ y \in 1 .. K
      BY <1>1, <2>7
    <3>2. K - y \in Nat /\ K - (K - y) = y /\ K - y < k
      BY <1>1, <2>7, <3>1
    <3>3. K - y \in back
      BY <3>1, <3>2 DEF back
    <3> HIDE DEF same
    <3> QED BY <1>1, <2>6, <2>7, <3>1, <3>2, <3>3
  <2>9. i \in same(j)
    BY <1>1, <2>7
  <2> HIDE DEF j, same, last
  <2> QED BY <2>7, <2>8, <2>9
<1>17. \A i \in 1 .. K : \A j \in same(i) :
         /\ j \in 1 .. K
         /\ edges[j].source = edges[i].source /\ edges[j].to = edges[i].to /\ edges[j].weight = edges[i].weight
  BY <1>1
<1> HIDE DEF same, last, K
<1>18. ASSUME NEW u, NEW v PROVE Joins(m, u, v) <=> Joins(edges, u, v)
  <2>1. ASSUME Joins(edges, u, v) PROVE Joins(m, u, v)
    <3>1. PICK i \in 1 .. K : edges[i].source = u /\ edges[i].to = v
      BY <1>14, <2>1 DEF Joins
    <3>2. PICK j \in 1 .. K : last(j) /\ j \in same(i)
      BY <1>16
    <3> QED BY <1>11, <1>15, <1>17, <3>1, <3>2 DEF Joins
  <2>2. ASSUME Joins(m, u, v) PROVE Joins(edges, u, v)
    BY <1>11, <1>14, <1>15, <2>2 DEF Joins
  <2> QED BY <2>1, <2>2
<1>19. ASSUME NEW d \in Directions, NEW u, NEW v, NEW w \in Nat
       PROVE  Offers(m, d, u, v, w) <=> Offers(edges, d, u, v, w)
  <2>1. ASSUME Offers(edges, d, u, v, w) PROVE Offers(m, d, u, v, w)
    <3>1. PICK i \in 1 .. K : Open(edges[i], d) /\ edges[i].source = u /\ edges[i].to = v /\ edges[i].weight <= w
      BY <1>14, <2>1 DEF Offers
    <3>2. PICK j \in 1 .. K : last(j) /\ j \in same(i) /\ i \in same(j)
      BY <1>16
    <3>3. Open(merged(j), d)
      BY <1>11, <3>1, <3>2
    <3>4. merged(j).source = u /\ merged(j).to = v /\ merged(j).weight <= w /\ merged(j) \in ToSet(m)
      BY <1>11, <1>15, <1>17, <3>1, <3>2
    <3> QED BY <3>3, <3>4 DEF Offers
  <2>2. ASSUME Offers(m, d, u, v, w) PROVE Offers(edges, d, u, v, w)
    <3>1. PICK x \in ToSet(m) : Open(x, d) /\ x.source = u /\ x.to = v /\ x.weight <= w
      BY <2>2 DEF Offers
    <3>2. PICK i \in 1 .. K : x = merged(i)
      BY <1>15
    <3>3. PICK j \in same(i) : Open(edges[j], d)
      BY <1>11, <3>1, <3>2
    <3>4. edges[j] \in ToSet(edges) /\ edges[j].source = u /\ edges[j].to = v /\ edges[j].weight <= w
      BY <1>11, <1>14, <1>17, <3>1, <3>2, <3>3
    <3> QED BY <3>3, <3>4 DEF Offers
  <2> QED BY <2>1, <2>2
<1> QED
  BY <1>9, <1>13, <1>18, <1>19 DEF m, SameOffers

\* The original edges of a list count at least one each.
LEMMA OriginalEdgesCount ==
    ASSUME NEW T, \A e \in T : e.orig \in Nat \ {0}, NEW edges \in Seq(T)
    PROVE  OriginalEdges(edges) \in Nat /\ OriginalEdges(edges) >= Len(edges)
<1> DEFINE
           K == Len(edges)
           After(v, i) == v + edges[i].orig
           Loop(x) == x = [i \in 0 .. K |-> IF i = 0 THEN 0 ELSE After(x[i - 1], i)]
           Runs(x) == /\ x = [i \in 0 .. K |-> x[i]] /\ x[0] = 0
                      /\ \A n \in 1 .. K : x[n] = After(x[n - 1], n)
           D == Nat
           step == [p \in D \X (1 .. K) |-> After(p[1], p[2])]
           I == {p \in (0 .. K) \X D : p[2] >= p[1]}
           result == CHOOSE x : Loop(x)
<1>1. K \in Nat /\ \A i \in 1 .. K : edges[i].orig \in Nat \ {0}
  BY SMT
<1>2. ASSUME NEW n \in 1 .. K, NEW v \in D, <<n - 1, v>> \in I
      PROVE  <<n, After(v, n)>> \in I
  <2>1. v >= n - 1 /\ n \in 0 .. K /\ edges[n].orig \in Nat \ {0}
    BY <1>1, <1>2
  <2> HIDE DEF K
  <2> QED BY <2>1
<1>3. <<0, 0>> \in I
  BY <1>1
<1>4. \A n \in 1 .. K : \A v \in D : step[<<v, n>>] = After(v, n)
  <2> HIDE DEF After, D, K
  <2> QED OBVIOUS
<1>5. LoopKeeps(K, D, I, 0, step)
  <2>1. I \subseteq (0 .. K) \X D
    OBVIOUS
  <2> HIDE DEF I, step, D, After
  <2> QED BY <1>2, <1>3, <1>4, <2>1 DEF LoopKeeps
<1>6. PICK run : LoopRun(run, K, D, I, 0, step)
  <2> HIDE DEF K, D, I, step
  <2> QED BY <1>1, <1>5, LoopRuns
<1>7. ASSUME NEW x PROVE Loop(x) <=> Runs(x)
  <2> HIDE DEF After, K
  <2> QED BY <1>1
<1>8. Loop(result)
  <2> HIDE DEF Loop, K, After, D, I, step
  <2>1. \A n \in 1 .. K : n - 1 \in 0 .. K
    BY <1>1
  <2>2. Runs(run)
    BY <1>4, <1>6, <2>1 DEF LoopRun
  <2> HIDE DEF Runs
  <2> QED BY <1>7, <2>2
<1>9. OriginalEdges(edges) = result[K]
  BY DEF OriginalEdges
<1>10. LoopRun(result, K, D, I, 0, step)
  <2> HIDE DEF result, Loop, D, After, step, K
  <2>1. Runs(result)
    BY <1>7, <1>8
  <2>2. \A n \in 1 .. K : <<n - 1, result[n - 1]>> \in I => result[n] = step[<<result[n - 1], n>>]
    BY <1>1, <1>4, <2>1
  <2> HIDE DEF I
  <2> QED BY <1>1, <1>5, <2>1, <2>2, LoopInvariant
<1> HIDE DEF result, I, After, Loop, Runs, step, D
<1>11. <<K, result[K]>> \in I
  <2> HIDE DEF K
  <2> QED BY <1>1, <1>10 DEF LoopRun
<1>12. result[K] \in Nat /\ result[K] >= K
  BY <1>11 DEF I, D
<1> QED
  BY <1>9, <1>12

\* A float is a fraction with a positive scale.
LEMMA FloatFraction ==
    ASSUME NEW n \in Int, NEW d \in Nat, d > 0
    PROVE  Float(n, d) \in Int \X Nat /\ Float(n, d)[2] > 0
<1> DEFINE fits(s) == Significand * d <= 2 * n * s /\ n * s < Significand * d
           scale == CHOOSE s \in Scales : fits(s)
           a == n * scale
           floor == a \div d
           rest == 2 * (a % d)
           m == IF rest > d \/ (rest = d /\ floor % 2 = 1) THEN floor + 1 ELSE floor
<1>1. Float(n, d) = IF \E s \in Scales : fits(s) THEN <<m, scale>> ELSE <<n, d>>
  BY DEF Float
<1>2. CASE \E s \in Scales : fits(s)
  <2>1. scale \in Nat /\ scale > 0
    <3>1. scale \in Scales
      <4> HIDE DEF fits
      <4> QED BY <1>2
    <3> HIDE DEF scale
    <3> QED BY <3>1, FloatAssumption
  <2> HIDE DEF scale
  <2>2. a \in Int
    BY <2>1
  <2> HIDE DEF a
  <2>3. floor \in Int
    BY <2>2
  <2> HIDE DEF floor, rest
  <2>4. m \in Int
    BY <2>3
  <2> HIDE DEF m, fits
  <2>5. Float(n, d) = <<m, scale>>
    BY <1>1, <1>2
  <2> QED BY <2>1, <2>4, <2>5
<1>3. CASE ~ \E s \in Scales : fits(s)
  <2> HIDE DEF fits, m, scale
  <2>1. Float(n, d) = <<n, d>>
    BY <1>1, <1>3
  <2> QED BY <2>1
<1> QED
  BY <1>2, <1>3

\* So are sums and multiples of floats.
LEMMA FloatSumFraction ==
    ASSUME NEW p \in Int \X Nat, p[2] > 0, NEW q \in Int \X Nat, q[2] > 0
    PROVE  FloatSum(p, q) \in Int \X Nat /\ FloatSum(p, q)[2] > 0
<1>1. p[1] \in Int /\ p[2] \in Nat /\ q[1] \in Int /\ q[2] \in Nat
  OBVIOUS
<1> DEFINE n == p[1] * q[2] + q[1] * p[2]
           d == p[2] * q[2]
<1>2. p[1] * q[2] \in Int /\ q[1] * p[2] \in Int /\ d \in Nat /\ d > 0
  BY <1>1
<1>3. n \in Int
  BY <1>2
<1>4. FloatSum(p, q) = Float(n, d)
  BY DEF FloatSum
<1> HIDE DEF n, d
<1> QED
  BY <1>2, <1>3, <1>4, FloatFraction

\* A simulated contraction yields bounds and a proper fraction as priority.
LEMMA SimulatedResult ==
    ASSUME NEW g, Consistent(g, ContractorEdges), NEW node \in Nodes, NEW weights \in [Nodes -> Nat],
           NEW depth \in Nat
    PROVE  /\ Simulated(g, node, weights, depth).weights \in [Nodes -> Nat]
           /\ Simulated(g, node, weights, depth).priority \in Int \X Nat
           /\ Simulated(g, node, weights, depth).priority[2] > 0
<1> DEFINE simulation == TRUE
           result == ContractEdges(g, node, weights, simulation)
           adjacent == Adjacent(g, node)
           gone == Only(adjacent, {e \in ToSet(adjacent) : e.to # node})
           deleted == Len(gone)
           origs == OriginalEdges(gone)
           added == Len(result.edges)
           new == OriginalEdges(result.edges)
           fraction == FloatSum(FloatSum(FloatTimes(2, Float(added, deleted)), FloatTimes(4, Float(new, origs))),
                                <<depth, 1>>)
           s == Simulated(g, node, weights, depth)
<1>1. s = [weights |-> result.weights, priority |-> IF deleted = 0 THEN <<depth, 1>> ELSE fraction]
  BY DEF Simulated
<1>2. simulation \in BOOLEAN
  OBVIOUS
<1> HIDE DEF simulation
<1>3. result \in Results
  BY <1>2, ContractEdgesResult
<1> HIDE DEF result
<1>4. result.weights \in [Nodes -> Nat] /\ result.edges \in Seq(Shortcuts)
  BY <1>3 DEF Results
<1>5. \A e \in Shortcuts : e.orig \in Nat \ {0}
  BY DEF Shortcuts
<1>6. added \in Nat /\ new \in Nat
  <2> DEFINE edges == result.edges
  <2> HIDE DEF edges
  <2>1. OriginalEdges(edges) \in Nat /\ edges \in Seq(Shortcuts)
    BY <1>4, <1>5, OriginalEdgesCount DEF edges
  <2> QED BY <2>1 DEF edges
<1>7. gone \in Seq(ContractorEdges)
  <2>1. adjacent \in Seq(ContractorEdges)
    BY EdgesLead, AdjacentEdges
  <2> HIDE DEF adjacent
  <2> QED BY <2>1, OnlyElements
<1> HIDE DEF gone
<1>8. \A e \in ContractorEdges : e.orig \in Nat \ {0}
  BY DEF ContractorEdges
<1>9. deleted \in Nat /\ origs \in Nat /\ origs >= deleted
  BY <1>7, <1>8, OriginalEdgesCount
<1> HIDE DEF deleted, origs, added, new
<1>10. CASE deleted = 0
  <2>1. s = [weights |-> result.weights, priority |-> <<depth, 1>>]
    BY <1>1, <1>10
  <2> HIDE DEF s
  <2> QED BY <1>4, <2>1 DEF s
<1>11. CASE deleted # 0
  <2>1. s = [weights |-> result.weights, priority |-> fraction]
    BY <1>1, <1>11
  <2> DEFINE p == Float(added, deleted)
             q == Float(new, origs)
             x == FloatTimes(2, p)
             y == FloatTimes(4, q)
             z == FloatSum(x, y)
             e == <<depth, 1>>
  <2>2. origs > 0 /\ deleted > 0 /\ added \in Int /\ new \in Int
    BY <1>6, <1>9, <1>11
  <2>3. p \in Int \X Nat /\ p[2] > 0 /\ q \in Int \X Nat /\ q[2] > 0
    BY <1>9, <2>2, FloatFraction
  <2> HIDE DEF p, q
  <2>4. x \in Int \X Nat /\ x[2] > 0 /\ y \in Int \X Nat /\ y[2] > 0
    <3>1. p[1] \in Int /\ q[1] \in Int /\ p[2] \in Nat /\ q[2] \in Nat
      BY <2>3
    <3> QED BY <2>3, <3>1 DEF FloatTimes
  <2> HIDE DEF x, y
  <2>6. z \in Int \X Nat /\ z[2] > 0
    BY <2>4, FloatSumFraction
  <2> HIDE DEF z
  <2>7. e \in Int \X Nat /\ e[2] > 0
    OBVIOUS
  <2> HIDE DEF e
  <2>8. FloatSum(z, e) \in Int \X Nat /\ FloatSum(z, e)[2] > 0
    BY <2>6, <2>7, FloatSumFraction
  <2>5. fraction \in Int \X Nat /\ fraction[2] > 0
    BY <2>8 DEF z, x, y, p, q, e
  <2> HIDE DEF s, fraction
  <2> QED BY <1>4, <2>1, <2>5 DEF s
<1> QED
  BY <1>10, <1>11

-----------------------------------------------------------------------------
(***************************************************************************)
(* Sorting and inserting.                                                  *)
(***************************************************************************)
\* A sequence with one more element inserted.
LEMMA InsertAtElements ==
    ASSUME NEW T, NEW s \in Seq(T), NEW e \in T, NEW k \in 1 .. Len(s) + 1
    PROVE  InsertAt(s, k, e) \in Seq(T) /\ \A x : x \in ToSet(InsertAt(s, k, e)) <=> x \in ToSet(s) \/ x = e
<1> DEFINE a == SubSeq(s, 1, k - 1)
           b == SubSeq(s, k, Len(s))
<1>1. a \in Seq(T) /\ b \in Seq(T) /\ <<e>> \in Seq(T)
  OBVIOUS
<1>2. InsertAt(s, k, e) = (a \o <<e>>) \o b
  BY DEF InsertAt
<1>3. \A x : x \in ToSet(<<e>>) <=> x = e
  BY DEF ToSet
<1>4. \A x : x \in ToSet(s) <=> x \in ToSet(a) \/ x \in ToSet(b)
  <2>1. ASSUME NEW i \in 1 .. Len(s) PROVE s[i] \in ToSet(a) \/ s[i] \in ToSet(b)
    <3>1. CASE i < k
      <4>1. i \in 1 .. Len(a) /\ a[i] = s[i]
        BY <3>1
      <4> QED BY <1>1, <4>1 DEF ToSet
    <3>2. CASE i >= k
      <4> DEFINE j == (i - k) + 1
      <4>1. j \in 1 .. Len(b) /\ b[j] = s[i]
        BY <3>2
      <4> HIDE DEF j, b
      <4> QED BY <1>1, <4>1 DEF ToSet
    <3> QED BY <3>1, <3>2
  <2>2. ASSUME NEW i \in 1 .. Len(a) PROVE a[i] \in ToSet(s)
    <3>1. i \in 1 .. Len(s) /\ a[i] = s[i]
      OBVIOUS
    <3> QED BY <3>1 DEF ToSet
  <2>3. ASSUME NEW i \in 1 .. Len(b) PROVE b[i] \in ToSet(s)
    <3>1. (k + i) - 1 \in 1 .. Len(s) /\ b[i] = s[(k + i) - 1]
      OBVIOUS
    <3> QED BY <3>1 DEF ToSet
  <2> HIDE DEF a, b
  <2>4. /\ \A x : x \in ToSet(s) <=> \E i \in 1 .. Len(s) : x = s[i]
        /\ \A x : x \in ToSet(a) <=> \E i \in 1 .. Len(a) : x = a[i]
        /\ \A x : x \in ToSet(b) <=> \E i \in 1 .. Len(b) : x = b[i]
    BY <1>1 DEF ToSet
  <2> QED BY <2>1, <2>2, <2>3, <2>4
<1> HIDE DEF a, b
<1>5. a \o <<e>> \in Seq(T) /\ \A x : x \in ToSet(a \o <<e>>) <=> x \in ToSet(a) \/ x \in ToSet(<<e>>)
  BY <1>1, ToSetConcat
<1> DEFINE c == a \o <<e>>
<1> HIDE DEF c
<1>6. c \o b \in Seq(T) /\ \A x : x \in ToSet(c \o b) <=> x \in ToSet(c) \/ x \in ToSet(b)
  BY <1>1, <1>5, ToSetConcat DEF c
<1> QED
  BY <1>2, <1>3, <1>4, <1>5, <1>6 DEF c

\* A sorted list holds the same edges.
LEMMA SortedJoins ==
    ASSUME NEW T, NEW edges \in Seq(T), NEW s \in Sorted(edges)
    PROVE  /\ s \in Seq(T) /\ \A u, v : Joins(s, u, v) <=> Joins(edges, u, v)
           /\ \A e : e \in ToSet(s) <=> e \in ToSet(edges)
<1> DEFINE Holds(x, n) == \A e : e \in ToSet(x) <=> \E j \in 1 .. n : e = edges[j]
           K == Len(edges)
           After(v, i) == UNION {SortedInto(x, edges[i]) : x \in v}
           Loop(x) == x = [i \in 0 .. K |-> IF i = 0 THEN {<<>>} ELSE After(x[i - 1], i)]
           Runs(x) == /\ x = [i \in 0 .. K |-> x[i]] /\ x[0] = {<<>>}
                      /\ \A n \in 1 .. K : x[n] = After(x[n - 1], n)
           D == SUBSET Seq(T)
           step == [p \in D \X (1 .. K) |-> After(p[1], p[2])]
           I == {p \in (0 .. K) \X D : \A x \in p[2] : Holds(x, p[1])}
           result == CHOOSE x : Loop(x)
<1>1. K \in Nat /\ \A i \in 1 .. K : edges[i] \in T
  OBVIOUS
<1>2. ASSUME NEW n \in 1 .. K, NEW v \in D, <<n - 1, v>> \in I
      PROVE  <<n, After(v, n)>> \in I
  <2>1. (\A x \in v : Holds(x, n - 1)) /\ n \in 0 .. K /\ v \subseteq Seq(T)
    <3> HIDE DEF Holds
    <3> QED BY <1>1, <1>2
  <2>2. ASSUME NEW y \in After(v, n) PROVE y \in Seq(T) /\ Holds(y, n)
    <3>1. PICK x \in v : y \in SortedInto(x, edges[n])
      OBVIOUS
    <3>2. PICK k \in 1 .. Len(x) + 1 : y = InsertAt(x, k, edges[n])
      BY <3>1 DEF SortedInto
    <3>3. x \in Seq(T) /\ Holds(x, n - 1) /\ edges[n] \in T
      <4> HIDE DEF Holds, After
      <4> QED BY <1>1, <2>1
    <3> DEFINE e == edges[n]
    <3>4. e \in T
      BY <3>3
    <3> HIDE DEF e, Holds, After
    <3>5. InsertAt(x, k, e) \in Seq(T) /\ \A z : z \in ToSet(InsertAt(x, k, e)) <=> z \in ToSet(x) \/ z = e
      BY <3>3, <3>4, InsertAtElements
    <3>6. \A z : z \in ToSet(y) <=> z \in ToSet(x) \/ z = edges[n]
      BY <3>2, <3>5 DEF e
    <3>7. \A z : (\E j \in 1 .. n : z = edges[j]) <=> (\E j \in 1 .. n - 1 : z = edges[j]) \/ z = edges[n]
      BY <1>1
    <3> HIDE DEF K
    <3> QED BY <3>2, <3>3, <3>5, <3>6, <3>7 DEF Holds, e
  <2>3. After(v, n) \in D
    <3> HIDE DEF After, Holds
    <3> QED BY <2>2
  <2> HIDE DEF After, Holds
  <2> QED BY <2>1, <2>2, <2>3
<1>3. <<0, {<<>>}>> \in I
  <2>1. {<<>>} \in D /\ 0 \in 0 .. K
    BY <1>1
  <2>2. Holds(<<>>, 0)
    BY DEF ToSet
  <2> HIDE DEF Holds, D, K
  <2> QED BY <2>1, <2>2
<1> HIDE DEF Holds
<1>4. \A n \in 1 .. K : \A v \in D : step[<<v, n>>] = After(v, n)
  <2> HIDE DEF After, D, K
  <2> QED OBVIOUS
<1>5. LoopKeeps(K, D, I, {<<>>}, step)
  <2>1. I \subseteq (0 .. K) \X D
    OBVIOUS
  <2> HIDE DEF I, step, D, After
  <2> QED BY <1>2, <1>3, <1>4, <2>1 DEF LoopKeeps
<1>6. PICK run : LoopRun(run, K, D, I, {<<>>}, step)
  <2> HIDE DEF K, D, I, step
  <2> QED BY <1>1, <1>5, LoopRuns
<1>7. ASSUME NEW x PROVE Loop(x) <=> Runs(x)
  <2> HIDE DEF After, K
  <2> QED BY <1>1
<1>8. Loop(result)
  <2> HIDE DEF Loop, K, After, D, I, step
  <2>1. \A n \in 1 .. K : n - 1 \in 0 .. K
    BY <1>1
  <2>2. Runs(run)
    BY <1>4, <1>6, <2>1 DEF LoopRun
  <2> HIDE DEF Runs
  <2> QED BY <1>7, <2>2
<1>9. Sorted(edges) = result[K]
  BY DEF Sorted
<1>10. LoopRun(result, K, D, I, {<<>>}, step)
  <2> HIDE DEF result, Loop, D, After, step, K
  <2>1. Runs(result)
    BY <1>7, <1>8
  <2>2. \A n \in 1 .. K : <<n - 1, result[n - 1]>> \in I => result[n] = step[<<result[n - 1], n>>]
    BY <1>1, <1>4, <2>1
  <2> HIDE DEF I
  <2> QED BY <1>1, <1>5, <2>1, <2>2, LoopInvariant
<1> HIDE DEF result, I, After, Loop, Runs, step
<1>11. <<K, result[K]>> \in I
  <2> HIDE DEF K
  <2> QED BY <1>1, <1>10 DEF LoopRun
<1>12. s \in Seq(T) /\ Holds(s, K)
  BY <1>9, <1>11 DEF I
<1>13. \A e : e \in ToSet(edges) <=> \E j \in 1 .. K : e = edges[j]
  BY DEF ToSet
<1> QED
  BY <1>12, <1>13 DEF Joins, Holds

\* What leads somewhere in h does so in g, or by e.
OneMoreWay(g, h, e) ==
    \A d \in Directions : \A n \in Nodes : \A v : \A w \in Nat :
        Leads(h, d, n, v, w) <=> Leads(g, d, n, v, w)
                                   \/ (Open(e, d) /\ n = e.source /\ v = e.to /\ e.weight <= w)

\* A shortcut that is inserted adds one target, if any, and one way: what it replaces has
\* the same directions and is longer, and it is dropped only for one that is not.
LEMMA InsertShortcutTargets ==
    ASSUME NEW g, Consistent(g, ContractorEdges), NEW e \in Shortcuts
    PROVE  /\ Consistent(InsertShortcut(g, e), ContractorEdges)
           /\ \A n \in Nodes : \A v : v \in GetTargets(InsertShortcut(g, e), n)
                                        <=> v \in GetTargets(g, n) \/ (n = e.source /\ v = e.to)
           /\ OneMoreWay(g, InsertShortcut(g, e), e)
<1> DEFINE E == ContractorEdges
           from == e.source
           slot == FindEdge(g, from, e.to)
           edge == [to |-> e.to, weight |-> e.weight, orig |-> e.orig, id |-> e.id, shortcut |-> TRUE,
                    forward |-> e.forward, backward |-> e.backward]
           h == InsertShortcut(g, e)
           old == g.list[slot]
           same == old.forward = e.forward /\ old.backward = e.backward
<1>1. from \in Nodes /\ edge \in E /\ edge.to = e.to /\ edge.weight = e.weight /\ e.weight \in Nat
  BY NAssumption DEF Shortcuts, ContractorEdges, Nodes
<1>2. \/ slot # 0 /\ same /\ e.weight < old.weight /\ h = EdgeReplaced(g, slot, edge)
      \/ slot # 0 /\ same /\ ~ (e.weight < old.weight) /\ h = g
      \/ h = InsertEdge(g, from, edge)
  BY DEF InsertShortcut, EdgeReplaced
<1>3. LeadToNodes(E) /\ Consistent(g, E)
  BY EdgesLead
<1>4. BeginEdges(g, from) \in Nat /\ EndEdges(g, from) \in Nat
  <2>1. g.node \in [Nodes -> [first : Nat \ {0}, edges : Nat]]
    BY <1>3 DEF Consistent, Arrays
  <2> QED BY <1>1, <2>1 DEF BeginEdges, EndEdges
<1> DEFINE to == e.to
<1>9. \A d \in Directions : Open(edge, d) <=> Open(e, d)
  BY DEF Open
<1>10. ASSUME same PROVE \A d \in Directions : Open(old, d) <=> Open(e, d)
  BY <1>10, Zenon DEF Open
<1> HIDE DEF E, edge, h, from, to
<1>5. ASSUME slot # 0
      PROVE  /\ slot \in Slots(g, from) /\ old.to = e.to /\ e.to \in GetTargets(g, from)
             /\ old \in EdgeSet(g, from)
  <2>1. FindEdge(g, from, to) \in Slots(g, from) /\ g.list[FindEdge(g, from, to)].to = to
    BY <1>4, <1>5, FindEdgeSlot DEF to
  <2>2. slot \in Slots(g, from) /\ g.list[slot].to = e.to
    BY <2>1 DEF to
  <2> HIDE DEF slot
  <2> QED BY <1>1, <1>3, <2>2, TargetSlots, EdgeSlots
<1> HIDE DEF slot, same, old
<1>11. \A n \in Nodes : \A x \in EdgeSet(g, n) : x.weight \in Nat
  <2>1. \A n \in Nodes : EdgeSet(g, n) \subseteq E
    BY <1>3, EdgeSlots
  <2> QED BY <2>1 DEF E, ContractorEdges
<1>6. CASE slot # 0 /\ same /\ e.weight < old.weight /\ h = EdgeReplaced(g, slot, edge)
  <2>1. edge.to = g.list[slot].to /\ slot \in Slots(g, from) /\ edge \in E
    BY <1>1, <1>5, <1>6 DEF old
  <2>2. /\ Consistent(h, E) /\ \A m \in Nodes : GetTargets(h, m) = GetTargets(g, m)
        /\ \A m \in Nodes \ {from} : EdgeSet(h, m) = EdgeSet(g, m)
        /\ edge \in EdgeSet(h, from)
        /\ \A x \in EdgeSet(h, from) : x \in EdgeSet(g, from) \/ x = edge
        /\ \A x \in EdgeSet(g, from) : x \in EdgeSet(h, from) \/ x = old
    BY <1>1, <1>3, <1>6, <2>1, ReplaceEdge DEF old
  <2>3. ASSUME NEW d \in Directions, NEW n \in Nodes, NEW v, NEW w \in Nat
        PROVE  Leads(h, d, n, v, w) <=> Leads(g, d, n, v, w)
                                          \/ (Open(e, d) /\ n = from /\ v = e.to /\ e.weight <= w)
    <3>1. CASE n # from
      BY <2>2, <3>1 DEF Leads
    <3>2. CASE n = from
      <4>1. ASSUME Leads(h, d, n, v, w) PROVE Leads(g, d, n, v, w) \/ (Open(e, d) /\ v = e.to /\ e.weight <= w)
        BY <1>1, <1>9, <2>2, <3>2, <4>1 DEF Leads
      <4>2. ASSUME Leads(g, d, n, v, w) PROVE Leads(h, d, n, v, w)
        <5>1. PICK x \in EdgeSet(g, n) : Open(x, d) /\ x.to = v /\ x.weight <= w
          BY <4>2 DEF Leads
        <5>2. CASE x = old
          <6>1. old.weight \in Nat /\ edge.weight <= w /\ Open(edge, d) /\ edge.to = v
            BY <1>1, <1>5, <1>6, <1>9, <1>10, <1>11, <5>1, <5>2
          <6> QED BY <2>2, <3>2, <6>1 DEF Leads
        <5> QED BY <2>2, <3>2, <5>1, <5>2 DEF Leads
      <4>3. ASSUME Open(e, d), v = e.to, e.weight <= w PROVE Leads(h, d, n, v, w)
        BY <1>1, <1>9, <2>2, <3>2, <4>3 DEF Leads
      <4> QED BY <3>2, <4>1, <4>2, <4>3
    <3> QED BY <3>1, <3>2
  <2> QED BY <1>5, <1>6, <2>2, <2>3 DEF h, E, from, OneMoreWay
<1>7. CASE slot # 0 /\ same /\ ~ (e.weight < old.weight) /\ h = g
  <2>1. ASSUME NEW d \in Directions, NEW w \in Nat, Open(e, d), e.weight <= w
        PROVE  Leads(g, d, from, e.to, w)
    <3>1. old \in EdgeSet(g, from) /\ old.to = e.to /\ Open(old, d) /\ old.weight \in Nat
      BY <1>1, <1>5, <1>7, <1>10, <1>11, <2>1
    <3>2. old.weight <= w
      BY <1>1, <1>7, <2>1, <3>1
    <3> QED BY <3>1, <3>2 DEF Leads
  <2>2. OneMoreWay(g, h, e)
    BY <1>7, <2>1 DEF OneMoreWay, from
  <2> QED BY <1>3, <1>5, <1>7, <2>2 DEF h, E, from
<1>8. CASE h = InsertEdge(g, from, edge)
  <2>1. /\ Consistent(h, E)
        /\ \A n \in Nodes \ {from} : GetTargets(h, n) = GetTargets(g, n)
        /\ GetTargets(h, from) = GetTargets(g, from) \cup {edge.to}
        /\ \A n \in Nodes \ {from} : EdgeSet(h, n) = EdgeSet(g, n)
        /\ EdgeSet(h, from) = EdgeSet(g, from) \cup {edge}
    BY <1>1, <1>3, <1>8, InsertEdgeConsistent
  <2>2. \A n \in Nodes : \A v : v \in GetTargets(h, n) <=> v \in GetTargets(g, n) \/ (n = from /\ v = e.to)
    BY <1>1, <2>1
  <2>3. ASSUME NEW d \in Directions, NEW n \in Nodes, NEW v, NEW w \in Nat
        PROVE  Leads(h, d, n, v, w) <=> Leads(g, d, n, v, w)
                                          \/ (Open(e, d) /\ n = from /\ v = e.to /\ e.weight <= w)
    <3>1. CASE n # from
      BY <2>1, <3>1 DEF Leads
    <3>2. CASE n = from
      BY <1>1, <1>9, <2>1, <3>2 DEF Leads
    <3> QED BY <3>1, <3>2
  <2> QED BY <2>1, <2>2, <2>3 DEF h, E, from, OneMoreWay
<1> QED
  BY <1>2, <1>6, <1>7, <1>8

\* The targets of h are those of g and what the first k edges join; its ways are those of
\* g and of the first k edges.
Widened(g, h, edges, k) ==
    /\ \A n \in Nodes : \A v : v \in GetTargets(h, n)
         <=> v \in GetTargets(g, n) \/ \E j \in 1 .. k : n = edges[j].source /\ v = edges[j].to
    /\ \A d \in Directions : \A n \in Nodes : \A v : \A w \in Nat : Leads(h, d, n, v, w)
         <=> \/ Leads(g, d, n, v, w)
             \/ \E j \in 1 .. k : Open(edges[j], d) /\ n = edges[j].source /\ v = edges[j].to /\ edges[j].weight <= w

\* The ways of h are those of g and of the edges.
MoreWays(g, h, edges) ==
    \A d \in Directions : \A n \in Nodes : \A v : \A w \in Nat :
        Leads(h, d, n, v, w) <=> Leads(g, d, n, v, w) \/ Offers(edges, d, n, v, w)

\* Inserting shortcuts one after the other adds the edges they stand for, no others.
LEMMA InsertShortcutsTargets ==
    ASSUME NEW g, Consistent(g, ContractorEdges), NEW edges \in Seq(Shortcuts)
    PROVE  /\ Consistent(InsertShortcuts(g, edges), ContractorEdges)
           /\ \A n \in Nodes : \A v : v \in GetTargets(InsertShortcuts(g, edges), n)
                                        <=> v \in GetTargets(g, n) \/ Joins(edges, n, v)
           /\ MoreWays(g, InsertShortcuts(g, edges), edges)
<1> DEFINE E == ContractorEdges
           K == Len(edges)
           After(v, i) == InsertShortcut(v, edges[i])
           Loop(x) == x = [i \in 0 .. K |-> IF i = 0 THEN g ELSE After(x[i - 1], i)]
           Runs(x) == /\ x = [i \in 0 .. K |-> x[i]] /\ x[0] = g
                      /\ \A n \in 1 .. K : x[n] = After(x[n - 1], n)
           D == Arrays(E)
           step == [p \in D \X (1 .. K) |-> After(p[1], p[2])]
           I == {p \in (0 .. K) \X D : Consistent(p[2], E) /\ Widened(g, p[2], edges, p[1])}
           result == CHOOSE x : Loop(x)
<1> HIDE DEF E
<1>1. K \in Nat /\ \A i \in 1 .. K : edges[i] \in Shortcuts
  OBVIOUS
<1>2. ASSUME NEW n \in 1 .. K, NEW v \in D, <<n - 1, v>> \in I
      PROVE  <<n, After(v, n)>> \in I
  <2>1. Consistent(v, E) /\ Widened(g, v, edges, n - 1) /\ n \in 0 .. K
    BY <1>1, <1>2
  <2> DEFINE e == edges[n]
             h == InsertShortcut(v, e)
  <2>2. e \in Shortcuts
    BY <1>1
  <2>3. After(v, n) = h
    OBVIOUS
  <2> HIDE DEF e, After
  <2>4. /\ Consistent(h, E)
        /\ \A m \in Nodes : \A w : w \in GetTargets(h, m)
                                     <=> w \in GetTargets(v, m) \/ (m = e.source /\ w = e.to)
        /\ OneMoreWay(v, h, e)
    BY <2>1, <2>2, InsertShortcutTargets DEF E
  <2> HIDE DEF h
  <2>5. /\ n \in 1 .. n /\ \A j \in 1 .. n : j = n \/ j \in 1 .. n - 1
        /\ \A j \in 1 .. n - 1 : j \in 1 .. n
    BY <1>1
  <2>6. Widened(g, h, edges, n)
    <3> HIDE DEF K
    <3>1. ASSUME NEW m \in Nodes, NEW w
          PROVE  w \in GetTargets(h, m)
                   <=> w \in GetTargets(g, m) \/ \E j \in 1 .. n : m = edges[j].source /\ w = edges[j].to
      <4>1. w \in GetTargets(v, m)
               <=> w \in GetTargets(g, m) \/ \E j \in 1 .. n - 1 : m = edges[j].source /\ w = edges[j].to
        BY <2>1 DEF Widened
      <4>2. w \in GetTargets(h, m) <=> w \in GetTargets(v, m) \/ (m = e.source /\ w = e.to)
        BY <2>4
      <4> DEFINE way(j) == m = edges[j].source /\ w = edges[j].to
      <4>3. way(n) <=> m = e.source /\ w = e.to
        BY DEF e
      <4> HIDE DEF way
      <4>4. (\E j \in 1 .. n : way(j)) <=> (\E j \in 1 .. n - 1 : way(j)) \/ way(n)
        BY <2>5
      <4> QED BY <4>1, <4>2, <4>3, <4>4 DEF way
    <3>2. ASSUME NEW d \in Directions, NEW m \in Nodes, NEW w, NEW x \in Nat
          PROVE  Leads(h, d, m, w, x)
             <=> \/ Leads(g, d, m, w, x)
                 \/ \E j \in 1 .. n :
                      Open(edges[j], d) /\ m = edges[j].source /\ w = edges[j].to /\ edges[j].weight <= x
      <4>1. Leads(h, d, m, w, x)
              <=> Leads(v, d, m, w, x) \/ (Open(e, d) /\ m = e.source /\ w = e.to /\ e.weight <= x)
        BY <2>4 DEF OneMoreWay
      <4>2. Leads(v, d, m, w, x)
              <=> \/ Leads(g, d, m, w, x)
                  \/ \E j \in 1 .. n - 1 :
                       Open(edges[j], d) /\ m = edges[j].source /\ w = edges[j].to /\ edges[j].weight <= x
        BY <2>1 DEF Widened
      <4> DEFINE way(j) == Open(edges[j], d) /\ m = edges[j].source /\ w = edges[j].to /\ edges[j].weight <= x
      <4>3. way(n) <=> Open(e, d) /\ m = e.source /\ w = e.to /\ e.weight <= x
        BY DEF e
      <4> HIDE DEF way
      <4>6. (\E j \in 1 .. n : way(j)) <=> (\E j \in 1 .. n - 1 : way(j)) \/ way(n)
        BY <2>5
      <4> QED BY <4>1, <4>2, <4>3, <4>6 DEF way
    <3> QED BY <3>1, <3>2 DEF Widened
  <2>7. h \in D
    BY <2>4 DEF Consistent
  <2> HIDE DEF D
  <2> QED BY <2>1, <2>3, <2>4, <2>6, <2>7
<1>3. <<0, g>> \in I
  <2>1. g \in D /\ 0 \in 0 .. K /\ Consistent(g, E)
    BY <1>1 DEF Consistent, E
  <2>2. Widened(g, g, edges, 0)
    BY DEF Widened
  <2> HIDE DEF D, K
  <2> QED BY <2>1, <2>2
<1>4. \A n \in 1 .. K : \A v \in D : step[<<v, n>>] = After(v, n)
  <2> HIDE DEF After, D, K
  <2> QED OBVIOUS
<1>5. LoopKeeps(K, D, I, g, step)
  <2>1. I \subseteq (0 .. K) \X D
    OBVIOUS
  <2> HIDE DEF I, step, D, After
  <2> QED BY <1>2, <1>3, <1>4, <2>1 DEF LoopKeeps
<1>6. PICK run : LoopRun(run, K, D, I, g, step)
  <2> HIDE DEF K, D, I, step
  <2> QED BY <1>1, <1>5, LoopRuns
<1>7. ASSUME NEW x PROVE Loop(x) <=> Runs(x)
  <2> HIDE DEF After, K
  <2> QED BY <1>1
<1>8. Loop(result)
  <2> HIDE DEF Loop, K, After, D, I, step
  <2>1. \A n \in 1 .. K : n - 1 \in 0 .. K
    BY <1>1
  <2>2. Runs(run)
    BY <1>4, <1>6, <2>1 DEF LoopRun
  <2> HIDE DEF Runs
  <2> QED BY <1>7, <2>2
<1>9. InsertShortcuts(g, edges) = result[K]
  BY DEF InsertShortcuts
<1>10. LoopRun(result, K, D, I, g, step)
  <2> HIDE DEF result, Loop, D, After, step, K
  <2>1. Runs(result)
    BY <1>7, <1>8
  <2>2. \A n \in 1 .. K : <<n - 1, result[n - 1]>> \in I => result[n] = step[<<result[n - 1], n>>]
    BY <1>1, <1>4, <2>1
  <2> HIDE DEF I
  <2> QED BY <1>1, <1>5, <2>1, <2>2, LoopInvariant
<1> HIDE DEF result, I, After, Loop, Runs, step, D
<1>11. <<K, result[K]>> \in I
  <2> HIDE DEF K
  <2> QED BY <1>1, <1>10 DEF LoopRun
<1> DEFINE h == InsertShortcuts(g, edges)
<1>12. Consistent(h, E) /\ Widened(g, h, edges, K)
  BY <1>9, <1>11 DEF I
<1> HIDE DEF h
<1>13. \A n, v : Joins(edges, n, v) <=> \E j \in 1 .. K : n = edges[j].source /\ v = edges[j].to
  <2>1. \A e : e \in ToSet(edges) <=> \E j \in 1 .. K : e = edges[j]
    BY DEF ToSet
  <2> HIDE DEF K
  <2> QED BY <2>1 DEF Joins
<1>16. ASSUME NEW d, NEW n, NEW v, NEW w
       PROVE  Offers(edges, d, n, v, w)
                <=> \E j \in 1 .. K : Open(edges[j], d) /\ n = edges[j].source /\ v = edges[j].to /\ edges[j].weight <= w
  <2>1. \A e : e \in ToSet(edges) <=> \E j \in 1 .. K : e = edges[j]
    BY DEF ToSet
  <2> HIDE DEF K
  <2> QED BY <2>1 DEF Offers
<1> HIDE DEF K
<1>14. \A n \in Nodes : \A v : v \in GetTargets(h, n) <=> v \in GetTargets(g, n) \/ Joins(edges, n, v)
  BY <1>12, <1>13 DEF Widened
<1>15. MoreWays(g, h, edges)
  BY <1>12, <1>16 DEF Widened, MoreWays
<1> QED
  BY <1>12, <1>14, <1>15 DEF h, E

\* The edges of h are those of g without the ones from neighbours of node up to k to node.
CutUpTo(g, h, node, k) ==
    \A n \in Nodes : \A v : v \in GetTargets(h, n)
        <=> v \in GetTargets(g, n) /\ ~(n <= k /\ n \in Neighbours(g, node) /\ v = node)

\* The edges that do not lead to the node are the same.
SameEdgesElsewhere(g, h, node) == \A n \in Nodes : \A x : x.to # node => (x \in EdgeSet(h, n) <=> x \in EdgeSet(g, n))

\* After CutOff no neighbour of the node has an edge to it; all other edges stay.
LEMMA CutOffTargets ==
    ASSUME NEW g, Consistent(g, ContractorEdges), NEW node \in Nodes
    PROVE  /\ Consistent(CutOff(g, node), ContractorEdges)
           /\ \A n \in Nodes : \A v : v \in GetTargets(CutOff(g, node), n)
                <=> v \in GetTargets(g, n) /\ ~(n \in Neighbours(g, node) /\ v = node)
           /\ SameEdgesElsewhere(g, CutOff(g, node), node)
<1> DEFINE E == ContractorEdges
           K == N
           After(v, i) == IF i \in Neighbours(g, node) THEN DeleteEdgesTo(v, i, node) ELSE v
           Loop(x) == x = [i \in 0 .. K |-> IF i = 0 THEN g ELSE After(x[i - 1], i)]
           Runs(x) == /\ x = [i \in 0 .. K |-> x[i]] /\ x[0] = g
                      /\ \A n \in 1 .. K : x[n] = After(x[n - 1], n)
           D == Arrays(E)
           step == [p \in D \X (1 .. K) |-> After(p[1], p[2])]
           I == {p \in (0 .. K) \X D : /\ Consistent(p[2], E) /\ CutUpTo(g, p[2], node, p[1])
                                       /\ SameEdgesElsewhere(g, p[2], node)}
           result == CHOOSE x : Loop(x)
<1> HIDE DEF E
<1>1. K \in Nat /\ Nodes = 1 .. K
  BY NAssumption DEF Nodes
<1>2. ASSUME NEW n \in 1 .. K, NEW v \in D, <<n - 1, v>> \in I
      PROVE  <<n, After(v, n)>> \in I
  <2>1. /\ Consistent(v, E) /\ CutUpTo(g, v, node, n - 1) /\ n \in 0 .. K /\ n \in Nodes
        /\ SameEdgesElsewhere(g, v, node)
    BY <1>1, <1>2
  <2>2. CASE n \in Neighbours(g, node)
    <3> DEFINE h == DeleteEdgesTo(v, n, node)
    <3>1. After(v, n) = h
      BY <2>2
    <3>2. /\ Consistent(h, E)
          /\ \A m \in Nodes \ {n} : GetTargets(h, m) = GetTargets(v, m)
          /\ \A w : w \in GetTargets(h, n) <=> w \in GetTargets(v, n) /\ w # node
          /\ \A m \in Nodes \ {n} : EdgeSet(h, m) = EdgeSet(v, m)
          /\ \A x : x \in EdgeSet(h, n) <=> x \in EdgeSet(v, n) /\ x.to # node
      BY <2>1, EdgesLead, DeleteConsistent DEF E
    <3> HIDE DEF h, After
    <3>3. CutUpTo(g, h, node, n)
      <4> SUFFICES ASSUME NEW m \in Nodes, NEW w
                   PROVE  w \in GetTargets(h, m)
                            <=> w \in GetTargets(g, m) /\ ~(m <= n /\ m \in Neighbours(g, node) /\ w = node)
        BY DEF CutUpTo
      <4>1. m # n => (m <= n <=> m <= n - 1)
        BY <1>1
      <4>2. w \in GetTargets(v, m)
              <=> w \in GetTargets(g, m) /\ ~(m <= n - 1 /\ m \in Neighbours(g, node) /\ w = node)
        BY <2>1 DEF CutUpTo
      <4>3. n <= n
        BY <1>1
      <4> QED BY <2>2, <3>2, <4>1, <4>2, <4>3
    <3>4. h \in D
      BY <3>2 DEF Consistent
    <3>5. SameEdgesElsewhere(g, h, node)
      BY <2>1, <3>2 DEF SameEdgesElsewhere
    <3> HIDE DEF D
    <3> QED BY <2>1, <3>1, <3>2, <3>3, <3>4, <3>5
  <2>3. CASE n \notin Neighbours(g, node)
    <3>1. After(v, n) = v
      BY <2>3
    <3>2. CutUpTo(g, v, node, n)
      <4> SUFFICES ASSUME NEW m \in Nodes, NEW w
                   PROVE  w \in GetTargets(v, m)
                            <=> w \in GetTargets(g, m) /\ ~(m <= n /\ m \in Neighbours(g, node) /\ w = node)
        BY DEF CutUpTo
      <4>1. m # n => (m <= n <=> m <= n - 1)
        BY <1>1
      <4>2. w \in GetTargets(v, m)
              <=> w \in GetTargets(g, m) /\ ~(m <= n - 1 /\ m \in Neighbours(g, node) /\ w = node)
        BY <2>1 DEF CutUpTo
      <4> QED BY <2>3, <4>1, <4>2
    <3> HIDE DEF D, After
    <3> QED BY <2>1, <3>1, <3>2
  <2> QED BY <2>2, <2>3
<1>3. <<0, g>> \in I
  <2>1. g \in D /\ 0 \in 0 .. K /\ Consistent(g, E)
    BY <1>1 DEF Consistent, E
  <2>2. CutUpTo(g, g, node, 0) /\ SameEdgesElsewhere(g, g, node)
    BY <1>1 DEF CutUpTo, SameEdgesElsewhere
  <2> HIDE DEF D, K
  <2> QED BY <2>1, <2>2
<1>4. \A n \in 1 .. K : \A v \in D : step[<<v, n>>] = After(v, n)
  <2> HIDE DEF After, D, K
  <2> QED OBVIOUS
<1>5. LoopKeeps(K, D, I, g, step)
  <2>1. I \subseteq (0 .. K) \X D
    OBVIOUS
  <2> HIDE DEF I, step, D, After
  <2> QED BY <1>2, <1>3, <1>4, <2>1 DEF LoopKeeps
<1>6. PICK run : LoopRun(run, K, D, I, g, step)
  <2> HIDE DEF K, D, I, step
  <2> QED BY <1>1, <1>5, LoopRuns
<1>7. ASSUME NEW x PROVE Loop(x) <=> Runs(x)
  <2> HIDE DEF After, K
  <2> QED BY <1>1
<1>8. Loop(result)
  <2> HIDE DEF Loop, K, After, D, I, step
  <2>1. \A n \in 1 .. K : n - 1 \in 0 .. K
    BY <1>1
  <2>2. Runs(run)
    BY <1>4, <1>6, <2>1 DEF LoopRun
  <2> HIDE DEF Runs
  <2> QED BY <1>7, <2>2
<1>9. CutOff(g, node) = result[K]
  BY DEF CutOff
<1>10. LoopRun(result, K, D, I, g, step)
  <2> HIDE DEF result, Loop, D, After, step, K
  <2>1. Runs(result)
    BY <1>7, <1>8
  <2>2. \A n \in 1 .. K : <<n - 1, result[n - 1]>> \in I => result[n] = step[<<result[n - 1], n>>]
    BY <1>1, <1>4, <2>1
  <2> HIDE DEF I
  <2> QED BY <1>1, <1>5, <2>1, <2>2, LoopInvariant
<1> HIDE DEF result, I, After, Loop, Runs, step, D
<1>11. <<K, result[K]>> \in I
  <2> HIDE DEF K
  <2> QED BY <1>1, <1>10 DEF LoopRun
<1> DEFINE h == CutOff(g, node)
<1>12. Consistent(h, E) /\ CutUpTo(g, h, node, K) /\ SameEdgesElsewhere(g, h, node)
  BY <1>9, <1>11 DEF I
<1> HIDE DEF h
<1>13. \A n \in Nodes : n <= K
  BY <1>1
<1> HIDE DEF K
<1>14. \A n \in Nodes : \A v : v \in GetTargets(h, n)
          <=> v \in GetTargets(g, n) /\ ~(n \in Neighbours(g, node) /\ v = node)
  BY <1>12, <1>13 DEF CutUpTo
<1> QED
  BY <1>12, <1>14 DEF h, E

-----------------------------------------------------------------------------
(***************************************************************************)
(* Renumbering.                                                            *)
(***************************************************************************)
\* A value keeps its node when both get new numbers.
LEMMA PermutedValues ==
    ASSUME NEW perm, IsNumbering(perm), NEW T, NEW f \in [Nodes -> T]
    PROVE  /\ Permuted(f, perm) \in [Nodes -> T]
           /\ \A o \in Nodes : Permuted(f, perm)[perm[o]] = f[o]
<1> DEFINE old(n) == CHOOSE o \in Nodes : perm[o] = n
<1>1. ASSUME NEW n \in Nodes PROVE old(n) \in Nodes /\ perm[old(n)] = n
  BY DEF IsNumbering
<1>2. Permuted(f, perm) = [n \in Nodes |-> f[old(n)]]
  BY DEF Permuted
<1> HIDE DEF old
<1>3. \A o \in Nodes : perm[o] \in Nodes /\ old(perm[o]) = o
  BY <1>1 DEF IsNumbering
<1> QED
  BY <1>1, <1>2, <1>3

\* Two edges differ in their middle node at most.
AlikeButId(e, f) == e.to = f.to /\ e.weight = f.weight /\ e.forward = f.forward /\ e.backward = f.backward

\* The ways of h are those of g under the new numbers.
RenamedWays(g, h, perm) ==
    \A d \in Directions : \A u, v \in Nodes : \A w \in Nat :
        Leads(h, d, perm[u], perm[v], w) <=> Leads(g, d, u, v, w)

\* RenumberGraph renames the middle nodes of shortcuts as well; lists, targets, weights and
\* directions are those of Renumber.
LEMMA RenumberGraphTargets ==
    ASSUME NEW g, Consistent(g, ContractorEdges), NEW perm, IsNumbering(perm)
    PROVE  /\ Consistent(RenumberGraph(g, perm), ContractorEdges)
           /\ RenumberGraph(g, perm).count = NumberOfEdges(RenumberGraph(g, perm))
           /\ Renamed(g, RenumberGraph(g, perm), perm)
           /\ RenamedWays(g, RenumberGraph(g, perm), perm)
<1> DEFINE E == ContractorEdges
           h == Renumber(g, perm)
           renamed == [i \in DOMAIN h.list |->
                         IF h.list[i].shortcut THEN [h.list[i] EXCEPT !.id = perm[@]] ELSE h.list[i]]
           r == RenumberGraph(g, perm)
<1>1. /\ Consistent(h, E) /\ h.list \in Seq(E) /\ h.count = NumberOfEdges(h)
      /\ Renamed(g, h, perm) /\ RenamedEdges(g, h, perm)
  <2>1. LeadToNodes(E) /\ CanBeRetargeted(E) /\ Consistent(g, E)
    BY EdgesLead
  <2> HIDE DEF E
  <2> QED BY <2>1, RenumberConsistent
<1>2. r = [h EXCEPT !.list = renamed]
  BY DEF RenumberGraph
<1>3. h \in Arrays(E)
  BY <1>1 DEF Consistent
<1>4. ASSUME NEW e \in E, e.shortcut
      PROVE  [e EXCEPT !.id = perm[@]] \in E /\ AlikeButId([e EXCEPT !.id = perm[@]], e)
  <2>1. perm[e.id] \in Nodes /\ perm[e.id] \in 0 .. N
    <3>1. e.id \in Nodes
      BY <1>4, Zenon DEF ContractorEdges
    <3>2. perm \in [Nodes -> Nodes]
      BY DEF IsNumbering
    <3> HIDE DEF E
    <3>3. perm[e.id] \in Nodes
      BY <3>1, <3>2
    <3> QED BY <3>3, NAssumption DEF Nodes
  <2> DEFINE id == perm[e.id]
  <2> HIDE DEF id
  <2>2. [e EXCEPT !.id = id] \in E /\ AlikeButId([e EXCEPT !.id = id], e)
    BY <2>1 DEF ContractorEdges, id, AlikeButId
  <2> QED BY <2>2 DEF id
<1> HIDE DEF h, E
<1>5. Len(h.list) \in Nat /\ DOMAIN h.list = 1 .. Len(h.list) /\ \A i \in 1 .. Len(h.list) : h.list[i] \in E
  BY <1>1
<1>6. ASSUME NEW i \in 1 .. Len(h.list)
      PROVE  renamed[i] \in E /\ AlikeButId(renamed[i], h.list[i])
  <2> DEFINE e == h.list[i]
  <2>1. e \in E
    BY <1>5
  <2>2. renamed[i] = IF e.shortcut THEN [e EXCEPT !.id = perm[@]] ELSE e
    BY <1>5
  <2> HIDE DEF e, renamed
  <2>3. CASE e.shortcut
    <3>1. renamed[i] = [e EXCEPT !.id = perm[@]]
      BY <2>2, <2>3
    <3> QED BY <1>4, <2>1, <2>3, <3>1 DEF e
  <2>4. CASE ~ e.shortcut
    <3>1. renamed[i] = e
      BY <2>2, <2>4
    <3> QED BY <2>1, <3>1 DEF e, AlikeButId
  <2> QED BY <2>3, <2>4
<1>7. renamed = [i \in 1 .. Len(h.list) |-> renamed[i]]
  BY <1>5
<1> HIDE DEF renamed
<1>8. renamed \in [1 .. Len(h.list) -> E]
  BY <1>6, <1>7
<1>9. renamed \in Seq(E) /\ Len(renamed) = Len(h.list)
  BY <1>5, <1>8, SeqOfFunction
<1>10. r = [node |-> h.node, list |-> renamed, count |-> h.count]
  BY <1>2, <1>3 DEF Arrays
<1> HIDE DEF r
<1>11. r.node = h.node /\ r.list = renamed /\ r.count = h.count
  BY <1>10
<1>12. r \in Arrays(E)
  <2>1. renamed \in Seq(E \cup {Dummy})
    BY <1>9
  <2> QED BY <1>3, <1>10, <2>1 DEF Arrays
<1>13. SameTargets(h, r)
  BY <1>6, <1>9, <1>11 DEF SameTargets, AlikeButId
<1>14. /\ Consistent(r, E)
       /\ \A n \in Nodes : GetTargets(r, n) = GetTargets(h, n)
       /\ NumberOfEdges(r) = NumberOfEdges(h)
  <2>1. LeadToNodes(E)
    BY EdgesLead DEF E
  <2> QED BY <1>1, <1>12, <1>13, <2>1, SameTargetsConsistent
<1>15. \A n \in Nodes : perm[n] \in Nodes
  BY DEF IsNumbering
<1>16. ASSUME NEW d \in Directions, NEW u \in Nodes, NEW v, NEW w
       PROVE  Leads(r, d, u, v, w) <=> Leads(h, d, u, v, w)
  <2>1. LeadToNodes(E) /\ Consistent(r, E) /\ Consistent(h, E)
    BY <1>1, <1>14, EdgesLead DEF E
  <2>2. /\ \A x : x \in EdgeSet(r, u) <=> \E i \in Slots(r, u) : x = r.list[i]
        /\ \A x : x \in EdgeSet(h, u) <=> \E i \in Slots(h, u) : x = h.list[i]
    BY <2>1, EdgeSlots
  <2>3. Slots(r, u) = Slots(h, u)
    BY <1>11 DEF Slots, BeginEdges, EndEdges
  <2>4. Slots(h, u) \subseteq 1 .. Len(h.list)
    BY <1>1, <1>5 DEF Consistent, WellFormed
  <2>5. \A i \in Slots(h, u) : /\ r.list[i].to = h.list[i].to /\ r.list[i].weight = h.list[i].weight
                               /\ Open(r.list[i], d) <=> Open(h.list[i], d)
    <3>1. \A i \in Slots(h, u) : AlikeButId(r.list[i], h.list[i])
      BY <1>6, <1>11, <2>4
    <3> QED BY <3>1 DEF AlikeButId, Open
  <2> QED BY <2>2, <2>3, <2>5 DEF Leads
<1>17. ASSUME NEW d \in Directions, NEW u \in Nodes, NEW v \in Nodes, NEW w \in Nat
       PROVE  Leads(h, d, perm[u], perm[v], w) <=> Leads(g, d, u, v, w)
  <2>1. EdgeSet(g, u) \subseteq ContractorEdges
    BY EdgesLead, EdgeSlots DEF E
  <2> DEFINE moved(e) == [e EXCEPT !.to = perm[e.to]]
  <2>2. ASSUME NEW e \in EdgeSet(g, u)
        PROVE  /\ moved(e).to = perm[e.to] /\ moved(e).weight = e.weight /\ e.to \in Nodes
               /\ Open(moved(e), d) <=> Open(e, d)
    BY <2>1 DEF ContractorEdges, Open
  <2>3. \A x : x \in EdgeSet(h, perm[u]) <=> \E e \in EdgeSet(g, u) : x = moved(e)
    BY <1>1 DEF RenamedEdges
  <2>4. \A x \in Nodes : perm[x] = perm[v] <=> x = v
    BY DEF IsNumbering
  <2> HIDE DEF moved
  <2>5. ASSUME Leads(h, d, perm[u], perm[v], w) PROVE Leads(g, d, u, v, w)
    <3>1. PICK x \in EdgeSet(h, perm[u]) : Open(x, d) /\ x.to = perm[v] /\ x.weight <= w
      BY <2>5 DEF Leads
    <3>2. PICK e \in EdgeSet(g, u) : x = moved(e)
      BY <2>3
    <3> QED BY <2>2, <2>4, <3>1, <3>2 DEF Leads
  <2>6. ASSUME Leads(g, d, u, v, w) PROVE Leads(h, d, perm[u], perm[v], w)
    <3>1. PICK e \in EdgeSet(g, u) : Open(e, d) /\ e.to = v /\ e.weight <= w
      BY <2>6 DEF Leads
    <3>2. moved(e) \in EdgeSet(h, perm[u])
      BY <2>3
    <3> QED BY <2>2, <3>1, <3>2 DEF Leads
  <2> QED BY <2>5, <2>6
<1>18. RenamedWays(g, r, perm)
  BY <1>15, <1>16, <1>17 DEF RenamedWays
<1> QED
  BY <1>1, <1>11, <1>14, <1>15, <1>18 DEF r, E, Renamed

\* The place of a node in a set of nodes.
Rank(S, n) == Cardinality({m \in S : m <= n})

\* Ranks of the elements of a set of nodes increase with the nodes and count to its size.
LEMMA RankIncreases ==
    ASSUME NEW S, S \subseteq Nodes
    PROVE  /\ IsFiniteSet(S) /\ Cardinality(S) \in Nat
           /\ \A n \in S : Rank(S, n) \in 1 .. Cardinality(S)
           /\ \A m, n \in S : m < n => Rank(S, m) < Rank(S, n)
<1> DEFINE upTo(n) == {m \in S : m <= n}
<1>1. IsFiniteSet(Nodes)
  BY NAssumption, FS_Interval DEF Nodes
<1>2. IsFiniteSet(S) /\ Cardinality(S) \in Nat
  BY <1>1, FS_Subset, FS_CardinalityType
<1>3. ASSUME NEW n PROVE IsFiniteSet(upTo(n)) /\ Cardinality(upTo(n)) \in Nat /\ Cardinality(upTo(n)) <= Cardinality(S)
  <2>1. upTo(n) \in SUBSET S
    OBVIOUS
  <2> HIDE DEF upTo
  <2> QED BY <1>2, <2>1, FS_Subset, FS_CardinalityType
<1>4. ASSUME NEW n \in S PROVE Cardinality(upTo(n)) # 0
  <2>1. n \in upTo(n)
    BY NAssumption DEF Nodes
  <2>2. upTo(n) # {}
    BY <2>1
  <2> HIDE DEF upTo
  <2> QED BY <1>3, <2>2, FS_EmptySet
<1>5. ASSUME NEW m \in S, NEW n \in S, m < n PROVE Cardinality(upTo(m)) < Cardinality(upTo(n))
  <2>1. upTo(m) \in SUBSET upTo(n) /\ n \in upTo(n) /\ n \notin upTo(m)
    <3>1. \A x \in S : x \in Int
      BY NAssumption DEF Nodes
    <3>2. \A x \in upTo(m) : x \in upTo(n)
      BY <1>5, <3>1
    <3>3. n \in upTo(n) /\ n \notin upTo(m)
      BY <1>5, <3>1
    <3> HIDE DEF upTo
    <3> QED BY <3>2, <3>3
  <2>2. upTo(m) # upTo(n)
    BY <2>1
  <2> HIDE DEF upTo
  <2>3. Cardinality(upTo(m)) <= Cardinality(upTo(n)) /\ Cardinality(upTo(m)) # Cardinality(upTo(n))
    BY <1>3, <2>1, <2>2, FS_Subset
  <2> QED BY <1>3, <2>3
<1>6. \A n : Rank(S, n) = Cardinality(upTo(n))
  BY DEF Rank
<1> HIDE DEF upTo
<1> QED
  BY <1>2, <1>3, <1>4, <1>5, <1>6

\* RenumberData: the new numbers correspond one to one, and the remaining nodes get
\* the lowest.
LEMMA RemainingGetLowNumbers ==
    ASSUME remaining \subseteq Nodes
    PROVE  /\ IsNumbering(RemainingFirst)
           /\ Cardinality(remaining) \in Nat /\ Cardinality(remaining) <= N
           /\ \A n \in Nodes : n \in remaining <=> RemainingFirst[n] \in 1 .. Cardinality(remaining)
<1> DEFINE R == remaining
           Q == Nodes \ remaining
           perm == RemainingFirst
           k == Cardinality(R)
<1>1. /\ IsFiniteSet(R) /\ k \in Nat
      /\ \A n \in R : Rank(R, n) \in 1 .. k
      /\ \A m, n \in R : m < n => Rank(R, m) < Rank(R, n)
  BY RankIncreases
<1>2. /\ IsFiniteSet(Q) /\ Cardinality(Q) \in Nat
      /\ \A n \in Q : Rank(Q, n) \in 1 .. Cardinality(Q)
      /\ \A m, n \in Q : m < n => Rank(Q, m) < Rank(Q, n)
  <2>1. Q \subseteq Nodes
    OBVIOUS
  <2> HIDE DEF Q
  <2> QED BY <2>1, RankIncreases
<1>3. IsFiniteSet(Nodes) /\ Cardinality(Nodes) = N
  BY NAssumption, FS_Interval DEF Nodes
<1>4. k + Cardinality(Q) = N
  <2> DEFINE union == R \cup Q
             both == R \cap Q
  <2>1. union = Nodes /\ both = {}
    OBVIOUS
  <2> HIDE DEF Q, R, k
  <2>2. Cardinality(union) = Cardinality(R) + Cardinality(Q) - Cardinality(both)
    BY <1>1, <1>2, FS_Union
  <2> HIDE DEF union, both
  <2>3. Cardinality(both) = 0
    BY <2>1, FS_EmptySet
  <2> QED BY <1>1, <1>2, <1>3, <2>1, <2>2, <2>3 DEF k
<1>5. perm = [n \in Nodes |-> IF n \in R THEN Rank(R, n) ELSE k + Rank(Q, n)]
  BY DEF RemainingFirst, Rank
<1> HIDE DEF perm, k
<1>6. ASSUME NEW n \in Nodes
      PROVE  /\ perm[n] \in Nodes
             /\ n \in R => perm[n] = Rank(R, n) /\ perm[n] <= k
             /\ n \notin R => perm[n] = k + Rank(Q, n) /\ perm[n] > k
  <2>1. Nodes = 1 .. N
    BY DEF Nodes
  <2>2. CASE n \in R
    BY <1>1, <1>2, <1>4, <1>5, <2>1, <2>2
  <2>3. CASE n \notin R
    <3>1. n \in Q /\ perm[n] = k + Rank(Q, n)
      BY <1>5, <2>3
    <3> HIDE DEF Q
    <3> QED BY <1>1, <1>2, <1>4, <2>1, <2>3, <3>1
  <2> QED BY <2>2, <2>3
<1>7. perm \in [Nodes -> Nodes]
  BY <1>5, <1>6
<1>8. ASSUME NEW m \in Nodes, NEW n \in Nodes, perm[m] = perm[n] PROVE m = n
  <2>1. Nodes \subseteq Int
    BY DEF Nodes
  <2>2. CASE m \in R /\ n \in R
    <3>1. Rank(R, m) = Rank(R, n)
      BY <1>6, <1>8, <2>2
    <3>2. ~(m < n) /\ ~(n < m)
      BY <1>1, <2>2, <3>1
    <3> QED BY <2>1, <3>2
  <2>3. CASE m \notin R /\ n \notin R
    <3>1. m \in Q /\ n \in Q
      BY <2>3
    <3>2. Rank(Q, m) \in Nat /\ Rank(Q, n) \in Nat
      BY <1>2, <3>1
    <3>3. Rank(Q, m) = Rank(Q, n)
      BY <1>1, <1>6, <1>8, <2>3, <3>2 DEF k
    <3> HIDE DEF Q
    <3>4. ~(m < n) /\ ~(n < m)
      BY <1>2, <3>1, <3>2, <3>3
    <3> QED BY <2>1, <3>4
  <2>4. CASE ~(m \in R <=> n \in R)
    <3>1. k \in Nat /\ perm[m] \in Int /\ perm[n] \in Int
      BY <1>1, <1>6, <2>1 DEF k
    <3> QED BY <1>6, <1>8, <2>4, <3>1
  <2> QED BY <2>2, <2>3, <2>4
<1>9. \A n \in Nodes : \E o \in Nodes : perm[o] = n
  <2>1. perm \in Injection(Nodes, Nodes)
    BY <1>7, <1>8 DEF Injection, IsInjective
  <2>2. perm \in Surjection(Nodes, Nodes)
    BY <1>3, <2>1, FS_Injection
  <2> QED BY <2>2 DEF Surjection
<1>10. IsNumbering(perm)
  BY <1>7, <1>8, <1>9 DEF IsNumbering
<1>11. ASSUME NEW n \in Nodes PROVE n \in R <=> perm[n] \in 1 .. k
  <2>1. k \in Nat /\ perm[n] \in Nat \ {0}
    BY <1>1, <1>6 DEF k, Nodes
  <2> QED BY <1>6, <2>1
<1>12. k \in Nat /\ k <= N
  BY <1>1, <1>2, <1>4 DEF k
<1> QED
  BY <1>10, <1>11, <1>12 DEF perm, k

-----------------------------------------------------------------------------
(***************************************************************************)
(* Contracting nodes that are apart from each other.                       *)
(***************************************************************************)
\* Some arc joins m and x.
Adjoins(A, m, x) == \E a \in A : (a.from = m /\ a.to = x) \/ (a.from = x /\ a.to = m)

\* No arc joins two nodes of S.
Separate(A, S) == \A m, n \in S : m # n => ~ Adjoins(A, m, n)

\* Nor do two of them share a neighbour.
Apart(A, S) ==
    /\ Separate(A, S)
    /\ \A m, n \in S : \A x \in Nodes \ S : Adjoins(A, m, x) /\ Adjoins(A, n, x) => m = n

\* No way past a node of M between nodes outside S is shorter than the potential allows.
Allows(p, A, S, M) ==
    \A m \in M : \A u, v \in Nodes \ S : \A length \in Nat :
        Through(A, m, u, v, length) => p[v] <= p[u] + length

\* A potential of the other nodes that no way past nodes of M violates can be extended to M.
LEMMA ExtendedPotential ==
    ASSUME NEW A, IsArcSet(A), NEW S, S \subseteq Nodes, NEW M, M \subseteq S,
           Separate(A, S), NEW p \in Potentials, Feasible(p, Without(A, S)), Allows(p, A, S, M)
    PROVE  \E q \in Potentials : Feasible(q, Without(A, S \ M)) /\ \A x \in Nodes \ S : q[x] = p[x]
<1> DEFINE INF == INVALID_EDGE_WEIGHT
           into(m) == {a \in A : a.to = m /\ a.from \notin S}
           ways(m) == {INF} \cup {p[a.from] + a.weight : a \in into(m)}
           q == [x \in Nodes |-> IF x \in M THEN Least(ways(x)) ELSE p[x]]
<1>1. INF \in Nat /\ \A x \in Nodes : p[x] \in Nat /\ p[x] <= INF
  BY InvalidWeight DEF Potentials
<1> HIDE DEF INF
<1>2. \A a \in A : a.from \in Nodes /\ a.to \in Nodes /\ a.weight \in Nat
  BY DEF IsArcSet
<1>3. ASSUME NEW m \in M
      PROVE  /\ q[m] \in ways(m) /\ q[m] \in 0 .. INF
             /\ \A a \in into(m) : q[m] <= p[a.from] + a.weight
  <2>1. ways(m) \subseteq Nat /\ INF \in ways(m)
    BY <1>1, <1>2
  <2>2. q[m] = Least(ways(m))
    OBVIOUS
  <2>3. \A a \in into(m) : p[a.from] + a.weight \in ways(m)
    OBVIOUS
  <2> HIDE DEF ways, q
  <2>4. Least(ways(m)) \in ways(m) /\ \A x \in ways(m) : Least(ways(m)) <= x
    BY <2>1, LeastElement
  <2>5. q[m] \in ways(m) /\ q[m] \in Nat /\ q[m] <= INF
    BY <2>1, <2>2, <2>4
  <2> QED BY <1>1, <2>2, <2>3, <2>4, <2>5
<1>4. \A x \in Nodes : x \notin M => q[x] = p[x]
  OBVIOUS
<1>5. q = [x \in Nodes |-> q[x]]
  OBVIOUS
<1> HIDE DEF q
<1>6. q \in [Nodes -> 0 .. INF]
  <2> HIDE DEF ways, into
  <2>1. ASSUME NEW x \in Nodes PROVE q[x] \in 0 .. INF
    <3>1. CASE x \in M
      BY <1>3, <3>1
    <3>2. CASE x \notin M
      BY <1>1, <1>4, <3>2
    <3> QED BY <3>1, <3>2
  <2> QED BY <1>5, <2>1
<1>7. ASSUME NEW a \in Without(A, S \ M) PROVE q[a.to] <= q[a.from] + a.weight
  <2>1. /\ a \in A /\ a.from \in Nodes /\ a.to \in Nodes /\ a.weight \in Nat
        /\ (a.from \in S => a.from \in M) /\ (a.to \in S => a.to \in M)
    BY <1>2, <1>7 DEF Without
  <2>2. q[a.to] \in Nat /\ q[a.from] \in Nat /\ q[a.to] <= INF
    BY <1>1, <1>6, <2>1
  <2>3. CASE a.from \notin S /\ a.to \notin S
    <3>1. q[a.from] = p[a.from] /\ q[a.to] = p[a.to]
      BY <1>4, <2>1, <2>3
    <3>2. a \in Without(A, S)
      BY <2>1, <2>3 DEF Without
    <3> QED BY <3>1, <3>2 DEF Feasible
  <2>4. CASE a.from \notin S /\ a.to \in S
    <3>1. q[a.from] = p[a.from] /\ a.to \in M /\ a \in into(a.to)
      BY <1>4, <2>1, <2>4
    <3> HIDE DEF into, ways
    <3> QED BY <1>3, <3>1
  <2>5. CASE a.from \in S /\ a.to \in S
    <3>1. a.from = a.to
      BY <2>1, <2>5 DEF Adjoins, Separate
    <3>2. q[a.to] <= q[a.to] + a.weight
      BY <2>1, <2>2
    <3> QED BY <3>1, <3>2
  <2>6. CASE a.from \in S /\ a.to \notin S
    <3> DEFINE m == a.from
    <3>1. m \in M /\ q[a.to] = p[a.to]
      BY <1>4, <2>1, <2>6
    <3>2. q[m] \in ways(m)
      BY <1>3, <3>1
    <3>3. CASE q[m] = INF
      BY <1>1, <2>1, <2>2, <3>3
    <3>4. CASE q[m] # INF
      <4>1. PICK b \in into(m) : q[m] = p[b.from] + b.weight
        BY <3>2, <3>4
      <4>2. b \in A /\ b.to = m /\ b.from \in Nodes \ S /\ b.weight \in Nat
        BY <1>2, <4>1
      <4>3. b.weight + a.weight \in Nat /\ Through(A, m, b.from, a.to, b.weight + a.weight)
        BY <2>1, <4>2 DEF Through
      <4>4. p[a.to] <= p[b.from] + (b.weight + a.weight) /\ p[b.from] \in Nat
        BY <1>1, <2>1, <2>6, <3>1, <4>2, <4>3 DEF Allows
      <4> QED BY <2>1, <2>2, <3>1, <4>1, <4>2, <4>4
    <3> QED BY <3>3, <3>4
  <2> QED BY <2>3, <2>4, <2>5, <2>6
<1>8. \A x \in Nodes \ S : q[x] = p[x]
  BY <1>4
<1>9. q \in Potentials /\ Feasible(q, Without(A, S \ M))
  BY <1>6, <1>7 DEF Potentials, INF, Feasible
<1> QED BY <1>8, <1>9

\* Where every way past a node of S is bypassed, it is no shorter than potentials allow.  A
\* shortest way that were shorter has no arc in P; around its node, the potentials of the
\* others, held between those of its ends, would still be feasible.
LEMMA BypassesHold ==
    ASSUME NEW A, IsArcSet(A), NEW P, IsArcSet(P), NEW S, S \subseteq Nodes, Apart(A, S),
           \A n \in S : Bypassed(A, P, n),
           NEW p \in Potentials, Feasible(p, Without(A, S)), Feasible(p, P)
    PROVE  Allows(p, A, S, S)
<1> DEFINE INF == INVALID_EDGE_WEIGHT
           Short(n, u, v, l) == Through(A, n, u, v, l) /\ ~(p[v] <= p[u] + l)
           Bad == {l \in Nat : \E n \in S : \E u, v \in Nodes \ S : Short(n, u, v, l)}
<1>1. INF \in Nat /\ \A x \in Nodes : p[x] \in Nat /\ p[x] <= INF
  BY InvalidWeight DEF Potentials
<1>2. \A a \in A : a.from \in Nodes /\ a.to \in Nodes /\ a.weight \in Nat \ {0}
  BY DEF IsArcSet
<1> SUFFICES ASSUME Bad # {} PROVE FALSE
  <2>1. Bad = {}
    OBVIOUS
  <2> HIDE DEF INF
  <2> QED BY <2>1 DEF Allows
<1> HIDE DEF INF, Short
<1>3. Bad \subseteq Nat
  OBVIOUS
<1>4. PICK L \in Bad : \A l \in Bad : L <= l
  <2> HIDE DEF Bad
  <2> QED BY <1>3, LeastNatural
<1>5. PICK n \in S, u \in Nodes \ S, v \in Nodes \ S : Short(n, u, v, L)
  BY <1>4
<1>6. L \in Nat /\ Through(A, n, u, v, L) /\ n \in Nodes /\ u # n /\ v # n
  BY <1>3, <1>4, <1>5 DEF Short
<1>7. p[u] \in Nat /\ p[v] \in Nat /\ p[v] > p[u] + L /\ u # v /\ p[v] <= INF
  <2>1. p[u] \in Nat /\ p[v] \in Nat /\ p[v] <= INF /\ ~(p[v] <= p[u] + L)
    BY <1>1, <1>5 DEF Short
  <2> QED BY <1>6, <2>1
<1>8. \A q \in Potentials : Feasible(q, Without(A, {n})) => q[v] <= q[u] + L
  <2>1. ASSUME NEW c \in P, c.from = u, c.to = v, c.weight <= L PROVE FALSE
    <3>1. p[v] <= p[u] + c.weight /\ c.weight \in Nat
      BY <2>1 DEF Feasible, IsArcSet
    <3> QED BY <1>6, <1>7, <2>1, <3>1
  <2> QED BY <1>6, <1>7, <2>1 DEF Bypassed
<1>9. Adjoins(A, n, u)
  BY <1>6 DEF Through, Adjoins
<1> DEFINE lo == p[u] + 1
           hi == p[u] + L + 1
           held(y) == IF y <= p[u] THEN lo ELSE IF y > p[u] + L THEN hi ELSE y
           r == [x \in Nodes |-> IF x = u THEN p[u] ELSE held(p[x])]
<1>10. ASSUME NEW y \in Nat, NEW z \in Nat, NEW w \in Nat, y <= z + w
       PROVE  held(y) <= held(z) + w
  BY <1>6, <1>7, <1>10
<1>11. \A y \in Nat : held(y) \in Nat /\ lo <= held(y) /\ held(y) <= hi
  BY <1>6, <1>7
<1>12. lo \in Nat /\ hi \in Nat /\ hi <= INF /\ hi = lo + L /\ lo = p[u] + 1
  BY <1>1, <1>6, <1>7
<1>13. held(p[v]) = hi
  BY <1>6, <1>7
<1> HIDE DEF lo, hi, held
<1>14. r[u] = p[u] /\ \A x \in Nodes : x # u => r[x] = held(p[x])
  OBVIOUS
<1>15. r \in Potentials
  <2>1. r = [x \in Nodes |-> r[x]]
    OBVIOUS
  <2> HIDE DEF r
  <2>2. ASSUME NEW x \in Nodes PROVE r[x] \in 0 .. INF
    <3>1. CASE x = u
      BY <1>1, <1>14, <3>1
    <3>2. CASE x # u
      <4>1. r[x] \in Nat /\ r[x] <= hi
        BY <1>1, <1>11, <1>14, <3>2
      <4> QED BY <1>1, <1>12, <4>1
    <3> QED BY <3>1, <3>2
  <2> QED BY <2>1, <2>2 DEF Potentials, INF
<1> HIDE DEF r
<1>16. Feasible(r, Without(A, S))
  <2> SUFFICES ASSUME NEW a \in Without(A, S) PROVE r[a.to] <= r[a.from] + a.weight
    BY DEF Feasible
  <2>1. a.from \in Nodes /\ a.to \in Nodes /\ a.weight \in Nat \ {0}
    BY <1>2 DEF Without
  <2>2. p[a.to] <= p[a.from] + a.weight /\ p[a.to] \in Nat /\ p[a.from] \in Nat
    BY <1>1, <2>1 DEF Feasible
  <2>3. held(p[a.to]) <= held(p[a.from]) + a.weight
    BY <1>10, <2>1, <2>2
  <2>4. CASE a.from = u /\ a.to = u
    BY <1>7, <1>14, <2>1, <2>4
  <2>5. CASE a.from = u /\ a.to # u
    <3>1. r[a.from] = p[u] /\ r[a.to] = held(p[a.to]) /\ p[a.to] <= p[u] + a.weight
      BY <1>14, <2>1, <2>2, <2>5
    <3>2. held(p[a.to]) <= p[u] + a.weight
      BY <1>6, <1>7, <2>1, <2>2, <3>1 DEF held, lo, hi
    <3> QED BY <3>1, <3>2
  <2>6. CASE a.from # u /\ a.to = u
    <3>1. r[a.to] = p[u] /\ r[a.from] = held(p[a.from])
      BY <1>14, <2>1, <2>6
    <3>2. lo <= held(p[a.from]) /\ held(p[a.from]) \in Nat
      BY <1>11, <2>2
    <3> QED BY <1>7, <1>12, <2>1, <3>1, <3>2
  <2>7. CASE a.from # u /\ a.to # u
    BY <1>14, <2>1, <2>3, <2>7
  <2> QED BY <2>4, <2>5, <2>6, <2>7
<1> DEFINE M == S \ {n}
<1>17. ASSUME NEW m \in M, NEW x \in Nodes \ S, NEW y \in Nodes \ S, NEW l \in Nat, Through(A, m, x, y, l)
       PROVE  r[y] <= r[x] + l
  <2>1. Adjoins(A, m, x) /\ Adjoins(A, m, y)
    BY <1>17 DEF Through, Adjoins
  <2>2. x # u /\ y # u
    BY <1>9, <2>1 DEF Apart
  <2>3. r[x] = held(p[x]) /\ r[y] = held(p[y]) /\ p[x] \in Nat /\ p[y] \in Nat
    BY <1>1, <1>14, <2>2
  <2>4. CASE p[y] <= p[x] + l
    BY <1>10, <2>3, <2>4
  <2>5. CASE ~(p[y] <= p[x] + l)
    <3>1. l \in Bad
      BY <1>17, <2>5 DEF Short
    <3>2. L <= l
      BY <1>4, <3>1
    <3>3. lo <= held(p[x]) /\ held(p[x]) \in Nat /\ held(p[y]) <= hi /\ held(p[y]) \in Nat
      BY <1>11, <2>3
    <3> HIDE DEF Bad
    <3> QED BY <1>6, <1>12, <2>3, <3>2, <3>3
  <2> QED BY <2>4, <2>5
<1>18. M \subseteq S /\ S \ M = {n} /\ Separate(A, S) /\ Allows(r, A, S, M)
  BY <1>17 DEF Apart, Allows
<1> HIDE DEF M
<1>19. PICK q \in Potentials : Feasible(q, Without(A, S \ M)) /\ \A x \in Nodes \ S : q[x] = r[x]
  BY <1>15, <1>16, <1>18, ExtendedPotential
<1>20. q[v] <= q[u] + L /\ q[v] = hi /\ q[u] = p[u]
  BY <1>7, <1>8, <1>13, <1>14, <1>18, <1>19
<1> QED BY <1>6, <1>7, <1>12, <1>20

\* Contracting nodes that are apart keeps all distances between the other nodes, if every way
\* past one of them is bypassed by an arc of P or by a way around that node alone: what is
\* feasible for the other arcs and P can be extended to the nodes of S.
THEOREM ContractedNodesBypassed ==
    ASSUME NEW A, IsArcSet(A), NEW P, IsArcSet(P), NEW S, S \subseteq Nodes, Apart(A, S),
           \A n \in S : Bypassed(A, P, n),
           NEW p \in Potentials, Feasible(p, Without(A, S)), Feasible(p, P)
    PROVE  \E q \in Potentials : Feasible(q, A) /\ \A x \in Nodes \ S : q[x] = p[x]
<1>1. Allows(p, A, S, S)
  BY BypassesHold
<1>2. Separate(A, S)
  BY DEF Apart
<1>3. PICK q \in Potentials : Feasible(q, Without(A, S \ S)) /\ \A x \in Nodes \ S : q[x] = p[x]
  <2> DEFINE M == S
  <2>1. /\ IsArcSet(A) /\ S \subseteq Nodes /\ M \subseteq S /\ p \in Potentials
        /\ Feasible(p, Without(A, S)) /\ Allows(p, A, S, M)
    BY <1>1
  <2> HIDE DEF M
  <2>2. \E q \in Potentials : Feasible(q, Without(A, S \ M)) /\ \A x \in Nodes \ S : q[x] = p[x]
    BY ONLY <1>2, <2>1, ExtendedPotential
  <2> QED BY <2>2 DEF M
<1>4. Without(A, S \ S) = A
  BY DEF Without
<1> QED BY <1>3, <1>4

-----------------------------------------------------------------------------
(***************************************************************************)
(* Arcs that have the distances of the input, from step to step.           *)
(***************************************************************************)
\* The values of a potential.
LEMMA PotentialValues ==
    ASSUME NEW p \in Potentials
    PROVE  \A n \in Nodes : p[n] \in Nat /\ p[n] <= INVALID_EDGE_WEIGHT
<1>1. \A n \in Nodes : p[n] \in 0 .. INVALID_EDGE_WEIGHT
  BY DEF Potentials
<1>2. INVALID_EDGE_WEIGHT \in Nat
  BY InvalidWeight
<1> QED
  BY <1>1, <1>2

\* A potential under other numbers.
LEMMA RenamedPotential ==
    ASSUME NEW names \in [Nodes -> Nodes], NEW p \in Potentials
    PROVE  /\ [n \in Nodes |-> p[names[n]]] \in Potentials
           /\ \A n \in Nodes : [m \in Nodes |-> p[names[m]]][n] = p[names[n]]
BY DEF Potentials

\* Some way past a node of the arcs is no longer than c.
Shortens(A, c) == \E n \in Nodes : \E length \in Nat : Through(A, n, c.from, c.to, length) /\ length <= c.weight

\* Shortcuts for ways that there are change no distance.
LEMMA ShortcutsRepresent ==
    ASSUME NEW A, A \subseteq Arcs, NEW P, P \subseteq Arcs, NEW Q, Q \subseteq Arcs, P \subseteq Q,
           \A c \in Q : c \in P \/ Shortens(A, c),
           NEW C, NEW names \in [Nodes -> Nodes], NEW input, Represents(A \cup P, C, names, input)
    PROVE  Represents(A \cup Q, C, names, input)
<1>1. ASSUME NEW p \in Potentials, Feasible(p, A \cup P) PROVE Feasible(p, A \cup Q)
  <2> SUFFICES ASSUME NEW c \in Q, Shortens(A, c) PROVE p[c.to] <= p[c.from] + c.weight
    BY <1>1 DEF Feasible
  <2>1. PICK n \in Nodes, length \in Nat : Through(A, n, c.from, c.to, length) /\ length <= c.weight
    BY DEF Shortens
  <2>2. PICK a \in A, b \in A :
          a.from = c.from /\ a.to = n /\ b.from = n /\ b.to = c.to /\ length = a.weight + b.weight
    BY <2>1 DEF Through
  <2>3. p[n] <= p[c.from] + a.weight /\ p[c.to] <= p[n] + b.weight
    BY <1>1, <2>2 DEF Feasible
  <2>4. /\ a.weight \in Nat /\ b.weight \in Nat /\ c.weight \in Nat /\ c.from \in Nodes /\ c.to \in Nodes
    BY DEF Arcs
  <2>5. p[n] \in Nat /\ p[c.from] \in Nat /\ p[c.to] \in Nat
    BY <2>4, PotentialValues
  <2> QED BY <2>1, <2>2, <2>3, <2>4, <2>5
<1>2. ASSUME NEW p \in Potentials, Feasible(p, A \cup Q) PROVE Feasible(p, A \cup P)
  BY <1>2 DEF Feasible
<1>3. \A p \in Potentials : Feasible(p, input) => Feasible([n \in Nodes |-> p[names[n]]], A \cup P)
  BY DEF Represents
<1>4. \A p \in Potentials : Feasible(p, A \cup P) =>
         \E q \in Potentials : Feasible(q, input) /\ \A n \in C : q[names[n]] = p[n]
  BY DEF Represents
<1>5. ASSUME NEW p \in Potentials, Feasible(p, input)
      PROVE  Feasible([n \in Nodes |-> p[names[n]]], A \cup Q)
  <2> DEFINE r == [n \in Nodes |-> p[names[n]]]
  <2>1. r \in Potentials
    BY RenamedPotential
  <2>2. Feasible(r, A \cup P)
    BY <1>3, <1>5
  <2> HIDE DEF r
  <2>3. Feasible(r, A \cup Q)
    BY <1>1, <2>1, <2>2
  <2> QED BY <2>3 DEF r
<1> QED
  BY <1>2, <1>4, <1>5 DEF Represents

\* A shortcut for a node still stands for the ways past it when there are more shortcuts.
LEMMA BypassedMore ==
    ASSUME NEW A, NEW P, NEW Q, P \subseteq Q, NEW n, Bypassed(A, P, n)
    PROVE  Bypassed(A, Q, n)
BY DEF Bypassed

\* Nodes that lie apart and have shortcuts for all ways past them can go.
LEMMA BatchContracted ==
    ASSUME NEW A, A \subseteq Arcs, NEW P, P \subseteq Arcs, NEW S, S \subseteq Nodes, Apart(A, S),
           \A n \in S : Bypassed(A, P, n), \A c \in P : c.from \notin S /\ c.to \notin S,
           NEW C, C \subseteq Nodes, NEW names \in [Nodes -> Nodes], NEW input,
           Represents(A \cup P, C, names, input)
    PROVE  Represents(Without(A, S) \cup P, C \ S, names, input)
<1>1. IsArcSet(A) /\ IsArcSet(P)
  BY DEF IsArcSet, Arcs
<1>2. ASSUME NEW p \in Potentials, Feasible(p, input)
      PROVE  Feasible([n \in Nodes |-> p[names[n]]], Without(A, S) \cup P)
  <2> DEFINE r == [n \in Nodes |-> p[names[n]]]
  <2>1. Feasible(r, A \cup P)
    BY <1>2 DEF Represents
  <2> HIDE DEF r
  <2>2. Feasible(r, Without(A, S) \cup P)
    BY <2>1 DEF Feasible, Without
  <2> QED BY <2>2 DEF r
<1>3. ASSUME NEW p \in Potentials, Feasible(p, Without(A, S) \cup P)
      PROVE  \E q \in Potentials : Feasible(q, input) /\ \A n \in C \ S : q[names[n]] = p[n]
  <2>1. Feasible(p, Without(A, S)) /\ Feasible(p, P)
    BY <1>3 DEF Feasible
  <2>2. PICK r \in Potentials : Feasible(r, A) /\ \A x \in Nodes \ S : r[x] = p[x]
    BY <1>1, <2>1, ContractedNodesBypassed
  <2>3. Feasible(r, P)
    <3>1. \A c \in P : c.from \in Nodes \ S /\ c.to \in Nodes \ S
      BY DEF Arcs
    <3> QED BY <2>1, <2>2, <3>1 DEF Feasible
  <2>4. Feasible(r, A \cup P)
    BY <2>2, <2>3 DEF Feasible
  <2>5. PICK q \in Potentials : Feasible(q, input) /\ \A n \in C : q[names[n]] = r[n]
    BY <2>4 DEF Represents
  <2> QED BY <2>2, <2>5
<1> QED
  BY <1>2, <1>3 DEF Represents

\* The arcs of B are those of A under new numbers.
Relabelled(A, B, perm) ==
    \A u, v \in Nodes : \A w \in Nat \ {0} :
        [from |-> perm[u], to |-> perm[v], weight |-> w] \in B <=> [from |-> u, to |-> v, weight |-> w] \in A

\* Numbers do not matter.
LEMMA RelabelledRepresent ==
    ASSUME NEW perm, IsNumbering(perm), NEW A, A \subseteq Arcs, NEW B, B \subseteq Arcs, Relabelled(A, B, perm),
           NEW C, C \subseteq Nodes, NEW D, D \subseteq Nodes, \A n \in Nodes : perm[n] \in D => n \in C,
           NEW names \in [Nodes -> Nodes], NEW others \in [Nodes -> Nodes],
           \A n \in Nodes : others[perm[n]] = names[n],
           NEW input, Represents(A, C, names, input)
    PROVE  Represents(B, D, others, input)
<1>1. perm \in [Nodes -> Nodes] /\ \A n \in Nodes : \E o \in Nodes : perm[o] = n
  BY DEF IsNumbering
<1>2. ASSUME NEW b \in B
      PROVE  \E u, v \in Nodes : /\ b.from = perm[u] /\ b.to = perm[v] /\ b.weight \in Nat
                                 /\ [from |-> u, to |-> v, weight |-> b.weight] \in A
  <2>1. /\ b.from \in Nodes /\ b.to \in Nodes /\ b.weight \in Nat \ {0}
        /\ b = [from |-> b.from, to |-> b.to, weight |-> b.weight]
    BY DEF Arcs
  <2>2. PICK u \in Nodes, v \in Nodes : b.from = perm[u] /\ b.to = perm[v]
    BY <1>1, <2>1
  <2>3. [from |-> perm[u], to |-> perm[v], weight |-> b.weight] \in B
    BY <2>1, <2>2
  <2>4. [from |-> u, to |-> v, weight |-> b.weight] \in A
    BY <2>1, <2>3 DEF Relabelled
  <2> QED BY <2>1, <2>2, <2>4
<1>3. ASSUME NEW a \in A
      PROVE  /\ a.from \in Nodes /\ a.to \in Nodes /\ a.weight \in Nat
             /\ [from |-> perm[a.from], to |-> perm[a.to], weight |-> a.weight] \in B
  <2>1. /\ a.from \in Nodes /\ a.to \in Nodes /\ a.weight \in Nat \ {0}
        /\ a = [from |-> a.from, to |-> a.to, weight |-> a.weight]
    BY DEF Arcs
  <2> QED BY <2>1 DEF Relabelled
<1>4. ASSUME NEW p \in Potentials, Feasible(p, input)
      PROVE  Feasible([n \in Nodes |-> p[others[n]]], B)
  <2> DEFINE r == [n \in Nodes |-> p[names[n]]]
             s == [n \in Nodes |-> p[others[n]]]
  <2>1. Feasible(r, A)
    BY <1>4 DEF Represents
  <2>2. \A n \in Nodes : s[perm[n]] = r[n]
    BY <1>1
  <2> HIDE DEF r, s
  <2> SUFFICES ASSUME NEW b \in B PROVE s[b.to] <= s[b.from] + b.weight
    BY DEF Feasible, s
  <2>3. PICK u \in Nodes, v \in Nodes : /\ b.from = perm[u] /\ b.to = perm[v]
                                        /\ [from |-> u, to |-> v, weight |-> b.weight] \in A
    BY <1>2
  <2> DEFINE a == [from |-> u, to |-> v, weight |-> b.weight]
  <2>4. a \in A /\ a.from = u /\ a.to = v /\ a.weight = b.weight
    BY <2>3
  <2> HIDE DEF a
  <2>5. r[v] <= r[u] + b.weight
    BY <2>1, <2>4 DEF Feasible
  <2> QED BY <2>2, <2>3, <2>5
<1>5. ASSUME NEW p \in Potentials, Feasible(p, B)
      PROVE  \E q \in Potentials : Feasible(q, input) /\ \A n \in D : q[others[n]] = p[n]
  <2> DEFINE s == [n \in Nodes |-> p[perm[n]]]
  <2>1. s \in Potentials /\ \A n \in Nodes : s[n] = p[perm[n]]
    BY <1>1, RenamedPotential
  <2> HIDE DEF s
  <2>2. Feasible(s, A)
    <3> SUFFICES ASSUME NEW a \in A PROVE s[a.to] <= s[a.from] + a.weight
      BY DEF Feasible
    <3> DEFINE b == [from |-> perm[a.from], to |-> perm[a.to], weight |-> a.weight]
    <3>1. b \in B /\ b.from = perm[a.from] /\ b.to = perm[a.to] /\ b.weight = a.weight
      BY <1>3
    <3> HIDE DEF b
    <3>2. p[perm[a.to]] <= p[perm[a.from]] + a.weight
      BY <1>5, <3>1 DEF Feasible
    <3> QED BY <1>3, <2>1, <3>2
  <2>3. PICK q \in Potentials : Feasible(q, input) /\ \A n \in C : q[names[n]] = s[n]
    BY <2>1, <2>2 DEF Represents
  <2>4. ASSUME NEW m \in D PROVE q[others[m]] = p[m]
    <3>1. PICK n \in Nodes : perm[n] = m
      BY <1>1
    <3>2. n \in C /\ others[m] = names[n]
      BY <3>1
    <3> QED BY <2>1, <2>3, <3>1, <3>2
  <2> QED BY <2>3, <2>4
<1> QED
  BY <1>4, <1>5 DEF Represents

-----------------------------------------------------------------------------
(***************************************************************************)
(* The arcs of what is left, from step to step.                            *)
(***************************************************************************)
\* Edges of the contractor, node by node.
LEMMA EdgeTypes ==
    ASSUME NEW g, Consistent(g, ContractorEdges), NEW n \in Nodes, NEW e \in EdgeSet(g, n)
    PROVE  e \in ContractorEdges /\ e.weight \in Nat \ {0} /\ e.to \in Nodes /\ e.to \in GetTargets(g, n)
<1>1. e \in ContractorEdges
  <2> DEFINE E == ContractorEdges
  <2>1. LeadToNodes(E)
    BY EdgesLead
  <2>2. Consistent(g, E)
    OBVIOUS
  <2> HIDE DEF E
  <2>3. EdgeSet(g, n) \subseteq E
    BY <2>1, <2>2, EdgeSlots
  <2> QED BY <2>3 DEF E
<1>2. e.to \in GetTargets(g, n)
  BY DEF GetTargets, EdgeSet
<1> QED
  BY <1>1, <1>2 DEF ContractorEdges

\* An arc as a record.
ArcOf(u, v, w) == [from |-> u, to |-> v, weight |-> w]

\* Its fields.
LEMMA ArcFields ==
    ASSUME NEW u \in Nodes, NEW v \in Nodes, NEW w \in Nat \ {0}
    PROVE  ArcOf(u, v, w) \in Arcs /\ ArcOf(u, v, w).from = u /\ ArcOf(u, v, w).to = v /\ ArcOf(u, v, w).weight = w
BY DEF Arcs, ArcOf

\* The arcs between nodes of C, as ways of the graph.
LEMMA ArcIsWay ==
    ASSUME NEW g, NEW C, C \subseteq Nodes
    PROVE  /\ ArcsBetween(g, C) \subseteq Arcs
           /\ \A u, v \in C : \A w \in Nat \ {0} : ArcOf(u, v, w) \in ArcsBetween(g, C) <=> Leads(g, "forward", u, v, w)
           /\ \A a \in ArcsBetween(g, C) : /\ a.from \in C /\ a.to \in C /\ a.weight \in Nat \ {0}
                                           /\ Leads(g, "forward", a.from, a.to, a.weight)
<1>1. ASSUME NEW u \in C, NEW v \in C, NEW w \in Nat \ {0}
      PROVE  ArcOf(u, v, w) \in ArcsBetween(g, C) <=> Leads(g, "forward", u, v, w)
  <2>1. /\ ArcOf(u, v, w) \in Arcs /\ ArcOf(u, v, w).from = u /\ ArcOf(u, v, w).to = v /\ ArcOf(u, v, w).weight = w
    BY ArcFields
  <2> QED BY <2>1 DEF ArcsBetween
<1>2. \A a \in ArcsBetween(g, C) : /\ a.from \in C /\ a.to \in C /\ a.weight \in Nat \ {0}
                                   /\ Leads(g, "forward", a.from, a.to, a.weight)
  BY DEF ArcsBetween, Arcs
<1>3. ArcsBetween(g, C) \subseteq Arcs
  BY DEF ArcsBetween
<1> QED
  BY <1>1, <1>2, <1>3

\* With fewer nodes, the arcs that touch none of the others are left.
LEMMA ArcsOfFewer ==
    ASSUME NEW g, NEW C, NEW S
    PROVE  ArcsBetween(g, C \ S) = Without(ArcsBetween(g, C), S)
BY DEF ArcsBetween, Without

\* The ways between nodes of C are the same.
SameWays(g, h, C) ==
    \A d \in Directions : \A u, v \in C : \A w \in Nat : Leads(h, d, u, v, w) <=> Leads(g, d, u, v, w)

\* Graphs with the same ways between nodes of C have the same arcs there.
LEMMA SameArcs ==
    ASSUME NEW g, NEW h, NEW C, SameWays(g, h, C)
    PROVE  ArcsBetween(h, C) = ArcsBetween(g, C) /\ (HasMirrors(g, C) => HasMirrors(h, C))
<1>1. "forward" \in Directions /\ "backward" \in Directions
  BY DEF Directions
<1>2. HasMirrors(g, C) => HasMirrors(h, C)
  BY <1>1 DEF SameWays, HasMirrors
<1>3. ASSUME NEW a \in Arcs PROVE a \in ArcsBetween(h, C) <=> a \in ArcsBetween(g, C)
  <2>1. a.weight \in Nat
    BY DEF Arcs
  <2> QED BY <1>1, <2>1 DEF SameWays, ArcsBetween
<1>4. \A a : a \in ArcsBetween(h, C) <=> a \in ArcsBetween(g, C)
  BY <1>3 DEF ArcsBetween
<1> QED
  BY <1>2, <1>4

\* No arcs wait where no shortcuts do.
LEMMA NoneKept ==
    ASSUME NEW lists, \A t \in Threads : lists[t] = <<>>
    PROVE  ArcsKept(lists) = {} /\ \A t \in Threads : IsMirrored(lists[t])
<1>1. \A d, u, v, w : ~ Offers(<<>>, d, u, v, w)
  BY DEF Offers, ToSet
<1> QED
  BY <1>1 DEF ArcsKept, IsMirrored

\* The weights of the arcs the contraction starts with.
Charged(input) == {[a EXCEPT !.weight = InputWeight(a)] : a \in {b \in input : b.from # b.to}}

\* The graph made from the input has the distances of the input: of parallel arcs the
\* cheapest is enough, and what costs INVALID_EDGE_WEIGHT leads nowhere.
LEMMA InputRepresented ==
    ASSUME NEW input, input \subseteq [from : Nodes, to : Nodes, weight : Nat]
    PROVE  /\ Represents(ArcsBetween(toContractorGraph(input), Nodes), Nodes, [n \in Nodes |-> n], Charged(input))
           /\ HasMirrors(toContractorGraph(input), Nodes)
<1> DEFINE g == toContractorGraph(input)
           id == [n \in Nodes |-> n]
           A == ArcsBetween(g, Nodes)
<1>1. \A a \in input : a.from \in Nodes /\ a.to \in Nodes /\ a.weight \in Nat
  OBVIOUS
<1>2. InputWays(g, input) /\ \A u, v \in Nodes : Cheapest(input, u, v) \in Nat \ {0}
  BY <1>1, InputGraph
<1> HIDE DEF g
<1>3. HasMirrors(g, Nodes)
  BY <1>2 DEF HasMirrors, InputWays
<1>4. \A a \in input : InputWeight(a) \in Nat \ {0}
  BY <1>1 DEF InputWeight
<1>5. \A c \in Charged(input) : \E a \in input :
         a.from # a.to /\ c.from = a.from /\ c.to = a.to /\ c.weight = InputWeight(a)
  BY DEF Charged
<1>6. ASSUME NEW a \in input, a.from # a.to
      PROVE  \E c \in Charged(input) : c.from = a.from /\ c.to = a.to /\ c.weight = InputWeight(a)
  <2> DEFINE c == [a EXCEPT !.weight = InputWeight(a)]
  <2>1. c \in Charged(input)
    BY <1>6 DEF Charged
  <2>2. c.from = a.from /\ c.to = a.to /\ c.weight = InputWeight(a)
    OBVIOUS
  <2> QED BY <2>1, <2>2
<1>7. ASSUME NEW u \in Nodes, NEW v \in Nodes
      PROVE  /\ Cheapest(input, u, v) # INVALID_EDGE_WEIGHT =>
                  \E a \in input : a.from = u /\ a.to = v /\ InputWeight(a) = Cheapest(input, u, v)
             /\ \A a \in input : a.from = u /\ a.to = v => Cheapest(input, u, v) <= InputWeight(a)
  <2> DEFINE S == {InputWeight(a) : a \in {b \in input : b.from = u /\ b.to = v}}
  <2>1. S \subseteq Nat /\ Cheapest(input, u, v) = Least(S)
    BY <1>4 DEF Cheapest
  <2>2. \A a \in input : a.from = u /\ a.to = v => InputWeight(a) \in S
    OBVIOUS
  <2>3. \A w \in S : \E a \in input : a.from = u /\ a.to = v /\ InputWeight(a) = w
    OBVIOUS
  <2> HIDE DEF S
  <2>4. CASE S = {}
    BY <2>1, <2>2, <2>4 DEF Least
  <2>5. CASE S # {}
    <3>1. Least(S) \in S /\ \A x \in S : Least(S) <= x
      BY <2>1, <2>5, LeastElement
    <3> QED BY <2>1, <2>2, <2>3, <3>1
  <2> QED BY <2>4, <2>5
<1>8. ASSUME NEW p \in Potentials, Feasible(p, Charged(input)) PROVE Feasible(p, A)
  <2> SUFFICES ASSUME NEW a \in A PROVE p[a.to] <= p[a.from] + a.weight
    BY DEF Feasible
  <2>1. /\ a.from \in Nodes /\ a.to \in Nodes /\ a.weight \in Nat
        /\ Leads(g, "forward", a.from, a.to, a.weight)
    BY ArcIsWay
  <2>2. /\ a.from # a.to /\ Cheapest(input, a.from, a.to) # INVALID_EDGE_WEIGHT
        /\ Cheapest(input, a.from, a.to) <= a.weight
    BY <1>2, <2>1 DEF InputWays
  <2>3. PICK b \in input : b.from = a.from /\ b.to = a.to /\ InputWeight(b) = Cheapest(input, a.from, a.to)
    BY <1>7, <2>1, <2>2
  <2>4. PICK c \in Charged(input) : c.from = a.from /\ c.to = a.to /\ c.weight = InputWeight(b)
    BY <1>6, <2>2, <2>3
  <2>5. p[a.to] <= p[a.from] + InputWeight(b)
    BY <1>8, <2>4 DEF Feasible
  <2>6. p[a.from] \in Nat /\ p[a.to] \in Nat
    BY <2>1, PotentialValues
  <2>7. InputWeight(b) \in Nat /\ InputWeight(b) <= a.weight
    BY <1>4, <2>2, <2>3
  <2> QED BY <2>1, <2>5, <2>6, <2>7
<1>9. ASSUME NEW p \in Potentials, Feasible(p, A) PROVE Feasible(p, Charged(input))
  <2> SUFFICES ASSUME NEW c \in Charged(input) PROVE p[c.to] <= p[c.from] + c.weight
    BY DEF Feasible
  <2>1. PICK a \in input : a.from # a.to /\ c.from = a.from /\ c.to = a.to /\ c.weight = InputWeight(a)
    BY <1>5
  <2>2. c.from \in Nodes /\ c.to \in Nodes /\ c.weight \in Nat \ {0}
    BY <1>1, <1>4, <2>1
  <2>3. p[c.from] \in Nat /\ p[c.to] \in Nat /\ p[c.to] <= INVALID_EDGE_WEIGHT
    BY <2>2, PotentialValues
  <2>4. Cheapest(input, c.from, c.to) <= c.weight
    BY <1>7, <2>1, <2>2
  <2>5. CASE Cheapest(input, c.from, c.to) = INVALID_EDGE_WEIGHT
    <3>1. INVALID_EDGE_WEIGHT \in Nat
      BY InvalidWeight
    <3> QED BY <2>2, <2>3, <2>4, <2>5, <3>1
  <2>6. CASE Cheapest(input, c.from, c.to) # INVALID_EDGE_WEIGHT
    <3>1. Leads(g, "forward", c.from, c.to, c.weight)
      BY <1>2, <2>1, <2>2, <2>4, <2>6 DEF InputWays
    <3> DEFINE a2 == ArcOf(c.from, c.to, c.weight)
    <3>2. a2 \in A /\ a2.from = c.from /\ a2.to = c.to /\ a2.weight = c.weight
      BY <2>2, <3>1, ArcIsWay, ArcFields
    <3> HIDE DEF a2, A
    <3> QED BY <1>9, <3>2 DEF Feasible
  <2> QED BY <2>5, <2>6
<1>10. id \in [Nodes -> Nodes] /\ \A n \in Nodes : id[n] = n
  OBVIOUS
<1>11. ASSUME NEW p \in Potentials PROVE [n \in Nodes |-> p[id[n]]] = p
  <2>1. [n \in Nodes |-> p[id[n]]] = [n \in Nodes |-> p[n]]
    BY <1>10
  <2> QED BY <2>1 DEF Potentials
<1> HIDE DEF id, A
<1>12. Represents(A, Nodes, id, Charged(input))
  BY <1>8, <1>9, <1>10, <1>11 DEF Represents
<1> QED
  BY <1>3, <1>12 DEF id, A, g

\* A potential feasible for the arcs that do not touch n is feasible around n.
LEMMA FeasibleWithout ==
    ASSUME NEW g, Consistent(g, ContractorEdges), NEW C, C \subseteq Nodes, StaysIn(g, C), NEW n \in C,
           NEW p \in Potentials, Feasible(p, Without(ArcsBetween(g, C), {n}))
    PROVE  FeasibleAround(p, g, C, n)
<1> SUFFICES ASSUME NEW u \in C \ {n}, NEW e \in EdgeSet(g, u), e.forward, e.to # n
             PROVE  p[e.to] <= p[u] + e.weight
  BY DEF FeasibleAround
<1>1. e.weight \in Nat \ {0} /\ e.to \in GetTargets(g, u)
  BY EdgeTypes
<1>2. e.to \in C
  BY <1>1 DEF StaysIn
<1>3. Leads(g, "forward", u, e.to, e.weight)
  BY <1>1 DEF Leads, Open
<1> DEFINE a == ArcOf(u, e.to, e.weight)
<1>4. a \in ArcsBetween(g, C) /\ a.from = u /\ a.to = e.to /\ a.weight = e.weight
  BY <1>1, <1>2, <1>3, ArcIsWay, ArcFields
<1> HIDE DEF a
<1>5. a \in Without(ArcsBetween(g, C), {n})
  BY <1>4 DEF Without
<1> QED
  BY <1>4, <1>5 DEF Feasible

\* Contracting a node bypasses it: the search looked for ways around it among the nodes
\* that are left only.
LEMMA NodeBypassed ==
    ASSUME NEW g, Consistent(g, ContractorEdges), NEW C, C \subseteq Nodes, StaysIn(g, C), HasMirrors(g, C),
           NEW n \in C, NEW edges, NEW P,
           \A in \in EdgeSet(g, n) : in.backward /\ in.to # n => Covers(edges, g, n, in),
           \A c \in Arcs : Offers(edges, "forward", c.from, c.to, c.weight) => c \in P
    PROVE  Bypassed(ArcsBetween(g, C), P, n)
<1> DEFINE A == ArcsBetween(g, C)
<1> SUFFICES ASSUME NEW u \in Nodes \ {n}, NEW v \in Nodes \ {n}, NEW length \in Nat, u # v, Through(A, n, u, v, length)
             PROVE  \/ \E c \in P : c.from = u /\ c.to = v /\ c.weight <= length
                    \/ \A p \in Potentials : Feasible(p, Without(A, {n})) => p[v] <= p[u] + length
  BY DEF Bypassed
<1>1. PICK a \in A, b \in A : a.from = u /\ a.to = n /\ b.from = n /\ b.to = v /\ length = a.weight + b.weight
  BY DEF Through
<1>2. /\ u \in C /\ v \in C /\ a.weight \in Nat /\ b.weight \in Nat
      /\ Leads(g, "forward", u, n, a.weight) /\ Leads(g, "forward", n, v, b.weight)
  BY <1>1, ArcIsWay
<1>3. Leads(g, "backward", n, u, a.weight)
  BY <1>2 DEF HasMirrors
<1>4. PICK in \in EdgeSet(g, n) : in.backward /\ in.to = u /\ in.weight <= a.weight
  BY <1>3 DEF Leads, Open
<1>5. PICK out \in EdgeSet(g, n) : out.forward /\ out.to = v /\ out.weight <= b.weight
  BY <1>2 DEF Leads, Open
<1>6. in.weight \in Nat \ {0} /\ out.weight \in Nat \ {0}
  BY EdgeTypes
<1> DEFINE w == in.weight + out.weight
<1>7. w \in Nat \ {0} /\ w <= length
  BY <1>1, <1>2, <1>4, <1>5, <1>6
<1>8. Covers(edges, g, n, in)
  BY <1>4
<1>9. C \in SUBSET Nodes /\ out.to # n /\ out.to # in.to
  BY <1>4, <1>5
<1>10. Offers(edges, "forward", in.to, out.to, w) \/ Witnessed(g, C, n, in.to, out.to, w)
  BY <1>5, <1>8, <1>9 DEF Covers
<1> HIDE DEF w
<1>11. Offers(edges, "forward", u, v, w) \/ Witnessed(g, C, n, u, v, w)
  BY <1>4, <1>5, <1>10
<1>12. CASE Offers(edges, "forward", u, v, w)
  <2> DEFINE c == ArcOf(u, v, w)
  <2>1. c \in Arcs /\ c.from = u /\ c.to = v /\ c.weight = w
    BY <1>7, ArcFields
  <2> HIDE DEF c
  <2>2. c \in P
    BY <1>12, <2>1
  <2> QED BY <1>7, <2>1, <2>2
<1>13. CASE Witnessed(g, C, n, u, v, w)
  <2> SUFFICES ASSUME NEW p \in Potentials, Feasible(p, Without(A, {n})) PROVE p[v] <= p[u] + length
    OBVIOUS
  <2>1. FeasibleAround(p, g, C, n)
    BY FeasibleWithout
  <2>2. p[v] <= p[u] + w
    BY <1>13, <2>1 DEF Witnessed
  <2>3. p[u] \in Nat /\ p[v] \in Nat
    BY PotentialValues
  <2> QED BY <1>7, <2>2, <2>3
<1> QED
  BY <1>11, <1>12, <1>13

\* A shortcut stands for a way past the node.
LEMMA ShortcutsShorten ==
    ASSUME NEW g, Consistent(g, ContractorEdges), NEW C, C \subseteq Nodes, StaysIn(g, C), HasMirrors(g, C),
           NEW n \in C, NEW edges, Sound(edges, g, n),
           NEW c \in Arcs, Offers(edges, "forward", c.from, c.to, c.weight)
    PROVE  Shortens(ArcsBetween(g, C), c)
<1>1. c.weight \in Nat
  BY DEF Arcs
<1>2. Passes(g, n, c.from, c.to, c.weight)
  BY <1>1 DEF Sound
<1>3. PICK in \in EdgeSet(g, n), out \in EdgeSet(g, n) :
        /\ in.backward /\ in.to = c.from
        /\ out.forward /\ out.to = c.to
        /\ in.weight + out.weight <= c.weight
  BY <1>2 DEF Passes
<1>4. /\ in.weight \in Nat \ {0} /\ out.weight \in Nat \ {0}
      /\ in.to \in GetTargets(g, n) /\ out.to \in GetTargets(g, n)
  BY EdgeTypes
<1>5. c.from \in C /\ c.to \in C
  BY <1>3, <1>4 DEF StaysIn
<1>6. Leads(g, "backward", n, c.from, in.weight) /\ Leads(g, "forward", n, c.to, out.weight)
  BY <1>3, <1>4 DEF Leads, Open
<1>7. Leads(g, "forward", c.from, n, in.weight)
  BY <1>4, <1>5, <1>6 DEF HasMirrors
<1> DEFINE a == ArcOf(c.from, n, in.weight)
           b == ArcOf(n, c.to, out.weight)
<1>8. /\ a \in ArcsBetween(g, C) /\ a.from = c.from /\ a.to = n /\ a.weight = in.weight
      /\ b \in ArcsBetween(g, C) /\ b.from = n /\ b.to = c.to /\ b.weight = out.weight
  BY <1>4, <1>5, <1>6, <1>7, ArcIsWay, ArcFields
<1> HIDE DEF a, b
<1>9. Through(ArcsBetween(g, C), n, c.from, c.to, in.weight + out.weight)
  BY <1>8 DEF Through
<1>10. in.weight + out.weight \in Nat
  BY <1>4
<1> QED
  BY <1>3, <1>9, <1>10 DEF Shortens

\* A thread that keeps more shortcuts keeps the arcs they stand for.
LEMMA MoreKept ==
    ASSUME NEW lists \in [Threads -> Seq(Shortcuts)], NEW t \in Threads, NEW s \in Seq(Shortcuts), IsMirrored(s),
           \A k \in Threads : IsMirrored(lists[k])
    PROVE  /\ \A c \in Arcs : c \in ArcsKept([lists EXCEPT ![t] = @ \o s])
                                <=> c \in ArcsKept(lists) \/ Offers(s, "forward", c.from, c.to, c.weight)
           /\ \A k \in Threads : IsMirrored([lists EXCEPT ![t] = @ \o s][k])
<1> DEFINE more == [lists EXCEPT ![t] = @ \o s]
<1>1. /\ more[t] = lists[t] \o s /\ \A k \in Threads : k # t => more[k] = lists[k]
  OBVIOUS
<1>2. \A d, u, v, w : Offers(more[t], d, u, v, w) <=> Offers(lists[t], d, u, v, w) \/ Offers(s, d, u, v, w)
  BY <1>1, OffersConcat
<1> HIDE DEF more
<1>3. \A c \in Arcs : c \in ArcsKept(more) <=> c \in ArcsKept(lists) \/ Offers(s, "forward", c.from, c.to, c.weight)
  BY <1>1, <1>2 DEF ArcsKept
<1>4. \A k \in Threads : IsMirrored(more[k])
  BY <1>1, <1>2 DEF IsMirrored
<1> QED
  BY <1>3, <1>4 DEF more

\* Nodes that share no edge and no neighbour in the graph lie apart.
LEMMA BatchApart ==
    ASSUME NEW g, NEW C, C \subseteq Nodes, HasMirrors(g, C), NEW S, S \subseteq C,
           \A m, n \in S : m # n => m \notin Neighbours(g, n) /\ Neighbours(g, m) \cap Neighbours(g, n) = {}
    PROVE  Apart(ArcsBetween(g, C), S)
<1> DEFINE A == ArcsBetween(g, C)
<1>1. ASSUME NEW m \in S, NEW x \in Nodes, Adjoins(A, m, x) PROVE x \in GetTargets(g, m)
  <2>1. PICK a \in A : (a.from = m /\ a.to = x) \/ (a.from = x /\ a.to = m)
    BY <1>1 DEF Adjoins
  <2>2. a.from \in C /\ a.to \in C /\ a.weight \in Nat /\ Leads(g, "forward", a.from, a.to, a.weight)
    BY ArcIsWay
  <2>3. Leads(g, "backward", a.to, a.from, a.weight)
    BY <2>2 DEF HasMirrors
  <2> QED BY <2>1, <2>2, <2>3 DEF Leads, GetTargets, EdgeSet
<1>2. Separate(A, S)
  BY <1>1 DEF Separate, Neighbours
<1>3. ASSUME NEW m \in S, NEW n \in S, NEW x \in Nodes \ S, Adjoins(A, m, x), Adjoins(A, n, x) PROVE m = n
  <2>1. x \in Neighbours(g, m) /\ x \in Neighbours(g, n)
    BY <1>1, <1>3 DEF Neighbours
  <2> QED BY <2>1
<1> QED
  BY <1>2, <1>3 DEF Apart

\* Cutting off a node leaves the ways between the others.
LEMMA CutOffWays ==
    ASSUME NEW g, Consistent(g, ContractorEdges), NEW node \in Nodes, NEW C, C \subseteq Nodes, node \notin C
    PROVE  SameWays(g, CutOff(g, node), C)
<1>1. SameEdgesElsewhere(g, CutOff(g, node), node)
  BY CutOffTargets
<1> QED
  BY <1>1 DEF SameEdgesElsewhere, SameWays, Leads

\* Shortcuts lie between nodes of C; those of every thread lead there and back; a thread has
\* none any more.
LieIn(edges, C) == \A e \in ToSet(edges) : e.source \in C /\ e.to \in C
AllMirrored(lists) == \A t \in Threads : IsMirrored(lists[t])
Emptied(lists, t) == [lists EXCEPT ![t] = <<>>]

\* Shortcuts between nodes of C that go into the graph change places only.
LEMMA InsertedWays ==
    ASSUME NEW g, Consistent(g, ContractorEdges), NEW C, C \subseteq Nodes, HasMirrors(g, C),
           NEW lists \in [Threads -> Seq(Shortcuts)], AllMirrored(lists), NEW t \in Threads,
           LieIn(lists[t], C), NEW edges \in Sorted(lists[t])
    PROVE  /\ HasMirrors(InsertShortcuts(g, edges), C)
           /\ AllMirrored(Emptied(lists, t))
           /\ ArcsBetween(InsertShortcuts(g, edges), C) \cup ArcsKept(Emptied(lists, t))
                = ArcsBetween(g, C) \cup ArcsKept(lists)
<1> DEFINE h == InsertShortcuts(g, edges)
           rest == Emptied(lists, t)
<1>1. edges \in Seq(Shortcuts) /\ \A e : e \in ToSet(edges) <=> e \in ToSet(lists[t])
  <2> DEFINE T == Shortcuts
  <2>1. lists[t] \in Seq(T)
    OBVIOUS
  <2> HIDE DEF T
  <2>2. edges \in Seq(T) /\ \A e : e \in ToSet(edges) <=> e \in ToSet(lists[t])
    BY <2>1, SortedJoins
  <2> QED BY <2>2 DEF T
<1>2. \A d, u, v, w : Offers(edges, d, u, v, w) <=> Offers(lists[t], d, u, v, w)
  BY <1>1 DEF Offers
<1>3. MoreWays(g, h, edges)
  BY <1>1, InsertShortcutsTargets
<1>4. \A d \in Directions : \A u \in Nodes : \A v : \A w \in Nat :
         Leads(h, d, u, v, w) <=> Leads(g, d, u, v, w) \/ Offers(lists[t], d, u, v, w)
  BY <1>2, <1>3 DEF MoreWays
<1>5. rest[t] = <<>> /\ \A k \in Threads : k # t => rest[k] = lists[k]
  BY DEF Emptied
<1>6. \A d, u, v, w : ~ Offers(<<>>, d, u, v, w)
  BY DEF Offers, ToSet
<1>7. "forward" \in Directions /\ "backward" \in Directions
  BY DEF Directions
<1> HIDE DEF h, rest
<1>8. HasMirrors(h, C)
  <2> SUFFICES ASSUME NEW u \in C, NEW v \in C, NEW w \in Nat
               PROVE  Leads(h, "forward", u, v, w) <=> Leads(h, "backward", v, u, w)
    BY DEF HasMirrors
  <2>1. Leads(h, "forward", u, v, w) <=> Leads(g, "forward", u, v, w) \/ Offers(lists[t], "forward", u, v, w)
    BY <1>4, <1>7
  <2>2. Leads(h, "backward", v, u, w) <=> Leads(g, "backward", v, u, w) \/ Offers(lists[t], "backward", v, u, w)
    BY <1>4, <1>7
  <2>3. Leads(g, "forward", u, v, w) <=> Leads(g, "backward", v, u, w)
    BY DEF HasMirrors
  <2>4. Offers(lists[t], "forward", u, v, w) <=> Offers(lists[t], "backward", v, u, w)
    BY DEF AllMirrored, IsMirrored
  <2> QED BY <2>1, <2>2, <2>3, <2>4
<1>9. AllMirrored(rest)
  BY <1>5, <1>6 DEF AllMirrored, IsMirrored
<1>10. ASSUME NEW a \in Arcs
       PROVE  a \in ArcsBetween(h, C) \/ a \in ArcsKept(rest) <=> a \in ArcsBetween(g, C) \/ a \in ArcsKept(lists)
  <2>1. a.weight \in Nat /\ a.from \in Nodes
    BY DEF Arcs
  <2>2. Leads(h, "forward", a.from, a.to, a.weight)
          <=> Leads(g, "forward", a.from, a.to, a.weight) \/ Offers(lists[t], "forward", a.from, a.to, a.weight)
    BY <1>4, <1>7, <2>1
  <2>3. Offers(lists[t], "forward", a.from, a.to, a.weight) => a.from \in C /\ a.to \in C
    BY DEF Offers, LieIn
  <2>4. a \in ArcsKept(lists) <=> a \in ArcsKept(rest) \/ Offers(lists[t], "forward", a.from, a.to, a.weight)
    BY <1>5, <1>6 DEF ArcsKept
  <2> QED BY <2>2, <2>3, <2>4 DEF ArcsBetween
<1>11. \A a : a \in ArcsBetween(h, C) \cup ArcsKept(rest) <=> a \in ArcsBetween(g, C) \cup ArcsKept(lists)
  BY <1>10 DEF ArcsBetween, ArcsKept
<1>12. ArcsBetween(h, C) \cup ArcsKept(rest) = ArcsBetween(g, C) \cup ArcsKept(lists)
  BY <1>11
<1> QED
  BY <1>8, <1>9, <1>12 DEF h, rest

\* Renumbering renames the arcs.
LEMMA RenamedArcs ==
    ASSUME NEW g, NEW h, NEW perm, IsNumbering(perm), RenamedWays(g, h, perm), NEW C, C \subseteq Nodes,
           NEW D, D \subseteq Nodes, \A n \in Nodes : perm[n] \in D <=> n \in C
    PROVE  /\ Relabelled(ArcsBetween(g, C), ArcsBetween(h, D), perm)
           /\ HasMirrors(g, C) => HasMirrors(h, D)
<1>1. perm \in [Nodes -> Nodes] /\ \A n \in Nodes : \E o \in Nodes : perm[o] = n
  BY DEF IsNumbering
<1>2. "forward" \in Directions /\ "backward" \in Directions
  BY DEF Directions
<1>3. ASSUME NEW u \in Nodes, NEW v \in Nodes, NEW w \in Nat \ {0}
      PROVE  ArcOf(perm[u], perm[v], w) \in ArcsBetween(h, D) <=> ArcOf(u, v, w) \in ArcsBetween(g, C)
  <2>1. perm[u] \in Nodes /\ perm[v] \in Nodes
    BY <1>1
  <2>2. /\ ArcOf(u, v, w) \in Arcs /\ ArcOf(u, v, w).from = u /\ ArcOf(u, v, w).to = v /\ ArcOf(u, v, w).weight = w
    BY ArcFields
  <2>3. /\ ArcOf(perm[u], perm[v], w) \in Arcs /\ ArcOf(perm[u], perm[v], w).from = perm[u]
        /\ ArcOf(perm[u], perm[v], w).to = perm[v] /\ ArcOf(perm[u], perm[v], w).weight = w
    BY <2>1, ArcFields
  <2>4. Leads(h, "forward", perm[u], perm[v], w) <=> Leads(g, "forward", u, v, w)
    BY <1>2 DEF RenamedWays
  <2> QED BY <2>2, <2>3, <2>4 DEF ArcsBetween
<1>4. Relabelled(ArcsBetween(g, C), ArcsBetween(h, D), perm)
  BY <1>3 DEF Relabelled, ArcOf
<1>5. ASSUME HasMirrors(g, C), NEW x \in D, NEW y \in D, NEW w \in Nat
      PROVE  Leads(h, "forward", x, y, w) <=> Leads(h, "backward", y, x, w)
  <2>1. PICK u \in Nodes, v \in Nodes : perm[u] = x /\ perm[v] = y
    BY <1>1
  <2>2. u \in C /\ v \in C
    BY <2>1
  <2>3. Leads(h, "forward", perm[u], perm[v], w) <=> Leads(g, "forward", u, v, w)
    BY <1>2 DEF RenamedWays
  <2>4. Leads(h, "backward", perm[v], perm[u], w) <=> Leads(g, "backward", v, u, w)
    BY <1>2 DEF RenamedWays
  <2>5. Leads(g, "forward", u, v, w) <=> Leads(g, "backward", v, u, w)
    BY <1>5, <2>2 DEF HasMirrors
  <2> QED BY <2>1, <2>3, <2>4, <2>5
<1> QED
  BY <1>4, <1>5 DEF HasMirrors

\* The forward edges of the nodes of C, under their original numbers.
Live(g, C, names) ==
    UNION {{[from |-> names[n], to |-> names[e.to], weight |-> e.weight] :
              e \in {f \in EdgeSet(g, n) : f.forward}} : n \in C}

\* Arcs that represent the input have its distances.
LEMMA RepresentedDistances ==
    ASSUME NEW g, Consistent(g, ContractorEdges), NEW C, C \subseteq Nodes, StaysIn(g, C),
           NEW names \in [Nodes -> Nodes], NEW input, IsArcSet(input),
           Represents(ArcsBetween(g, C), C, names, input), NEW m \in C, NEW n \in C
    PROVE  DistancesFrom(Live(g, C, names), names[m])[names[n]] = DistancesFrom(input, names[m])[names[n]]
<1> DEFINE A == ArcsBetween(g, C)
           B == Live(g, C, names)
           K == {names[x] : x \in C}
<1>1. ASSUME NEW b \in B
      PROVE  \E u \in C : \E e \in EdgeSet(g, u) :
                e.forward /\ b.from = names[u] /\ b.to = names[e.to] /\ b.weight = e.weight
  BY DEF Live
<1>2. ASSUME NEW u \in C, NEW e \in EdgeSet(g, u), e.forward
      PROVE  \E b \in B : b.from = names[u] /\ b.to = names[e.to] /\ b.weight = e.weight
  <2> DEFINE b == [from |-> names[u], to |-> names[e.to], weight |-> e.weight]
  <2>1. b \in B
    <3> DEFINE T(x) == {[from |-> names[x], to |-> names[f.to], weight |-> f.weight] : f \in {y \in EdgeSet(g, x) : y.forward}}
    <3>1. b \in T(u)
      BY <1>2
    <3>2. B = UNION {T(x) : x \in C}
      BY DEF Live
    <3>3. T(u) \in {T(x) : x \in C}
      OBVIOUS
    <3> HIDE DEF T, B, b
    <3> QED BY <3>1, <3>2, <3>3
  <2>2. b.from = names[u] /\ b.to = names[e.to] /\ b.weight = e.weight
    OBVIOUS
  <2> QED BY <2>1, <2>2
<1>3. ASSUME NEW u \in C, NEW e \in EdgeSet(g, u)
      PROVE  e.to \in C /\ e.to \in Nodes /\ e.weight \in Nat \ {0}
  <2>1. u \in Nodes
    OBVIOUS
  <2>2. e.to \in Nodes /\ e.weight \in Nat \ {0} /\ e.to \in GetTargets(g, u)
    BY <2>1, EdgeTypes
  <2> QED BY <2>2 DEF StaysIn
<1> HIDE DEF B
<1>4. IsArcSet(B)
  <2> SUFFICES ASSUME NEW b \in B PROVE b.from \in Nodes /\ b.to \in Nodes /\ b.weight \in Nat \ {0}
    BY DEF IsArcSet
  <2>1. PICK u \in C : \E e \in EdgeSet(g, u) : b.from = names[u] /\ b.to = names[e.to] /\ b.weight = e.weight
    BY <1>1
  <2>2. PICK e \in EdgeSet(g, u) : b.from = names[u] /\ b.to = names[e.to] /\ b.weight = e.weight
    BY <2>1
  <2> QED BY <1>3, <2>2
<1>5. ASSUME NEW p \in Potentials, Feasible(p, input) PROVE Feasible(p, B)
  <2> DEFINE r == [x \in Nodes |-> p[names[x]]]
  <2>1. Feasible(r, A)
    BY <1>5 DEF Represents
  <2>2. \A x \in Nodes : r[x] = p[names[x]]
    OBVIOUS
  <2> HIDE DEF r
  <2> SUFFICES ASSUME NEW b \in B PROVE p[b.to] <= p[b.from] + b.weight
    BY DEF Feasible
  <2>8. PICK u \in C : \E e \in EdgeSet(g, u) :
          e.forward /\ b.from = names[u] /\ b.to = names[e.to] /\ b.weight = e.weight
    BY <1>1
  <2>3. PICK e \in EdgeSet(g, u) : e.forward /\ b.from = names[u] /\ b.to = names[e.to] /\ b.weight = e.weight
    BY <2>8
  <2>4. e.to \in C /\ e.weight \in Nat \ {0}
    BY <1>3
  <2>5. Leads(g, "forward", u, e.to, e.weight)
    BY <2>3, <2>4 DEF Leads, Open
  <2> DEFINE a == ArcOf(u, e.to, e.weight)
  <2>6. a \in A /\ a.from = u /\ a.to = e.to /\ a.weight = e.weight
    BY <2>4, <2>5, ArcIsWay, ArcFields
  <2> HIDE DEF a, A
  <2>7. r[e.to] <= r[u] + e.weight
    BY <2>1, <2>6 DEF Feasible
  <2> QED BY <2>2, <2>3, <2>4, <2>7
<1>6. ASSUME NEW p \in Potentials, Feasible(p, B)
      PROVE  \E q \in Potentials : Feasible(q, input) /\ \A x \in K : q[x] = p[x]
  <2> DEFINE r == [x \in Nodes |-> p[names[x]]]
  <2>1. r \in Potentials /\ \A x \in Nodes : r[x] = p[names[x]]
    BY RenamedPotential
  <2> HIDE DEF r
  <2>2. Feasible(r, A)
    <3> SUFFICES ASSUME NEW a \in A PROVE r[a.to] <= r[a.from] + a.weight
      BY DEF Feasible
    <3>1. a.from \in C /\ a.to \in C /\ a.weight \in Nat /\ Leads(g, "forward", a.from, a.to, a.weight)
      BY ArcIsWay
    <3>2. PICK e \in EdgeSet(g, a.from) : e.forward /\ e.to = a.to /\ e.weight <= a.weight
      BY <3>1 DEF Leads, Open
    <3>3. PICK b \in B : b.from = names[a.from] /\ b.to = names[a.to] /\ b.weight = e.weight
      BY <1>2, <3>1, <3>2
    <3>4. p[names[a.to]] <= p[names[a.from]] + e.weight
      BY <1>6, <3>3 DEF Feasible
    <3>5. p[names[a.to]] \in Nat /\ p[names[a.from]] \in Nat /\ e.weight \in Nat
      BY <1>3, <3>1, PotentialValues
    <3> QED BY <2>1, <3>1, <3>2, <3>4, <3>5
  <2>3. PICK q \in Potentials : Feasible(q, input) /\ \A x \in C : q[names[x]] = r[x]
    BY <2>1, <2>2 DEF Represents
  <2> QED BY <2>1, <2>3
<1>7. K \subseteq Nodes /\ names[m] \in K /\ names[n] \in K
  OBVIOUS
<1> DEFINE s == names[m]
           t == names[n]
<1>8. /\ IsArcSet(input) /\ IsArcSet(B) /\ K \subseteq Nodes /\ s \in K /\ t \in K
      /\ \A p \in Potentials : Feasible(p, input) => Feasible(p, B)
      /\ \A p \in Potentials : Feasible(p, B) => \E q \in Potentials : Feasible(q, input) /\ \A x \in K : q[x] = p[x]
  BY <1>4, <1>5, <1>6, <1>7
<1> HIDE DEF K, s, t
<1>9. DistancesFrom(B, s)[t] = DistancesFrom(input, s)[t]
  BY ONLY <1>8, SameDistances
<1> QED
  BY <1>9 DEF B, s, t
=============================================================================

----------------------- MODULE CellCustomizer_proofs -----------------------
(***************************************************************************)
(* Proofs about CellCustomizer: the metric it computes is exact.           *)
(***************************************************************************)
EXTENDS CellCustomizer, DynamicGraph_proofs

-----------------------------------------------------------------------------
(***************************************************************************)
(* Distances.                                                              *)
(***************************************************************************)
\* What distances are, without potentials: they begin at 0 and rise along no arc by more
\* than its weight.
LEMMA DistanceTypes ==
    ASSUME NEW A, IsArcSet(A), NEW u \in Nodes
    PROVE  /\ DistancesFrom(A, u) \in Potentials
           /\ DistancesFrom(A, u)[u] = 0
           /\ \A v \in Nodes : DistancesFrom(A, u)[v] \in Nat /\ DistancesFrom(A, u)[v] <= INVALID_EDGE_WEIGHT
           /\ \A a \in A : DistancesFrom(A, u)[a.to] <= DistancesFrom(A, u)[a.from] + a.weight
<1> DEFINE d == DistancesFrom(A, u)
<1>1. IsGreatest(d, A, u)
  BY DistancesAreGreatest
<1> HIDE DEF d
<1>2. d \in Potentials /\ d[u] = 0 /\ \A a \in A : d[a.to] <= d[a.from] + a.weight
  BY <1>1 DEF IsGreatest, Reaching, Feasible
<1>3. \A v \in Nodes : d[v] \in Nat /\ d[v] <= INVALID_EDGE_WEIGHT
  BY <1>2, InvalidWeight DEF Potentials
<1> QED BY <1>2, <1>3 DEF d

\* No feasible potential that is 0 at the source exceeds them.
LEMMA DistanceBounds ==
    ASSUME NEW A, IsArcSet(A), NEW u \in Nodes, NEW p \in Potentials, Feasible(p, A), p[u] = 0, NEW v \in Nodes
    PROVE  p[v] <= DistancesFrom(A, u)[v]
<1>1. IsGreatest(DistancesFrom(A, u), A, u)
  BY DistancesAreGreatest
<1>2. p \in Reaching(A, u)
  BY DEF Reaching
<1> HIDE DEF DistancesFrom
<1> QED BY <1>1, <1>2 DEF IsGreatest

\* A node is reached by an arc that leads to it.
LEMMA ReachedByArc ==
    ASSUME NEW A, IsArcSet(A), NEW u \in Nodes, NEW v \in Nodes, u # v,
           DistancesFrom(A, u)[v] # INVALID_EDGE_WEIGHT
    PROVE  \E a \in A : a.to = v
<1>1. IsGreatest(DistancesFrom(A, u), A, u)
  BY DistancesAreGreatest
<1> QED BY <1>1, TightArc

\* A way begins with an arc.
LEMMA LeavesByArc ==
    ASSUME NEW A, IsArcSet(A), NEW u \in Nodes, NEW v \in Nodes, u # v,
           DistancesFrom(A, u)[v] # INVALID_EDGE_WEIGHT
    PROVE  \E a \in A : a.from = u
<1> DEFINE INF == INVALID_EDGE_WEIGHT
           p == [n \in Nodes |-> IF n = u THEN 0 ELSE INF]
<1> SUFFICES ASSUME \A a \in A : a.from # u PROVE FALSE
  OBVIOUS
<1>1. INF \in Nat /\ DistancesFrom(A, u)[v] \in Nat /\ DistancesFrom(A, u)[v] <= INF
  BY InvalidWeight, DistanceTypes
<1> HIDE DEF INF
<1>2. p \in Potentials /\ p[u] = 0 /\ p[v] = INF
  BY <1>1 DEF Potentials, INF
<1>3. Feasible(p, A)
  <2> SUFFICES ASSUME NEW a \in A PROVE p[a.to] <= p[a.from] + a.weight
    BY DEF Feasible
  <2>1. a.from \in Nodes /\ a.to \in Nodes /\ a.weight \in Nat /\ a.from # u
    BY DEF IsArcSet
  <2> QED BY <1>1, <2>1
<1> HIDE DEF p
<1>4. p[v] <= DistancesFrom(A, u)[v]
  BY <1>2, <1>3, DistanceBounds
<1>5. DistancesFrom(A, u)[v] = INF
  BY <1>1, <1>2, <1>4
<1> QED BY <1>5 DEF INF

\* The triangle inequality, saturated at INVALID_EDGE_WEIGHT.
LEMMA DistanceTriangle ==
    ASSUME NEW A, IsArcSet(A), NEW u \in Nodes, NEW v \in Nodes, NEW w \in Nodes
    PROVE  DistancesFrom(A, u)[w] <= DistancesFrom(A, u)[v] + DistancesFrom(A, v)[w]
<1> DEFINE d == DistancesFrom(A, u)
           p == [n \in Nodes |-> IF d[n] <= d[v] THEN 0 ELSE d[n] - d[v]]
           INF == INVALID_EDGE_WEIGHT
<1>1. /\ INF \in Nat /\ \A n \in Nodes : d[n] \in Nat /\ d[n] <= INF
      /\ \A a \in A : d[a.to] <= d[a.from] + a.weight
      /\ DistancesFrom(A, v)[w] \in Nat
  BY InvalidWeight, DistanceTypes
<1> HIDE DEF d, INF
<1>2. p \in [Nodes -> 0 .. INF] /\ p[v] = 0
  BY <1>1
<1>3. Feasible(p, A)
  <2> SUFFICES ASSUME NEW a \in A PROVE p[a.to] <= p[a.from] + a.weight
    BY DEF Feasible
  <2>1. a.from \in Nodes /\ a.to \in Nodes /\ a.weight \in Nat /\ d[a.to] <= d[a.from] + a.weight
    BY <1>1 DEF IsArcSet
  <2> QED BY <1>1, <2>1
<1>4. d[w] <= d[v] + p[w] /\ p[w] \in Nat
  BY <1>1
<1> HIDE DEF p
<1>5. p[w] <= DistancesFrom(A, v)[w]
  BY <1>2, <1>3, DistanceBounds DEF Potentials, INF
<1>6. d[w] <= d[v] + DistancesFrom(A, v)[w]
  BY <1>1, <1>4, <1>5
<1> QED BY <1>6 DEF d

\* More arcs, shorter ways.
LEMMA MoreArcsShorter ==
    ASSUME NEW A, IsArcSet(A), NEW B, B \subseteq A, NEW u \in Nodes, NEW v \in Nodes
    PROVE  DistancesFrom(A, u)[v] <= DistancesFrom(B, u)[v]
<1> DEFINE p == DistancesFrom(A, u)
<1>1. p \in Potentials /\ p[u] = 0 /\ \A a \in A : p[a.to] <= p[a.from] + a.weight
  BY DistanceTypes
<1> HIDE DEF p
<1>2. IsArcSet(B) /\ Feasible(p, B)
  BY <1>1 DEF IsArcSet, Feasible
<1> QED BY <1>1, <1>2, DistanceBounds DEF p

\* After i rounds a node is out of reach or at most i arcs away.
LEMMA DistanceLimit ==
    ASSUME NEW A, IsArcSet(A), NEW W \in Nat, \A a \in A : a.weight <= W, NEW s \in Nodes, NEW t \in Nodes
    PROVE  DistancesFrom(A, s)[t] = INVALID_EDGE_WEIGHT \/ DistancesFrom(A, s)[t] <= N * W
<1> DEFINE INF == INVALID_EDGE_WEIGHT
           K == N - 1
<1>1. PICK d : AreRounds(d, A, s) /\ DistancesFrom(A, s) = d[K]
  BY Rounds
<1> DEFINE S == {i \in 0 .. K : \A v \in Nodes : d[i][v] = INF \/ d[i][v] <= i * W}
<1>2. K \in Nat /\ N \in Nat /\ INF \in Nat
  BY NAssumption, InvalidWeight
<1> HIDE DEF INF
<1>3. 0 \in S
  BY <1>1, <1>2 DEF AreRounds, Start, INF
<1>4. ASSUME NEW i \in 0 .. K, i < K, i \in S
      PROVE  i + 1 \in S
  <2> DEFINE e == d[i]
             r == d[i + 1]
  <2>1. i + 1 \in 1 .. K /\ i + 1 \in 0 .. K /\ (i + 1) - 1 = i /\ i \in Nat
    BY <1>2, <1>4
  <2>2. e \in Potentials /\ r = RelaxAll(A, e)
    BY <1>1, <2>1 DEF AreRounds, K
  <2>3. r \in Potentials /\ Relaxed(A, e, r)
    BY <2>2, RelaxRound
  <2>4. \A v \in Nodes : e[v] \in Nat /\ e[v] <= INF /\ (e[v] = INF \/ e[v] <= i * W)
    BY <1>2, <1>4, <2>2 DEF Potentials, INF
  <2> HIDE DEF e, r
  <2>5. ASSUME NEW v \in Nodes PROVE r[v] = INF \/ r[v] <= (i + 1) * W
    <3>1. r[v] \in Nat /\ r[v] <= INF
      BY <1>2, <2>3 DEF Potentials, INF
    <3>2. i * W \in Nat /\ (i + 1) * W = i * W + W
      BY <2>1
    <3>3. CASE r[v] = e[v]
      BY <2>4, <3>1, <3>2, <3>3
    <3>4. CASE r[v] # e[v]
      <4>1. PICK a \in A : a.to = v /\ r[v] = e[a.from] + a.weight
        BY <2>3, <3>4 DEF Relaxed
      <4>2. a.from \in Nodes /\ a.weight \in Nat \ {0} /\ a.weight <= W
        BY DEF IsArcSet
      <4>3. e[a.from] \in Nat /\ (e[a.from] = INF \/ e[a.from] <= i * W)
        BY <2>4, <4>2
      <4> QED BY <1>2, <3>1, <3>2, <4>1, <4>2, <4>3
    <3> QED BY <3>3, <3>4
  <2> QED BY <2>1, <2>5 DEF r
<1>5. 0 .. K \subseteq S
  <2> HIDE DEF S, K
  <2> QED BY <1>2, <1>3, <1>4, LoopInduction
<1>6. K \in S
  BY <1>2, <1>5
<1>7. d[K][t] = INF \/ d[K][t] <= K * W
  BY <1>6
<1>8. K * W \in Nat /\ N * W = K * W + W
  BY <1>2
<1>9. d[K][t] \in Nat
  BY <1>1, <1>2 DEF AreRounds, Potentials, INF
<1> HIDE DEF K
<1> QED BY <1>1, <1>7, <1>8, <1>9 DEF INF

\* The arcs are light: two ways without a circle, one after the other, do not overflow.
Light(A) ==
    \E M \in Nat : /\ 2 * M < INVALID_EDGE_WEIGHT
                   /\ \A B \in SUBSET A : \A u, v \in Nodes :
                        DistancesFrom(B, u)[v] = INVALID_EDGE_WEIGHT \/ DistancesFrom(B, u)[v] <= M
                   /\ \A a \in A : a.weight <= M

\* Arcs that weigh little are.
LEMMA LightArcs ==
    ASSUME NEW A, IsArcSet(A), \A a \in A : 2 * N * a.weight < INVALID_EDGE_WEIGHT
    PROVE  Light(A)
<1> DEFINE INF == INVALID_EDGE_WEIGHT
           T == {w \in Nat : w <= INF /\ 2 * N * w < INF}
           T2 == {INF - w : w \in T}
<1>1. INF \in Nat \ {0} /\ N \in Nat \ {0}
  BY NAssumption, InvalidWeight
<1> HIDE DEF INF
<1>2. 0 \in T
  BY <1>1
<1>3. T2 \subseteq Nat /\ T2 # {}
  BY <1>1, <1>2
<1>4. PICK x \in T2 : \A y \in T2 : x <= y
  <2> HIDE DEF T2
  <2> QED BY <1>3, LeastNatural
<1>5. PICK W \in T : x = INF - W
  BY <1>4
<1>6. ASSUME NEW w \in T PROVE w <= W
  <2>1. w \in Nat /\ W \in Nat /\ INF - w \in T2
    OBVIOUS
  <2>2. INF - W <= INF - w
    BY <1>4, <1>5, <2>1
  <2> QED BY <1>1, <2>1, <2>2
<1>7. ASSUME NEW a \in A PROVE a.weight <= W
  <2>1. a.weight \in Nat /\ 2 * N * a.weight < INF
    BY DEF IsArcSet, INF
  <2>2. a.weight <= 2 * N * a.weight
    <3> DEFINE w == a.weight
               k == 2 * N - 1
    <3>1. w \in Nat /\ k \in Nat /\ 2 * N = k + 1
      BY <1>1, <2>1
    <3> HIDE DEF w, k
    <3>2. (k + 1) * w = k * w + w /\ k * w \in Nat
      BY <3>1
    <3>3. w <= (k + 1) * w
      BY <3>1, <3>2
    <3> QED BY <3>1, <3>3 DEF w
  <2>3. 2 * N * a.weight \in Nat
    BY <1>1, <2>1
  <2>4. a.weight \in T
    BY <1>1, <2>1, <2>2, <2>3
  <2> QED BY <1>6, <2>4
<1> DEFINE M == N * W
<1>8. M \in Nat /\ 2 * M < INF /\ W <= M
  <2>1. W \in Nat /\ 2 * N * W < INF
    BY <1>5
  <2>2. 2 * N * W = 2 * (N * W) /\ N * W \in Nat
    BY <1>1, <2>1
  <2>3. PICK k \in Nat : N = k + 1
    BY <1>1
  <2>4. (k + 1) * W = k * W + W /\ k * W \in Nat
    BY <2>1, <2>3
  <2> QED BY <1>1, <2>1, <2>2, <2>3, <2>4
<1>9. ASSUME NEW B \in SUBSET A, NEW u \in Nodes, NEW v \in Nodes
      PROVE  DistancesFrom(B, u)[v] = INVALID_EDGE_WEIGHT \/ DistancesFrom(B, u)[v] <= M
  <2>1. W \in Nat /\ IsArcSet(B) /\ \A a \in B : a.weight <= W
    BY <1>5, <1>7 DEF IsArcSet
  <2> QED BY <2>1, DistanceLimit
<1>10. \A a \in A : a.weight <= M
  BY <1>5, <1>7, <1>8 DEF IsArcSet
<1> HIDE DEF M, T
<1> QED BY <1>8, <1>9, <1>10 DEF Light, INF

-----------------------------------------------------------------------------
(***************************************************************************)
(* The search from s in a cell with arcs A, whose sub-cells are given by   *)
(* `sub`.  `border` are the nodes at the borders of sub-cells; inside a    *)
(* sub-cell the search follows shortcuts to them only.                     *)
(***************************************************************************)
InSub(A, sub, x) == {a \in A : sub[a.from] = x /\ sub[a.to] = x}

SubDistance(A, sub, u, v) == DistancesFrom(InSub(A, sub, sub[u]), u)[v]

Crosses(sub, a) == sub[a.from] # sub[a.to]

\* There is a shortcut from u to v.
Joined(A, sub, border, u, v) ==
    v \in border /\ sub[u] = sub[v] /\ SubDistance(A, sub, u, v) # INVALID_EDGE_WEIGHT

IsProblem(A, sub, border, s) ==
    /\ IsArcSet(A) /\ Light(A)
    /\ border \subseteq Nodes /\ s \in border
    /\ \A a \in A : Crosses(sub, a) => a.from \in border /\ a.to \in border

\* The ways on from u: the arcs that cross, and the shortcuts, which a node that was
\* itself reached by a shortcut need not take.
Ways == [to : Nodes, weight : Nat, clique : BOOLEAN]

AreWays(ways, A, sub, border, u, clique) ==
    /\ ways \subseteq Ways
    /\ \A w \in ways :
         \/ ~w.clique /\ \E a \in A : a.from = u /\ a.to = w.to /\ a.weight = w.weight /\ Crosses(sub, a)
         \/ w.clique /\ Joined(A, sub, border, u, w.to) /\ w.weight = SubDistance(A, sub, u, w.to)
    /\ \A a \in A : a.from = u /\ Crosses(sub, a) => \E w \in ways : w.to = a.to /\ w.weight <= a.weight
    /\ ~clique => \A v \in Nodes : v # u /\ Joined(A, sub, border, u, v) =>
                    \E w \in ways : w.to = v /\ w.weight <= SubDistance(A, sub, u, v)

\* The heap.
Known(h) == DOMAIN h.key
Done(h) == Known(h) \ h.open

HeapTypes(h) ==
    /\ h = [key |-> h.key, parent |-> h.parent, clique |-> h.clique, open |-> h.open]
    /\ Known(h) \subseteq Nodes /\ h.open \subseteq Known(h)
    /\ h.key \in [Known(h) -> Nat] /\ h.clique \in [Known(h) -> BOOLEAN]

\* Keys are never below distances, and what is known can be reached.
NeverShorter(h, A, s) ==
    \A v \in Known(h) : DistancesFrom(A, s)[v] <= h.key[v] /\ DistancesFrom(A, s)[v] # INVALID_EDGE_WEIGHT

\* Nodes are settled in the order of their keys.
InOrder(h) == \A z \in Done(h), o \in h.open : h.key[z] <= h.key[o]

\* The arcs that cross have been followed from every settled node, and so have the shortcuts,
\* from the node or from the one whose shortcut led to it.
ArcsFollowed(h, A, sub) ==
    \A z \in Done(h) : \A a \in A : a.from = z /\ Crosses(sub, a) =>
        a.to \in Known(h) /\ h.key[a.to] <= h.key[z] + a.weight

ShortcutsFollowed(h, A, sub, border) ==
    \A z \in Done(h) : \A v \in Nodes : v # z /\ Joined(A, sub, border, z, v) =>
        v \in Known(h) /\ h.key[v] <= h.key[z] + SubDistance(A, sub, z, v)

ReachedByShortcut(h, A, sub) ==
    \A v \in Known(h) : h.clique[v] =>
        \E p \in Done(h) : /\ sub[p] = sub[v] /\ SubDistance(A, sub, p, v) # INVALID_EDGE_WEIGHT
                           /\ h.key[v] = h.key[p] + SubDistance(A, sub, p, v)

SearchInv(h, A, sub, border, s) ==
    /\ HeapTypes(h) /\ Known(h) \subseteq border
    /\ s \in Known(h) /\ h.key[s] = 0
    /\ NeverShorter(h, A, s) /\ InOrder(h)
    /\ ArcsFollowed(h, A, sub) /\ ShortcutsFollowed(h, A, sub, border) /\ ReachedByShortcut(h, A, sub)

\* What a heap r has that took ways from n: cheaper keys, each with a reason.
Improved(r, h, n, ways) ==
    /\ Known(r) = Known(h) \cup {w.to : w \in ways}
    /\ HeapTypes(r)
    /\ r.open = h.open \cup ({w.to : w \in ways} \ Known(h))
    /\ \A v \in Known(h) : r.key[v] <= h.key[v]
    /\ \A w \in ways : r.key[w.to] <= h.key[n] + w.weight
    /\ \A v \in Known(r) :
         \/ v \in Known(h) /\ r.key[v] = h.key[v] /\ r.clique[v] = h.clique[v]
         \/ \E w \in ways : /\ w.to = v /\ r.key[v] = h.key[n] + w.weight /\ (r.clique[v] => w.clique)
                            /\ v \in Known(h) => r.key[v] < h.key[v]

\* insertOrUpdate improves keys.
LEMMA InsertImproves ==
    ASSUME NEW h, HeapTypes(h), NEW n \in Known(h), NEW ways, ways \subseteq Ways
    PROVE  Improved(insertOrUpdate(h, n, ways), h, n, ways)
<1> DEFINE r == insertOrUpdate(h, n, ways)
           reached == {w.to : w \in ways}
           to(v) == {x \in ways : x.to = v}
           cost(v) == Cheapest(ways, v)
           via(v) == h.key[n] + cost(v)
           better(v) == v \in reached /\ (v \in Known(h) => via(v) < h.key[v])
           clique(v) == \E w \in ways : w.to = v /\ w.weight = cost(v) /\ w.clique
<1>1. /\ Known(r) = Known(h) \cup reached
      /\ r.open = h.open \cup (reached \ Known(h))
      /\ \A v \in Known(r) : r.key[v] = IF better(v) THEN via(v) ELSE h.key[v]
      /\ \A v \in Known(r) : r.clique[v] = IF better(v) THEN clique(v) ELSE h.clique[v]
      /\ DOMAIN r.clique = Known(r) /\ r.key = [v \in Known(r) |-> r.key[v]]
      /\ r.clique = [v \in Known(r) |-> r.clique[v]]
      /\ r = [key |-> r.key, parent |-> r.parent, clique |-> r.clique, open |-> r.open]
  BY DEF insertOrUpdate, Known
<1>2. /\ h.key[n] \in Nat /\ \A v \in Known(h) : h.key[v] \in Nat /\ h.clique[v] \in BOOLEAN
      /\ \A w \in ways : w.to \in Nodes /\ w.weight \in Nat /\ w.clique \in BOOLEAN
      /\ Known(h) \subseteq Nodes /\ h.open \subseteq Known(h)
  BY DEF HeapTypes, Ways
<1>3. ASSUME NEW v \in reached
      PROVE  /\ cost(v) \in Nat /\ via(v) \in Nat /\ \E w \in ways : w.to = v /\ w.weight = cost(v)
             /\ \A w \in ways : w.to = v => cost(v) <= w.weight
  <2> DEFINE S == {w.weight : w \in to(v)}
  <2>1. S \subseteq Nat /\ S # {}
    BY <1>2
  <2>2. Least(S) \in S /\ \A x \in S : Least(S) <= x
    <3> HIDE DEF S
    <3> QED BY <2>1, LeastElement
  <2>3. cost(v) = Least(S)
    BY DEF Cheapest
  <2> HIDE DEF cost
  <2>4. cost(v) \in S /\ cost(v) \in Nat /\ \A x \in S : cost(v) <= x
    BY <2>1, <2>2, <2>3
  <2> QED BY <1>2, <2>4
<1> HIDE DEF r, cost
<1>4. ASSUME NEW v \in Known(r) PROVE r.key[v] \in Nat /\ r.clique[v] \in BOOLEAN
  <2>1. CASE better(v)
    <3>1. v \in reached /\ r.key[v] = via(v) /\ r.clique[v] = clique(v)
      BY <1>1, <2>1
    <3>2. via(v) \in Nat /\ clique(v) \in BOOLEAN
      BY <1>3, <3>1
    <3> QED BY <3>1, <3>2
  <2>2. CASE ~better(v)
    <3>1. r.key[v] = h.key[v] /\ r.clique[v] = h.clique[v] /\ v \in Known(h)
      BY <1>1, <2>2
    <3> QED BY <1>2, <3>1
  <2> QED BY <2>1, <2>2
<1>5. HeapTypes(r)
  <2>1. Known(r) \subseteq Nodes /\ r.open \subseteq Known(r)
    BY <1>1, <1>2
  <2>2. r.key \in [Known(r) -> Nat]
    BY <1>1, <1>4
  <2>3. r.clique \in [Known(r) -> BOOLEAN]
    BY <1>1, <1>4
  <2> QED BY <1>1, <2>1, <2>2, <2>3 DEF HeapTypes
<1>6. ASSUME NEW v \in Known(h) PROVE r.key[v] <= h.key[v]
  <2>1. v \in Known(r) /\ r.key[v] \in Nat /\ h.key[v] \in Nat
    BY <1>1, <1>2, <1>4
  <2>2. r.key[v] = h.key[v] \/ r.key[v] < h.key[v]
    BY <1>1, <2>1
  <2> QED BY ONLY <2>1, <2>2
<1>7. ASSUME NEW w \in ways PROVE r.key[w.to] <= h.key[n] + w.weight
  <2>1. w.to \in reached /\ w.to \in Known(r) /\ cost(w.to) <= w.weight
    BY <1>1, <1>3
  <2>2. h.key[n] \in Nat /\ w.weight \in Nat /\ cost(w.to) \in Nat /\ r.key[w.to] \in Nat
    BY <1>2, <1>3, <1>4, <2>1
  <2>3. r.key[w.to] = h.key[n] + cost(w.to) \/ ~(h.key[n] + cost(w.to) < r.key[w.to])
    BY <1>1, <2>1
  <2> QED BY ONLY <2>1, <2>2, <2>3
<1>8. ASSUME NEW v \in Known(r)
      PROVE  \/ v \in Known(h) /\ r.key[v] = h.key[v] /\ r.clique[v] = h.clique[v]
             \/ \E w \in ways : /\ w.to = v /\ r.key[v] = h.key[n] + w.weight /\ (r.clique[v] => w.clique)
                                /\ v \in Known(h) => r.key[v] < h.key[v]
  <2>1. CASE ~better(v)
    BY <1>1, <2>1
  <2>2. CASE better(v)
    <3>1. /\ r.key[v] = h.key[n] + cost(v) /\ r.clique[v] = clique(v) /\ v \in reached
          /\ v \in Known(h) => r.key[v] < h.key[v]
      BY <1>1, <2>2
    <3>2. PICK w \in ways : w.to = v /\ w.weight = cost(v) /\ (clique(v) => w.clique)
      BY <1>3, <3>1
    <3> QED BY <3>1, <3>2
  <2> QED BY <2>1, <2>2
<1> QED BY <1>1, <1>5, <1>6, <1>7, <1>8 DEF Improved, r

\* Distances in a sub-cell: typed, light, and no shorter than in the cell.
LEMMA SubDistances ==
    ASSUME NEW A, NEW sub, NEW border, NEW s, IsProblem(A, sub, border, s),
           NEW u \in Nodes, NEW v \in Nodes
    PROVE  /\ SubDistance(A, sub, u, v) \in Nat /\ SubDistance(A, sub, u, v) <= INVALID_EDGE_WEIGHT
           /\ DistancesFrom(A, u)[v] <= SubDistance(A, sub, u, v)
           /\ \A w \in Nodes : sub[u] = sub[v] =>
                SubDistance(A, sub, u, w) <= SubDistance(A, sub, u, v) + SubDistance(A, sub, v, w)
<1> DEFINE B == InSub(A, sub, sub[u])
<1>1. IsArcSet(A) /\ IsArcSet(B) /\ B \subseteq A
  BY DEF IsProblem, IsArcSet, InSub
<1> HIDE DEF B
<1>2. DistancesFrom(B, u)[v] \in Nat /\ DistancesFrom(B, u)[v] <= INVALID_EDGE_WEIGHT
  BY <1>1, DistanceTypes
<1>3. DistancesFrom(A, u)[v] <= DistancesFrom(B, u)[v]
  BY <1>1, MoreArcsShorter
<1>4. ASSUME NEW w \in Nodes, sub[u] = sub[v]
      PROVE  SubDistance(A, sub, u, w) <= SubDistance(A, sub, u, v) + SubDistance(A, sub, v, w)
  <2>1. DistancesFrom(B, u)[w] <= DistancesFrom(B, u)[v] + DistancesFrom(B, v)[w]
    BY <1>1, DistanceTriangle
  <2>2. B = InSub(A, sub, sub[v])
    BY <1>4 DEF B
  <2> QED BY <2>1, <2>2 DEF SubDistance, B
<1> QED BY <1>2, <1>3, <1>4 DEF SubDistance, B

\* Finite distances, two together, are finite.
LEMMA SumsStayFinite ==
    ASSUME NEW A, NEW sub, NEW border, NEW s, IsProblem(A, sub, border, s)
    PROVE  \E M \in Nat :
             /\ 2 * M < INVALID_EDGE_WEIGHT
             /\ \A u, v \in Nodes : DistancesFrom(A, u)[v] # INVALID_EDGE_WEIGHT => DistancesFrom(A, u)[v] <= M
             /\ \A u, v \in Nodes : SubDistance(A, sub, u, v) # INVALID_EDGE_WEIGHT => SubDistance(A, sub, u, v) <= M
             /\ \A a \in A : a.weight <= M
<1>1. PICK M \in Nat : /\ 2 * M < INVALID_EDGE_WEIGHT
                       /\ \A B \in SUBSET A : \A u, v \in Nodes :
                            DistancesFrom(B, u)[v] = INVALID_EDGE_WEIGHT \/ DistancesFrom(B, u)[v] <= M
                       /\ \A a \in A : a.weight <= M
  BY DEF IsProblem, Light
<1>2. \A u, v \in Nodes : DistancesFrom(A, u)[v] # INVALID_EDGE_WEIGHT => DistancesFrom(A, u)[v] <= M
  BY <1>1
<1>3. ASSUME NEW u \in Nodes, NEW v \in Nodes, SubDistance(A, sub, u, v) # INVALID_EDGE_WEIGHT
      PROVE  SubDistance(A, sub, u, v) <= M
  <2>1. InSub(A, sub, sub[u]) \in SUBSET A
    BY DEF InSub
  <2> QED BY <1>1, <1>3, <2>1 DEF SubDistance
<1> QED BY <1>1, <1>2, <1>3

\* A step from n to v along a way is no shorter than the distance, and finite.
LEMMA WayDistance ==
    ASSUME NEW A, NEW sub, NEW border, NEW s, IsProblem(A, sub, border, s),
           NEW n \in Nodes, NEW k \in Nat, DistancesFrom(A, s)[n] <= k, DistancesFrom(A, s)[n] # INVALID_EDGE_WEIGHT,
           NEW ways, NEW clique, AreWays(ways, A, sub, border, n, clique), NEW w \in ways
    PROVE  /\ DistancesFrom(A, s)[w.to] <= k + w.weight
           /\ DistancesFrom(A, s)[w.to] # INVALID_EDGE_WEIGHT
           /\ w.to \in border
<1> DEFINE INF == INVALID_EDGE_WEIGHT
           d == DistancesFrom(A, s)
           v == w.to
<1>1. IsArcSet(A) /\ border \subseteq Nodes /\ s \in Nodes /\ \A a \in A : Crosses(sub, a) => a.to \in border
  BY DEF IsProblem
<1>2. v \in Nodes /\ w.weight \in Nat
  BY DEF AreWays, Ways
<1>3. /\ INF \in Nat /\ d[n] \in Nat /\ d[v] \in Nat /\ d[v] <= INF
      /\ \A a \in A : d[a.to] <= d[a.from] + a.weight
  BY <1>1, <1>2, DistanceTypes, InvalidWeight
<1>4. PICK M \in Nat : /\ 2 * M < INF
                       /\ \A x, y \in Nodes : DistancesFrom(A, x)[y] # INF => DistancesFrom(A, x)[y] <= M
                       /\ \A x, y \in Nodes : SubDistance(A, sub, x, y) # INF => SubDistance(A, sub, x, y) <= M
                       /\ \A a \in A : a.weight <= M
  BY SumsStayFinite
<1>5. d[n] <= M
  BY <1>1, <1>4
<1>6. CASE ~w.clique
  <2>1. PICK a \in A : a.from = n /\ a.to = v /\ a.weight = w.weight /\ Crosses(sub, a)
    BY <1>6 DEF AreWays
  <2>2. d[v] <= d[n] + w.weight /\ w.weight <= M /\ v \in border
    BY <1>1, <1>3, <1>4, <2>1
  <2> HIDE DEF d, INF, v
  <2>3. d[v] <= k + w.weight /\ d[v] # INF
    BY <1>2, <1>3, <1>4, <1>5, <2>2 DEF d, INF
  <2> QED BY <2>2, <2>3 DEF d, INF, v
<1>7. CASE w.clique
  <2>1. Joined(A, sub, border, n, v) /\ w.weight = SubDistance(A, sub, n, v)
    BY <1>7 DEF AreWays
  <2>2. d[v] <= d[n] + DistancesFrom(A, n)[v]
    BY <1>1, <1>2, DistanceTriangle
  <2>3. DistancesFrom(A, n)[v] <= w.weight /\ DistancesFrom(A, n)[v] \in Nat
    BY <1>1, <1>2, <2>1, SubDistances, DistanceTypes
  <2>4. w.weight <= M /\ v \in border
    BY <1>2, <1>4, <2>1 DEF Joined
  <2>5. d[n] <= k /\ d[n] # INF
    OBVIOUS
  <2> HIDE DEF d, INF, v
  <2>6. d[v] <= k + w.weight /\ d[v] # INF
    BY <1>2, <1>3, <1>4, <1>5, <2>2, <2>3, <2>4, <2>5
  <2> QED BY <2>4, <2>6 DEF d, INF, v
<1> QED BY <1>6, <1>7

\* What settling n does: no settled key changes, the others are no less than that of n.
HasSettled(r, h, n, ways) ==
    /\ HeapTypes(r) /\ Known(h) \subseteq Known(r) /\ n \in Known(h) /\ n \in h.open
    /\ Done(r) = Done(h) \cup {n}
    /\ \A v \in Known(h) : r.key[v] <= h.key[v]
    /\ \A w \in ways : w.to \in Known(r) /\ r.key[w.to] <= h.key[n] + w.weight
    /\ \A z \in Done(r) : r.key[z] = h.key[z] /\ r.clique[z] = h.clique[z] /\ h.key[z] <= h.key[n]
    /\ \A o \in r.open : h.key[n] <= r.key[o]
    /\ \A v \in Known(r) :
         \/ v \in Known(h) /\ r.key[v] = h.key[v] /\ r.clique[v] = h.clique[v]
         \/ \E w \in ways : w.to = v /\ r.key[v] = h.key[n] + w.weight /\ (r.clique[v] => w.clique)

\* The node n with the least key is settled so.
LEMMA SettledKeys ==
    ASSUME NEW h, HeapTypes(h), InOrder(h), NEW n \in MinNodes(h), NEW ways, ways \subseteq Ways,
           NEW r, Improved(r, DeleteMin(h, n), n, ways)
    PROVE  HasSettled(r, h, n, ways)
<1> DEFINE g == DeleteMin(h, n)
<1>1. g.key = h.key /\ g.clique = h.clique /\ g.open = h.open \ {n} /\ Known(g) = Known(h)
  BY DEF HeapTypes, DeleteMin, Known
<1>2. n \in h.open /\ h.open \subseteq Known(h) /\ n \in Known(h)
  BY DEF MinNodes, HeapTypes
<1>3. \A v \in Known(h) : h.key[v] \in Nat
  BY DEF HeapTypes
<1>4. \A o \in h.open : h.key[n] <= h.key[o]
  <2> DEFINE S == {h.key[x] : x \in h.open}
  <2>1. S \subseteq Nat /\ S # {}
    BY <1>2, <1>3
  <2>2. \A x \in S : Least(S) <= x
    <3> HIDE DEF S
    <3> QED BY <2>1, LeastElement
  <2>3. h.key[n] = Least(S)
    BY DEF MinNodes, MinKey
  <2> QED BY <2>2, <2>3
<1> HIDE DEF g
<1>5. /\ Known(r) = Known(h) \cup {w.to : w \in ways} /\ HeapTypes(r)
      /\ r.open = (h.open \ {n}) \cup ({w.to : w \in ways} \ Known(h))
      /\ \A v \in Known(h) : r.key[v] <= h.key[v]
      /\ \A w \in ways : r.key[w.to] <= h.key[n] + w.weight
      /\ \A v \in Known(r) :
           \/ v \in Known(h) /\ r.key[v] = h.key[v] /\ r.clique[v] = h.clique[v]
           \/ \E w \in ways : /\ w.to = v /\ r.key[v] = h.key[n] + w.weight /\ (r.clique[v] => w.clique)
                              /\ v \in Known(h) => r.key[v] < h.key[v]
  BY <1>1 DEF Improved, g
<1>6. Done(r) = Done(h) \cup {n}
  BY <1>2, <1>5 DEF Done
<1>7. \A w \in ways : w.weight \in Nat
  BY DEF Ways
<1>8. ASSUME NEW z \in Done(r) PROVE h.key[z] <= h.key[n]
  BY <1>2, <1>3, <1>6 DEF InOrder, Done
<1>9. ASSUME NEW z \in Done(r) PROVE r.key[z] = h.key[z] /\ r.clique[z] = h.clique[z]
  <2>1. z \in Known(h) /\ z \in Known(r) /\ h.key[z] <= h.key[n] /\ h.key[z] \in Nat /\ h.key[n] \in Nat
    BY <1>2, <1>3, <1>5, <1>6, <1>8 DEF Done
  <2>2. ASSUME NEW w \in ways, r.key[z] = h.key[n] + w.weight, r.key[z] < h.key[z]
        PROVE  FALSE
    BY <1>7, <2>1, <2>2
  <2> QED BY <1>5, <2>1, <2>2
<1>10. ASSUME NEW o \in r.open PROVE h.key[n] <= r.key[o]
  <2>1. o \in Known(r)
    BY <1>5 DEF HeapTypes
  <2>2. CASE \E w \in ways : r.key[o] = h.key[n] + w.weight
    BY <1>2, <1>3, <1>7, <2>2
  <2>3. CASE o \in Known(h) /\ r.key[o] = h.key[o]
    BY <1>4, <1>5, <2>3
  <2> QED BY <1>5, <2>1, <2>2, <2>3
<1> QED BY <1>2, <1>5, <1>6, <1>8, <1>9, <1>10 DEF HasSettled

\* A turn of the search keeps its invariant.
LEMMA SearchStep ==
    ASSUME NEW A, NEW sub, NEW border, NEW s, IsProblem(A, sub, border, s),
           NEW h, SearchInv(h, A, sub, border, s), NEW n \in MinNodes(h),
           NEW ways, AreWays(ways, A, sub, border, n, h.clique[n])
    PROVE  /\ SearchInv(insertOrUpdate(DeleteMin(h, n), n, ways), A, sub, border, s)
           /\ Done(insertOrUpdate(DeleteMin(h, n), n, ways)) = Done(h) \cup {n}
<1> DEFINE r == insertOrUpdate(DeleteMin(h, n), n, ways)
           INF == INVALID_EDGE_WEIGHT
           SD(u, v) == SubDistance(A, sub, u, v)
<1>1. HeapTypes(h) /\ InOrder(h) /\ ways \subseteq Ways
  BY DEF SearchInv, AreWays
<1>2. Improved(r, DeleteMin(h, n), n, ways)
  <2>1. n \in Known(h) /\ HeapTypes(DeleteMin(h, n)) /\ n \in Known(DeleteMin(h, n))
    BY <1>1 DEF HeapTypes, DeleteMin, Known, MinNodes
  <2> QED BY <1>1, <2>1, InsertImproves
<1> HIDE DEF r
<1>3. /\ HeapTypes(r) /\ Known(h) \subseteq Known(r) /\ n \in Known(h) /\ n \in h.open
      /\ Done(r) = Done(h) \cup {n}
      /\ \A v \in Known(h) : r.key[v] <= h.key[v]
      /\ \A w \in ways : w.to \in Known(r) /\ r.key[w.to] <= h.key[n] + w.weight
      /\ \A z \in Done(r) : r.key[z] = h.key[z] /\ r.clique[z] = h.clique[z] /\ h.key[z] <= h.key[n]
      /\ \A o \in r.open : h.key[n] <= r.key[o]
      /\ \A v \in Known(r) :
           \/ v \in Known(h) /\ r.key[v] = h.key[v] /\ r.clique[v] = h.clique[v]
           \/ \E w \in ways : w.to = v /\ r.key[v] = h.key[n] + w.weight /\ (r.clique[v] => w.clique)
  <2>1. HasSettled(r, h, n, ways)
    BY <1>1, <1>2, SettledKeys
  <2> QED BY <2>1 DEF HasSettled
<1>4. /\ \A v \in Known(h) : h.key[v] \in Nat /\ v \in Nodes
      /\ \A v \in Known(r) : r.key[v] \in Nat /\ v \in Nodes
      /\ \A w \in ways : w.to \in Nodes /\ w.weight \in Nat
      /\ Done(h) \subseteq Known(h) /\ Done(r) \subseteq Known(r) /\ n \in Nodes
  BY <1>1, <1>3 DEF HeapTypes, Done, Ways
<1>5. /\ DistancesFrom(A, s)[n] <= h.key[n] /\ DistancesFrom(A, s)[n] # INF
      /\ s \in Known(h) /\ h.key[s] = 0 /\ Known(h) \subseteq border
  BY <1>3 DEF SearchInv, NeverShorter
<1>6. ASSUME NEW w \in ways
      PROVE  /\ DistancesFrom(A, s)[w.to] <= h.key[n] + w.weight
             /\ DistancesFrom(A, s)[w.to] # INF /\ w.to \in border
  BY <1>3, <1>4, <1>5, WayDistance
<1>7. Known(r) \subseteq border /\ NeverShorter(r, A, s)
  <2> SUFFICES ASSUME NEW v \in Known(r)
               PROVE  v \in border /\ DistancesFrom(A, s)[v] <= r.key[v] /\ DistancesFrom(A, s)[v] # INF
    BY DEF NeverShorter
  <2>1. CASE v \in Known(h) /\ r.key[v] = h.key[v]
    BY <1>5, <2>1 DEF SearchInv, NeverShorter
  <2>2. CASE \E w \in ways : w.to = v /\ r.key[v] = h.key[n] + w.weight
    BY <1>6, <2>2
  <2> QED BY <1>3, <2>1, <2>2
<1>8. s \in Known(r) /\ r.key[s] = 0
  <2>1. s \in Known(r) /\ r.key[s] <= h.key[s]
    BY <1>3, <1>5
  <2>2. r.key[s] \in Nat
    BY <1>4, <2>1
  <2> QED BY <1>5, <2>1, <2>2
<1>9. InOrder(r)
  <2> SUFFICES ASSUME NEW z \in Done(r), NEW o \in r.open PROVE r.key[z] <= r.key[o]
    BY DEF InOrder
  <2>1. r.key[z] = h.key[z] /\ h.key[z] <= h.key[n] /\ h.key[n] <= r.key[o]
    BY <1>3
  <2>2. r.key[z] \in Nat /\ h.key[n] \in Nat /\ r.key[o] \in Nat
    BY <1>3, <1>4 DEF HeapTypes
  <2> QED BY ONLY <2>1, <2>2
<1>10. ArcsFollowed(r, A, sub)
  <2> SUFFICES ASSUME NEW z \in Done(r), NEW a \in A, a.from = z, Crosses(sub, a)
               PROVE  a.to \in Known(r) /\ r.key[a.to] <= r.key[z] + a.weight
    BY DEF ArcsFollowed
  <2>1. r.key[z] = h.key[z] /\ h.key[z] \in Nat /\ a.weight \in Nat
    BY <1>3, <1>4 DEF IsProblem, IsArcSet
  <2>2. CASE z \in Done(h)
    <3>1. a.to \in Known(h) /\ h.key[a.to] <= h.key[z] + a.weight
      BY <2>2 DEF SearchInv, ArcsFollowed
    <3>2. a.to \in Known(r) /\ r.key[a.to] <= h.key[a.to] /\ r.key[a.to] \in Nat /\ h.key[a.to] \in Nat
      BY <1>3, <1>4, <3>1
    <3> QED BY <2>1, <3>1, <3>2
  <2>3. CASE z = n
    <3>1. PICK w \in ways : w.to = a.to /\ w.weight <= a.weight
      BY <2>3 DEF AreWays
    <3>2. a.to \in Known(r) /\ r.key[a.to] <= h.key[n] + w.weight
      BY <1>3, <3>1
    <3>3. r.key[a.to] \in Nat /\ w.weight \in Nat
      BY <1>4, <3>2
    <3> QED BY <2>1, <2>3, <3>1, <3>2, <3>3
  <2> QED BY <1>3, <2>2, <2>3
<1>11. ShortcutsFollowed(r, A, sub, border)
  <2> SUFFICES ASSUME NEW z \in Done(r), NEW v \in Nodes, v # z, Joined(A, sub, border, z, v)
               PROVE  v \in Known(r) /\ r.key[v] <= r.key[z] + SD(z, v)
    BY DEF ShortcutsFollowed
  <2>1. r.key[z] = h.key[z] /\ h.key[z] \in Nat /\ z \in Nodes
    BY <1>3, <1>4
  <2>2. SD(z, v) \in Nat /\ SD(z, v) # INF /\ sub[z] = sub[v] /\ v \in border
    BY <2>1, SubDistances DEF Joined
  <2>3. SUFFICES \/ v \in Known(h) /\ h.key[v] <= h.key[z] + SD(z, v)
                 \/ v \in Known(r) /\ r.key[v] <= h.key[z] + SD(z, v)
    <3>1. CASE v \in Known(h) /\ h.key[v] <= h.key[z] + SD(z, v)
      <4>1. v \in Known(r) /\ r.key[v] <= h.key[v] /\ r.key[v] \in Nat /\ h.key[v] \in Nat
        BY <1>3, <1>4, <3>1
      <4> HIDE DEF SD
      <4> QED BY <2>1, <2>2, <3>1, <4>1
    <3> QED BY <2>1, <2>3, <3>1
  <2>4. CASE z \in Done(h)
    BY <2>4 DEF SearchInv, ShortcutsFollowed
  <2>5. CASE z = n /\ ~h.clique[n]
    <3>1. PICK w \in ways : w.to = v /\ w.weight <= SD(n, v)
      BY <2>5 DEF AreWays
    <3>2. v \in Known(r) /\ r.key[v] <= h.key[n] + w.weight
      BY <1>3, <3>1
    <3>3. r.key[v] \in Nat /\ w.weight \in Nat
      BY <1>4, <3>2
    <3> HIDE DEF SD
    <3> QED BY <2>1, <2>2, <2>5, <3>1, <3>2, <3>3
  <2>6. CASE z = n /\ h.clique[n]
    <3>1. PICK p \in Done(h) : sub[p] = sub[n] /\ SD(p, n) # INF /\ h.key[n] = h.key[p] + SD(p, n)
      BY <1>3, <2>6 DEF SearchInv, ReachedByShortcut
    <3>2. p \in Known(h) /\ p \in Nodes /\ h.key[p] \in Nat
      BY <1>4, <3>1
    <3>3. SD(p, n) \in Nat /\ SD(p, v) \in Nat /\ SD(p, v) <= SD(p, n) + SD(n, v)
      BY <1>4, <3>1, <3>2, SubDistances
    <3>4. CASE v = p
      <4> HIDE DEF SD
      <4> QED BY <2>1, <2>2, <2>6, <3>1, <3>2, <3>3, <3>4
    <3>5. CASE v # p
      <4>1. PICK M \in Nat : 2 * M < INF /\ \A x, y \in Nodes : SD(x, y) # INF => SD(x, y) <= M
        BY SumsStayFinite
      <4>2. SD(p, n) <= M /\ SD(n, v) <= M /\ INF \in Nat
        BY <1>4, <2>2, <2>6, <3>1, <3>2, <4>1, InvalidWeight
      <4>3. SD(p, v) # INF
        <5> HIDE DEF SD, INF
        <5> QED BY <2>2, <2>6, <3>3, <4>1, <4>2
      <4>4. Joined(A, sub, border, p, v)
        BY <2>2, <2>6, <3>1, <4>3 DEF Joined
      <4>5. v \in Known(h) /\ h.key[v] <= h.key[p] + SD(p, v)
        BY <3>1, <3>5, <4>4 DEF SearchInv, ShortcutsFollowed
      <4>6. h.key[v] \in Nat
        BY <1>4, <4>5
      <4> HIDE DEF SD
      <4> QED BY <2>1, <2>2, <2>6, <3>1, <3>2, <3>3, <4>5, <4>6
    <3> QED BY <3>4, <3>5
  <2> QED BY <1>3, <2>4, <2>5, <2>6
<1>12. ReachedByShortcut(r, A, sub)
  <2> SUFFICES ASSUME NEW v \in Known(r), r.clique[v]
               PROVE  \E p \in Done(r) : sub[p] = sub[v] /\ SD(p, v) # INF /\ r.key[v] = r.key[p] + SD(p, v)
    BY DEF ReachedByShortcut
  <2>1. CASE v \in Known(h) /\ r.key[v] = h.key[v] /\ r.clique[v] = h.clique[v]
    <3>1. PICK p \in Done(h) : sub[p] = sub[v] /\ SD(p, v) # INF /\ h.key[v] = h.key[p] + SD(p, v)
      BY <2>1 DEF SearchInv, ReachedByShortcut
    <3>2. p \in Done(r) /\ r.key[p] = h.key[p]
      BY <1>3
    <3> QED BY <2>1, <3>1, <3>2
  <2>2. CASE \E w \in ways : w.to = v /\ r.key[v] = h.key[n] + w.weight /\ (r.clique[v] => w.clique)
    <3>1. PICK w \in ways : w.to = v /\ r.key[v] = h.key[n] + w.weight /\ w.clique
      BY <2>2
    <3>2. Joined(A, sub, border, n, v) /\ w.weight = SD(n, v)
      BY <3>1 DEF AreWays
    <3>3. n \in Done(r) /\ r.key[n] = h.key[n]
      BY <1>3
    <3> QED BY <3>1, <3>2, <3>3 DEF Joined
  <2> QED BY <1>3, <2>1, <2>2
<1> QED BY <1>3, <1>7, <1>8, <1>9, <1>10, <1>11, <1>12 DEF SearchInv, r

\* What the search has found so far, as a potential: the settled keys carried on inside their
\* sub-cells, and no more than the least key that is not settled.
Reach(h, A, sub, v) ==
    {INVALID_EDGE_WEIGHT} \cup {h.key[o] : o \in h.open}
      \cup {h.key[b] + SubDistance(A, sub, b, v) : b \in {x \in Done(h) : sub[x] = sub[v]}}

\* It is feasible.
LEMMA ReachFeasible ==
    ASSUME NEW A, NEW sub, NEW border, NEW s, IsProblem(A, sub, border, s),
           NEW h, SearchInv(h, A, sub, border, s)
    PROVE  /\ \A v \in Nodes : Reach(h, A, sub, v) \subseteq Nat /\ Reach(h, A, sub, v) # {}
           /\ [v \in Nodes |-> Least(Reach(h, A, sub, v))] \in Potentials
           /\ Feasible([v \in Nodes |-> Least(Reach(h, A, sub, v))], A)
           /\ Least(Reach(h, A, sub, s)) = 0
<1> DEFINE INF == INVALID_EDGE_WEIGHT
           SD(u, v) == SubDistance(A, sub, u, v)
           R(v) == Reach(h, A, sub, v)
           q == [v \in Nodes |-> Least(R(v))]
<1>1. /\ \A v \in Known(h) : h.key[v] \in Nat /\ v \in Nodes
      /\ h.open \subseteq Known(h) /\ Done(h) \subseteq Known(h) /\ Known(h) = Done(h) \cup h.open
      /\ s \in Known(h) /\ h.key[s] = 0 /\ s \in Nodes
  BY DEF SearchInv, HeapTypes, Done, IsProblem
<1>2. /\ INF \in Nat
      /\ \A u, v \in Nodes : SD(u, v) \in Nat /\ SD(u, v) <= INF
      /\ \A u \in Nodes : SD(u, u) = 0
  <2>1. ASSUME NEW u \in Nodes PROVE SD(u, u) = 0
    <3>1. IsArcSet(InSub(A, sub, sub[u]))
      BY DEF IsProblem, IsArcSet, InSub
    <3> QED BY <3>1, DistanceTypes DEF SubDistance
  <2> QED BY <2>1, InvalidWeight, SubDistances
<1>3. ASSUME NEW v \in Nodes PROVE R(v) \subseteq Nat /\ INF \in R(v)
  <2> HIDE DEF SD
  <2> QED BY <1>1, <1>2 DEF Reach, SD
<1>4. ASSUME NEW v \in Nodes PROVE q[v] \in R(v) /\ q[v] \in Nat /\ \A x \in R(v) : q[v] <= x
  <2> HIDE DEF R
  <2>1. Least(R(v)) \in R(v) /\ \A x \in R(v) : Least(R(v)) <= x
    BY <1>3, LeastElement
  <2> QED BY <1>3, <2>1
<1>5. \A b \in Known(h) : \A v \in Nodes : b \in h.open \/ (sub[b] = sub[v] /\ SD(b, v) = 0) => h.key[b] \in R(v)
  <2> HIDE DEF SD
  <2> QED BY <1>1, <1>2 DEF Reach, SD
<1>6. \A b \in Done(h) : \A v \in Nodes : sub[b] = sub[v] => h.key[b] + SD(b, v) \in R(v)
  BY DEF Reach
<1>7. ASSUME NEW v \in Nodes, NEW x \in R(v)
      PROVE  \/ x = INF \/ \E o \in h.open : x = h.key[o]
             \/ \E b \in Done(h) : sub[b] = sub[v] /\ x = h.key[b] + SD(b, v)
  BY DEF Reach
<1>8. \A v \in Nodes, o \in h.open : h.key[o] \in R(v)
  BY DEF Reach
<1> HIDE DEF R, q, INF
<1>9. q \in Potentials
  <2>1. \A v \in Nodes : q[v] \in 0 .. INF
    BY <1>2, <1>3, <1>4
  <2> QED BY <2>1 DEF Potentials, q, INF
<1>10. q[s] = 0
  <2>1. h.key[s] \in R(s)
    BY <1>1, <1>2, <1>5
  <2> QED BY <1>1, <1>4, <2>1
<1>11. ASSUME NEW a \in A PROVE q[a.to] <= q[a.from] + a.weight
  <2> DEFINE u == a.from
             v == a.to
  <2>1. u \in Nodes /\ v \in Nodes /\ a.weight \in Nat
    BY DEF IsProblem, IsArcSet
  <2> HIDE DEF u, v
  <2>2. /\ q[u] \in R(u) /\ q[u] \in Nat /\ q[v] \in Nat /\ (\A x \in R(v) : q[v] <= x)
        /\ q[v] <= INF
    BY <1>3, <1>4, <2>1
  <2>3. CASE q[u] = INF \/ \E o \in h.open : q[u] = h.key[o]
    <3>1. q[u] \in R(v)
      BY <1>3, <1>8, <2>1, <2>3
    <3> QED BY <2>1, <2>2, <3>1 DEF u, v
  <2>4. CASE \E b \in Done(h) : sub[b] = sub[u] /\ q[u] = h.key[b] + SD(b, u)
    <3>1. PICK b \in Done(h) : sub[b] = sub[u] /\ q[u] = h.key[b] + SD(b, u)
      BY <2>4
    <3>2. b \in Nodes /\ b \in Known(h) /\ h.key[b] \in Nat /\ SD(b, u) \in Nat /\ SD(b, v) \in Nat
      BY <1>1, <1>2, <2>1
    <3>3. CASE SD(b, u) = INF
      <4> HIDE DEF SD
      <4> QED BY <1>2, <2>1, <2>2, <3>1, <3>2, <3>3 DEF u, v
    <3>4. CASE ~Crosses(sub, a)
      <4>1. sub[b] = sub[v] /\ a \in InSub(A, sub, sub[b]) /\ IsArcSet(InSub(A, sub, sub[b]))
        BY <3>1, <3>4 DEF Crosses, u, v, InSub, IsProblem, IsArcSet
      <4>2. SD(b, v) <= SD(b, u) + a.weight
        BY <3>2, <4>1, DistanceTypes DEF SubDistance, u, v
      <4>3. q[v] <= h.key[b] + SD(b, v)
        BY <1>6, <2>1, <2>2, <4>1
      <4> HIDE DEF SD
      <4> QED BY <2>1, <2>2, <3>1, <3>2, <4>2, <4>3 DEF u, v
    <3>5. CASE Crosses(sub, a) /\ SD(b, u) # INF
      <4>1. u \in border
        BY <3>5 DEF IsProblem, u
      <4>2. u \in Known(h) /\ h.key[u] <= q[u]
        <5>1. CASE u = b
          <6> HIDE DEF SD
          <6> QED BY <3>1, <3>2, <5>1
        <5>2. CASE u # b
          <6>1. Joined(A, sub, border, b, u)
            BY <3>1, <3>5, <4>1 DEF Joined, INF
          <6> QED BY <2>1, <3>1, <5>2, <6>1 DEF SearchInv, ShortcutsFollowed
        <5> QED BY <5>1, <5>2
      <4>3. h.key[u] \in Nat
        BY <1>1, <4>2
      <4>4. CASE u \in h.open
        <5>1. q[v] <= h.key[u]
          BY <1>8, <2>1, <2>2, <4>4
        <5> QED BY <2>1, <2>2, <4>2, <4>3, <5>1 DEF u, v
      <4>5. CASE u \in Done(h)
        <5>1. v \in Known(h) /\ h.key[v] <= h.key[u] + a.weight
          BY <3>5, <4>5 DEF SearchInv, ArcsFollowed, u, v
        <5>2. h.key[v] \in R(v) /\ h.key[v] \in Nat
          BY <1>1, <1>2, <1>5, <2>1, <5>1
        <5> QED BY <2>1, <2>2, <4>2, <4>3, <5>1, <5>2 DEF u, v
      <4> QED BY <1>1, <4>2, <4>4, <4>5
    <3> QED BY <3>3, <3>4, <3>5
  <2> QED BY <1>7, <2>1, <2>2, <2>3, <2>4
<1>12. \A v \in Nodes : R(v) \subseteq Nat /\ R(v) # {}
  BY <1>3
<1>13. Least(R(s)) = 0
  BY <1>1, <1>10 DEF q
<1> QED BY <1>9, <1>11, <1>12, <1>13 DEF Feasible, q, R

\* A search that is over, or that has settled d, has the distance to d.
LEMMA SearchExact ==
    ASSUME NEW A, NEW sub, NEW border, NEW s, IsProblem(A, sub, border, s),
           NEW h, SearchInv(h, A, sub, border, s), NEW d \in border, h.open = {} \/ d \in Done(h)
    PROVE  (IF d \in Known(h) THEN h.key[d] ELSE INVALID_EDGE_WEIGHT) = DistancesFrom(A, s)[d]
<1> DEFINE INF == INVALID_EDGE_WEIGHT
           SD(u, v) == SubDistance(A, sub, u, v)
           R(v) == Reach(h, A, sub, v)
           q == [v \in Nodes |-> Least(R(v))]
           D == DistancesFrom(A, s)[d]
<1>1. /\ \A v \in Known(h) : h.key[v] \in Nat /\ v \in Nodes
      /\ h.open \subseteq Known(h) /\ Done(h) \subseteq Known(h) /\ Known(h) = Done(h) \cup h.open
      /\ s \in Nodes /\ d \in Nodes /\ IsArcSet(A)
  BY DEF SearchInv, HeapTypes, Done, IsProblem
<1>2. /\ INF \in Nat /\ D \in Nat /\ D <= INF
      /\ \A u, v \in Nodes : SD(u, v) \in Nat /\ SD(u, v) <= INF
  BY <1>1, InvalidWeight, SubDistances, DistanceTypes
<1>3. q[d] <= D
  <2>1. q \in Potentials /\ Feasible(q, A) /\ q[s] = 0
    BY <1>1, ReachFeasible
  <2> HIDE DEF q
  <2> QED BY <1>1, <2>1, DistanceBounds
<1>4. q[d] \in R(d) /\ q[d] \in Nat
  <2>1. R(d) \subseteq Nat /\ R(d) # {}
    BY <1>1, ReachFeasible
  <2> HIDE DEF R
  <2>2. Least(R(d)) \in R(d)
    BY <2>1, LeastElement
  <2> QED BY <1>1, <2>1, <2>2
<1>5. \/ q[d] = INF \/ \E o \in h.open : q[d] = h.key[o]
      \/ \E b \in Done(h) : sub[b] = sub[d] /\ q[d] = h.key[b] + SD(b, d)
  <2> HIDE DEF q
  <2> QED BY <1>4 DEF Reach
<1> HIDE DEF q, R
<1>6. ASSUME NEW b \in Done(h), sub[b] = sub[d], q[d] = h.key[b] + SD(b, d), D # INF
      PROVE  d \in Known(h) /\ h.key[d] <= q[d]
  <2>1. h.key[b] \in Nat /\ SD(b, d) \in Nat /\ b \in Nodes /\ b \in Known(h)
    BY <1>1, <1>2
  <2>2. SD(b, d) # INF
    <3> HIDE DEF SD, INF, D
    <3> QED BY <1>2, <1>3, <1>4, <1>6, <2>1
  <2>3. CASE b = d
    <3> HIDE DEF SD
    <3> QED BY <1>6, <2>1, <2>3
  <2>4. CASE b # d
    <3>1. Joined(A, sub, border, b, d)
      BY <1>6, <2>2 DEF Joined
    <3> QED BY <1>1, <1>6, <2>4, <3>1 DEF SearchInv, ShortcutsFollowed
  <2> QED BY <2>3, <2>4
<1>7. CASE d \in Done(h)
  <2>1. d \in Known(h) /\ D <= h.key[d] /\ D # INF /\ h.key[d] \in Nat
    BY <1>1, <1>7 DEF SearchInv, NeverShorter
  <2>2. h.key[d] <= q[d]
    <3>1. q[d] # INF
      <4> HIDE DEF D, INF
      <4> QED BY <1>2, <1>3, <1>4, <2>1
    <3>2. CASE \E o \in h.open : q[d] = h.key[o]
      BY <1>7, <3>2 DEF SearchInv, InOrder
    <3>3. CASE \E b \in Done(h) : sub[b] = sub[d] /\ q[d] = h.key[b] + SD(b, d)
      BY <1>6, <2>1, <3>3
    <3> QED BY <1>5, <3>1, <3>2, <3>3
  <2> HIDE DEF D
  <2>3. h.key[d] = D
    BY <1>2, <1>3, <1>4, <2>1, <2>2
  <2> QED BY <2>1, <2>3 DEF D
<1>8. CASE d \notin Done(h)
  <2>1. h.open = {} /\ d \notin Known(h)
    BY <1>1, <1>8
  <2>2. D = INF
    <3> SUFFICES ASSUME D # INF PROVE FALSE
      OBVIOUS
    <3>1. q[d] # INF
      <4>1. D # INF
        OBVIOUS
      <4> HIDE DEF D, INF
      <4> QED BY <1>2, <1>3, <1>4, <4>1
    <3> QED BY <1>5, <1>6, <2>1, <3>1
  <2> QED BY <2>1, <2>2
<1> QED BY <1>7, <1>8

-----------------------------------------------------------------------------
(***************************************************************************)
(* The graph and its cells.                                                *)
(***************************************************************************)
\* A finite set as a sequence.
LEMMA SetToSeqElements ==
    ASSUME NEW S, IsFiniteSet(S)
    PROVE  SetToSeq(S) \in Seq(S) /\ ToSet(SetToSeq(S)) = S
<1> DEFINE n == Cardinality(S)
           f == SetToSeq(S)
<1>1. n \in Nat /\ ExistsBijection(1 .. n, S)
  BY FS_CardinalityType
<1>2. \E g \in [1 .. n -> S] : IsInjective(g)
  BY <1>1 DEF ExistsBijection, Bijection, Injection
<1>3. f \in [1 .. n -> S] /\ IsInjective(f)
  BY <1>2 DEF SetToSeq
<1>4. Cardinality(1 .. n) = n /\ f \in Injection(1 .. n, S)
  BY <1>1, <1>3, FS_Interval DEF Injection
<1> HIDE DEF f
<1>5. f \in Surjection(1 .. n, S)
  BY <1>4, FS_Injection
<1>6. f \in Seq(S) /\ DOMAIN f = 1 .. n
  BY <1>1, <1>3
<1>7. ToSet(f) = S
  BY <1>3, <1>5, <1>6 DEF ToSet, Surjection
<1> QED BY <1>6, <1>7 DEF f

\* A turn weighs something.
LEMMA TurnWeights ==
    ASSUME NEW net \in Networks, NEW t \in net.turns
    PROVE  /\ t.from \in Nodes /\ t.to \in Nodes
           /\ TurnWeight(net, t) \in Nat \ {0} /\ 2 * N * TurnWeight(net, t) < INVALID_EDGE_WEIGHT
<1>1. /\ net.weights \in [Nodes -> Nat] /\ net.turns \subseteq [from : Nodes, to : Nodes, penalty : Int]
      /\ 2 * N * TurnWeight(net, t) < INVALID_EDGE_WEIGHT
  BY CustomizerAssumption
<1>2. t.from \in Nodes /\ t.to \in Nodes /\ t.penalty \in Int /\ net.weights[t.from] \in Nat
  BY <1>1
<1> DEFINE x == net.weights[t.from] + t.penalty
<1>3. x \in Int
  BY <1>2
<1> HIDE DEF x
<1>4. \E m \in {x, 1} : \A y \in {x, 1} : m >= y
  BY <1>3
<1>5. Max({x, 1}) \in {x, 1} /\ \A y \in {x, 1} : Max({x, 1}) >= y
  BY <1>4 DEF Max
<1>6. Max({x, 1}) \in Nat \ {0}
  BY <1>3, <1>5
<1> QED BY <1>1, <1>2, <1>6 DEF TurnWeight, x

\* The edges are the turns: an edge that can be used forwards is one, and of each turn there
\* is an edge no heavier, and one at its other end.
EdgeIsTurn(net, e) == \E t \in net.turns : t.from = e.source /\ t.to = e.to /\ TurnWeight(net, t) = e.weight

\* The graph has the turns in both directions.
LEMMA GraphEdges ==
    ASSUME NEW net \in Networks
    PROVE  /\ \A e \in prepareEdgesForUsageInGraph(net) :
                /\ e.source \in Nodes /\ e.to \in Nodes /\ e.source # e.to
                /\ e.forward => EdgeIsTurn(net, e)
           /\ \A t \in net.turns : t.from # t.to =>
                /\ \E e \in prepareEdgesForUsageInGraph(net) :
                     e.source = t.from /\ e.to = t.to /\ e.forward /\ e.weight <= TurnWeight(net, t)
                /\ \E e \in prepareEdgesForUsageInGraph(net) : e.source = t.to /\ e.to = t.from /\ e.backward
<1> DEFINE all(u, v) == {t \in net.turns : t.from = u /\ t.to = v}
           W(t) == TurnWeight(net, t)
           light(u, v) == {t \in all(u, v) : \A s \in all(u, v) : W(t) <= W(s)}
           edge(u, v, t, f, b) == [source |-> u, to |-> v, weight |-> W(t),
                                   penalty |-> t.penalty, forward |-> f, backward |-> b]
           same(u, v) == \E t \in light(u, v), b \in light(v, u) : W(t) = W(b)
           between(u, v) == IF same(u, v) THEN {edge(u, v, t, TRUE, TRUE) : t \in light(u, v)}
                            ELSE {edge(u, v, t, TRUE, FALSE) : t \in light(u, v)}
                                   \cup {edge(u, v, t, FALSE, TRUE) : t \in light(v, u)}
           E == prepareEdgesForUsageInGraph(net)
<1>1. E = UNION {between(p[1], p[2]) : p \in {q \in Nodes \X Nodes : q[1] # q[2]}}
  BY DEF prepareEdgesForUsageInGraph
<1>2. \A t \in net.turns : t.from \in Nodes /\ t.to \in Nodes /\ W(t) \in Nat
  BY TurnWeights
<1> HIDE DEF E, W
<1>3. ASSUME NEW u \in Nodes, NEW v \in Nodes, u # v, NEW e \in between(u, v)
      PROVE  e \in E
  <2>1. <<u, v>> \in {q \in Nodes \X Nodes : q[1] # q[2]}
    BY <1>3
  <2> HIDE DEF between
  <2> QED BY <1>1, <1>3, <2>1
<1>4. ASSUME NEW e \in E
      PROVE  \E u, v \in Nodes : u # v /\ e \in between(u, v)
  <2>1. PICK p \in {q \in Nodes \X Nodes : q[1] # q[2]} : e \in between(p[1], p[2])
    <3> HIDE DEF between
    <3> QED BY <1>1
  <2> HIDE DEF between
  <2> QED BY <2>1
<1>5. ASSUME NEW e \in E
      PROVE  /\ e.source \in Nodes /\ e.to \in Nodes /\ e.source # e.to
             /\ e.forward => EdgeIsTurn(net, e)
  <2>1. PICK u \in Nodes, v \in Nodes : u # v /\ e \in between(u, v)
    BY <1>4
  <2>2. \/ \E t \in light(u, v) : e = edge(u, v, t, TRUE, TRUE)
        \/ \E t \in light(u, v) : e = edge(u, v, t, TRUE, FALSE)
        \/ \E t \in light(v, u) : e = edge(u, v, t, FALSE, TRUE)
    <3> HIDE DEF light, edge
    <3> QED BY <2>1
  <2>3. CASE \E t \in light(u, v) : \E b \in BOOLEAN : e = edge(u, v, t, TRUE, b)
    <3>1. PICK t \in light(u, v) : \E b \in BOOLEAN : e = edge(u, v, t, TRUE, b)
      BY <2>3
    <3>2. t \in net.turns /\ t.from = u /\ t.to = v /\ e.source = u /\ e.to = v /\ e.weight = W(t)
      BY <3>1
    <3> QED BY <2>1, <3>2 DEF EdgeIsTurn, W
  <2>4. CASE \E t \in light(v, u) : e = edge(u, v, t, FALSE, TRUE)
    <3>1. e.source = u /\ e.to = v /\ ~e.forward
      BY <2>4
    <3> QED BY <2>1, <3>1
  <2> QED BY <2>2, <2>3, <2>4
<1>6. ASSUME NEW t \in net.turns
      PROVE  \E x \in light(t.from, t.to) : W(x) <= W(t) /\ W(x) \in Nat
  <2> DEFINE S == {W(x) : x \in all(t.from, t.to)}
  <2>1. S \subseteq Nat /\ S # {}
    BY <1>2
  <2>2. PICK w \in S : \A y \in S : w <= y
    <3> HIDE DEF S
    <3> QED BY <2>1, LeastNatural
  <2>3. PICK x \in all(t.from, t.to) : W(x) = w
    BY <2>2
  <2>4. \A y \in all(t.from, t.to) : W(x) <= W(y)
    BY <2>2, <2>3
  <2> QED BY <1>2, <2>3, <2>4
<1>7. ASSUME NEW t \in net.turns, t.from # t.to
      PROVE  /\ \E e \in E : e.source = t.from /\ e.to = t.to /\ e.forward /\ e.weight <= W(t)
             /\ \E e \in E : e.source = t.to /\ e.to = t.from /\ e.backward
  <2> DEFINE u == t.from
             v == t.to
  <2>1. u \in Nodes /\ v \in Nodes /\ u # v
    BY <1>2, <1>7
  <2>2. PICK x \in light(u, v) : W(x) <= W(t)
    BY <1>6
  <2> HIDE DEF u, v
  <2>3. \E e \in between(u, v) : e.source = u /\ e.to = v /\ e.forward /\ e.weight <= W(t)
    <3>1. CASE same(u, v)
      <4>1. edge(u, v, x, TRUE, TRUE) \in between(u, v)
        <5> HIDE DEF light, edge
        <5> QED BY <2>2, <3>1
      <4> HIDE DEF between
      <4> QED BY <2>2, <4>1
    <3>2. CASE ~same(u, v)
      <4>1. edge(u, v, x, TRUE, FALSE) \in between(u, v)
        <5> HIDE DEF light, edge
        <5> QED BY <2>2, <3>2
      <4> HIDE DEF between
      <4> QED BY <2>2, <4>1
    <3> QED BY <3>1, <3>2
  <2>4. \E e \in between(v, u) : e.source = v /\ e.to = u /\ e.backward
    <3>1. CASE same(v, u)
      <4>1. PICK y \in light(v, u) : TRUE
        <5> HIDE DEF light
        <5> QED BY <3>1
      <4>2. edge(v, u, y, TRUE, TRUE) \in between(v, u)
        <5> HIDE DEF light, edge
        <5> QED BY <3>1, <4>1
      <4> HIDE DEF between
      <4> QED BY <4>2
    <3>2. CASE ~same(v, u)
      <4>1. edge(v, u, x, FALSE, TRUE) \in between(v, u)
        <5> HIDE DEF light, edge
        <5> QED BY <2>2, <3>2
      <4> HIDE DEF between
      <4> QED BY <4>1
    <3> QED BY <3>1, <3>2
  <2>5. /\ \A e \in between(u, v) : e \in E
        /\ \A e \in between(v, u) : e \in E
    <3> HIDE DEF between
    <3> QED BY <1>3, <2>1
  <2> HIDE DEF between
  <2> QED BY <2>3, <2>4, <2>5 DEF u, v
<1> QED BY <1>5, <1>7 DEF E, W

\* Nodes that share a cell share the cells above it.
LEMMA CellsNest ==
    ASSUME InputInv, NEW l \in 1 .. Levels, NEW k \in 1 .. Levels, l <= k,
           NEW m \in Nodes, NEW n \in Nodes, GetCell(l, m) = GetCell(l, n)
    PROVE  GetCell(k, m) = GetCell(k, n)
<1> DEFINE S == {j \in Nat : l + j <= Levels => GetCell(l + j, m) = GetCell(l + j, n)}
<1>1. /\ Levels \in Nat
      /\ \A x \in 1 .. Levels - 1 : partition[x][m] = partition[x][n] => partition[x + 1][m] = partition[x + 1][n]
  BY CustomizerAssumption DEF InputInv
<1>2. 0 \in S
  OBVIOUS
<1>3. ASSUME NEW j \in Nat, j \in S PROVE j + 1 \in S
  <2> SUFFICES ASSUME l + (j + 1) <= Levels PROVE GetCell(l + (j + 1), m) = GetCell(l + (j + 1), n)
    OBVIOUS
  <2>1. l + j \in 1 .. Levels - 1 /\ l + j <= Levels /\ l + (j + 1) = (l + j) + 1
    BY <1>1
  <2>2. GetCell(l + j, m) = GetCell(l + j, n)
    BY <1>3, <2>1
  <2> QED BY <1>1, <2>1, <2>2 DEF GetCell
<1>4. Nat \subseteq S
  <2> HIDE DEF S
  <2> QED BY <1>2, <1>3, SetInduction
<1>5. k - l \in S /\ l + (k - l) = k /\ k <= Levels
  BY <1>1, <1>4
<1> QED BY <1>5

\* The highest level at which two nodes differ.
LEMMA HighestLevel ==
    ASSUME InputInv, NEW l \in 1 .. Levels, NEW m \in Nodes, NEW n \in Nodes
    PROVE  GetHighestDifferentLevel(m, n) >= l <=> GetCell(l, m) # GetCell(l, n)
<1> DEFINE T == {0} \cup {k \in 1 .. Levels : GetCell(k, m) # GetCell(k, n)}
           T2 == {Levels - k : k \in T}
<1>1. Levels \in Nat
  BY CustomizerAssumption
<1>2. T2 \subseteq Nat /\ T2 # {} /\ T \subseteq 0 .. Levels
  BY <1>1
<1>3. PICK x \in T2 : \A y \in T2 : x <= y
  <2> HIDE DEF T2
  <2> QED BY <1>2, LeastNatural
<1>4. PICK k \in T : x = Levels - k
  BY <1>3
<1>5. ASSUME NEW j \in T PROVE k >= j
  <2>1. Levels - j \in T2 /\ j \in Nat /\ k \in Nat
    BY <1>2
  <2>2. Levels - k <= Levels - j
    BY <1>3, <1>4, <2>1
  <2> QED BY <1>1, <2>1, <2>2
<1>6. Max(T) \in T /\ \A j \in T : Max(T) >= j
  <2> HIDE DEF T
  <2> QED BY <1>5 DEF Max
<1>7. GetHighestDifferentLevel(m, n) = Max(T)
  BY DEF GetHighestDifferentLevel
<1> DEFINE h == Max(T)
<1>8. h \in T /\ h \in Nat /\ \A j \in T : h >= j
  BY <1>2, <1>6
<1> HIDE DEF h
<1>9. ASSUME GetCell(l, m) # GetCell(l, n) PROVE h >= l
  BY <1>8, <1>9
<1>10. ASSUME h >= l PROVE GetCell(l, m) # GetCell(l, n)
  <2>1. h \in 1 .. Levels /\ GetCell(h, m) # GetCell(h, n)
    BY <1>8, <1>10
  <2> QED BY <1>10, <2>1, CellsNest
<1> QED BY <1>7, <1>9, <1>10 DEF h

\* The lists of a cell, as sets.
LEMMA CellLists ==
    ASSUME NEW l \in 1 .. Levels, NEW c
    PROVE  /\ GetSourceNodes(l, c) \in Seq(Nodes) /\ GetDestinationNodes(l, c) \in Seq(Nodes)
           /\ \A n : n \in ToSet(GetSourceNodes(l, c)) <=>
                       n \in Nodes /\ GetCell(l, n) = c /\ IsBoundary(l, n) /\ LeadsInside(l, n)
           /\ \A n : n \in ToSet(GetDestinationNodes(l, c)) <=>
                       /\ n \in Nodes /\ GetCell(l, n) = c /\ IsBoundary(l, n)
                       /\ LeadsInside(l, n) => ReachedInside(l, n)
<1> DEFINE S == {n \in Nodes : GetCell(l, n) = c /\ IsBoundary(l, n) /\ LeadsInside(l, n)}
           T == {n \in Nodes : /\ GetCell(l, n) = c /\ IsBoundary(l, n)
                               /\ LeadsInside(l, n) => ReachedInside(l, n)}
<1>1. IsFiniteSet(Nodes)
  BY NAssumption, FS_Interval DEF Nodes
<1>2. IsFiniteSet(S) /\ IsFiniteSet(T) /\ S \subseteq Nodes /\ T \subseteq Nodes
  BY <1>1, FS_Subset
<1>3. GetSourceNodes(l, c) = SetToSeq(S) /\ GetDestinationNodes(l, c) = SetToSeq(T)
  BY DEF GetSourceNodes, GetDestinationNodes
<1> HIDE DEF S, T
<1>4. /\ GetSourceNodes(l, c) \in Seq(S) /\ ToSet(GetSourceNodes(l, c)) = S
      /\ GetDestinationNodes(l, c) \in Seq(T) /\ ToSet(GetDestinationNodes(l, c)) = T
  BY <1>2, <1>3, SetToSeqElements
<1>5. GetSourceNodes(l, c) \in Seq(Nodes) /\ GetDestinationNodes(l, c) \in Seq(Nodes)
  BY <1>2, <1>4
<1> QED BY <1>4, <1>5 DEF S, T

\* What a turn between two nodes makes of them.
LEMMA TurnEnds ==
    ASSUME InputInv, NEW i, NEW a \in AllowedTurns(i), NEW l \in 1 .. Levels
    PROVE  /\ a.from \in Nodes /\ a.to \in Nodes /\ a.from # a.to /\ a.weight \in Nat \ {0}
           /\ 2 * N * a.weight < INVALID_EDGE_WEIGHT
           /\ a.from \in node_filters[i] /\ a.to \in node_filters[i]
           /\ \E e \in EdgesOf(a.from) : e.to = a.to /\ e.forward /\ e.weight <= a.weight
           /\ GetCell(l, a.from) # GetCell(l, a.to) => IsBoundary(l, a.from) /\ IsBoundary(l, a.to)
           /\ GetCell(l, a.from) = GetCell(l, a.to) => LeadsInside(l, a.from) /\ ReachedInside(l, a.to)
<1>1. PICK t \in network.turns : /\ {t.from, t.to} \subseteq node_filters[i] /\ t.from # t.to
                                 /\ a = [from |-> t.from, to |-> t.to, weight |-> TurnWeight(network, t)]
  BY DEF AllowedTurns
<1>2. network \in Networks /\ base = prepareEdgesForUsageInGraph(network)
  BY DEF InputInv
<1>3. /\ t.from \in Nodes /\ t.to \in Nodes
      /\ TurnWeight(network, t) \in Nat \ {0} /\ 2 * N * TurnWeight(network, t) < INVALID_EDGE_WEIGHT
  BY <1>2, TurnWeights
<1>4. a.from = t.from /\ a.to = t.to /\ a.weight = TurnWeight(network, t)
  BY <1>1
<1>5. /\ \E e \in base : e.source = t.from /\ e.to = t.to /\ e.forward /\ e.weight <= TurnWeight(network, t)
      /\ \E e \in base : e.source = t.to /\ e.to = t.from /\ e.backward
  BY <1>1, <1>2, GraphEdges
<1>6. \E e \in EdgesOf(a.from) : e.to = a.to /\ e.forward /\ e.weight <= a.weight
  BY <1>4, <1>5 DEF EdgesOf
<1>7. \E e \in EdgesOf(a.to) : e.to = a.from /\ e.backward
  BY <1>4, <1>5 DEF EdgesOf
<1>8. GetCell(l, a.from) # GetCell(l, a.to) => IsBoundary(l, a.from) /\ IsBoundary(l, a.to)
  BY <1>6, <1>7 DEF IsBoundary
<1>9. GetCell(l, a.from) = GetCell(l, a.to) => LeadsInside(l, a.from) /\ ReachedInside(l, a.to)
  BY <1>6, <1>7 DEF LeadsInside, ReachedInside
<1> QED BY <1>1, <1>3, <1>4, <1>6, <1>8, <1>9

\* An edge that can be used forwards, between allowed nodes, is a turn.
LEMMA EdgeTurn ==
    ASSUME InputInv, NEW i, NEW n \in Nodes, n \in node_filters[i],
           NEW e \in EdgesOf(n), e.forward, e.to \in node_filters[i]
    PROVE  e.to \in Nodes /\ e.to # n /\ \E a \in AllowedTurns(i) : a.from = n /\ a.to = e.to /\ a.weight = e.weight
<1>1. e \in prepareEdgesForUsageInGraph(network) /\ e.source = n /\ network \in Networks
  BY DEF EdgesOf, InputInv
<1>2. e.to \in Nodes /\ e.to # n /\ EdgeIsTurn(network, e)
  BY <1>1, GraphEdges
<1>3. PICK t \in network.turns : t.from = n /\ t.to = e.to /\ TurnWeight(network, t) = e.weight
  BY <1>1, <1>2 DEF EdgeIsTurn
<1> DEFINE a == [from |-> t.from, to |-> t.to, weight |-> TurnWeight(network, t)]
<1>4. a \in AllowedTurns(i)
  BY <1>2, <1>3 DEF AllowedTurns
<1>5. a.from = n /\ a.to = e.to /\ a.weight = e.weight
  BY <1>3
<1> QED BY <1>2, <1>4, <1>5

-----------------------------------------------------------------------------
(***************************************************************************)
(* The search in a cell of level l, in the terms of the search above: on   *)
(* level 1 every node is a sub-cell of its own.                            *)
(***************************************************************************)
Sub(l) == IF l = 1 THEN [n \in Nodes |-> n] ELSE partition[l - 1]

Border(l) == IF l = 1 THEN Nodes ELSE {n \in Nodes : IsBoundary(l - 1, n)}

\* The turns inside a cell are light arcs between allowed nodes of the cell.
LEMMA CellArcs ==
    ASSUME InputInv, NEW i, NEW l \in 1 .. Levels, NEW c
    PROVE  /\ IsArcSet(CellTurns(i, l, c)) /\ Light(CellTurns(i, l, c))
           /\ \A a \in CellTurns(i, l, c) :
                /\ a \in AllowedTurns(i) /\ a.from \in node_filters[i] /\ a.to \in node_filters[i]
                /\ GetCell(l, a.from) = c /\ GetCell(l, a.to) = c
<1> DEFINE A == CellTurns(i, l, c)
<1>1. \A a \in A : a \in AllowedTurns(i) /\ GetCell(l, a.from) = c /\ GetCell(l, a.to) = c
  BY DEF CellTurns
<1> HIDE DEF A
<1>2. \A a \in A : /\ a.from \in Nodes /\ a.to \in Nodes /\ a.weight \in Nat \ {0}
                   /\ 2 * N * a.weight < INVALID_EDGE_WEIGHT
                   /\ a.from \in node_filters[i] /\ a.to \in node_filters[i]
  BY <1>1, TurnEnds
<1>3. IsArcSet(A)
  BY <1>2 DEF IsArcSet
<1>4. Light(A)
  BY <1>2, <1>3, LightArcs
<1> QED BY <1>1, <1>2, <1>3, <1>4 DEF A

\* A node at the border of a cell is at the border of its sub-cell.
LEMMA BorderBelow ==
    ASSUME InputInv, NEW l \in 1 .. Levels, NEW n \in Nodes, IsBoundary(l, n)
    PROVE  n \in Border(l)
<1>1. CASE l = 1
  BY <1>1 DEF Border
<1>2. CASE l # 1
  <2>1. PICK e \in EdgesOf(n) : GetCell(l, e.to) # GetCell(l, n)
    BY DEF IsBoundary
  <2>2. e.to \in Nodes
    BY GraphEdges DEF EdgesOf, InputInv
  <2>3. l - 1 \in 1 .. Levels /\ l - 1 <= l
    BY <1>2, CustomizerAssumption
  <2>4. GetCell(l - 1, e.to) # GetCell(l - 1, n)
    BY <2>1, <2>2, <2>3, CellsNest
  <2>5. IsBoundary(l - 1, n)
    BY <2>4 DEF IsBoundary
  <2> QED BY <1>2, <2>5 DEF Border
<1> QED BY <1>1, <1>2

\* The search from a node at the border.
LEMMA CellProblem ==
    ASSUME InputInv, NEW i, NEW l \in 1 .. Levels, NEW c, NEW s \in Nodes, IsBoundary(l, s)
    PROVE  IsProblem(CellTurns(i, l, c), Sub(l), Border(l), s)
<1> DEFINE A == CellTurns(i, l, c)
<1>1. IsArcSet(A) /\ Light(A) /\ \A a \in A : a \in AllowedTurns(i)
  BY CellArcs
<1> HIDE DEF A
<1>2. Border(l) \subseteq Nodes /\ s \in Border(l)
  BY BorderBelow DEF Border
<1>3. ASSUME NEW a \in A, Crosses(Sub(l), a)
      PROVE  a.from \in Border(l) /\ a.to \in Border(l)
  <2>1. a.from \in Nodes /\ a.to \in Nodes
    BY <1>1 DEF IsArcSet
  <2>2. CASE l = 1
    BY <2>1, <2>2 DEF Border
  <2>3. CASE l # 1
    <3>1. l - 1 \in 1 .. Levels
      BY <2>3, CustomizerAssumption
    <3>2. GetCell(l - 1, a.from) # GetCell(l - 1, a.to)
      BY <1>3, <2>3 DEF Crosses, Sub, GetCell
    <3>3. IsBoundary(l - 1, a.from) /\ IsBoundary(l - 1, a.to)
      BY <1>1, <3>1, <3>2, TurnEnds
    <3> QED BY <2>1, <2>3, <3>3 DEF Border
  <2> QED BY <2>2, <2>3
<1> QED BY <1>1, <1>2, <1>3 DEF IsProblem, A

\* Inside a sub-cell of the cell are the turns of the sub-cell.
LEMMA SubcellTurns ==
    ASSUME InputInv, NEW i, NEW l \in 1 .. Levels, l # 1, NEW n \in Nodes
    PROVE  /\ l - 1 \in 1 .. Levels /\ Sub(l)[n] = GetCell(l - 1, n)
           /\ InSub(CellTurns(i, l, GetCell(l, n)), Sub(l), Sub(l)[n]) = CellTurns(i, l - 1, GetCell(l - 1, n))
<1>1. l - 1 \in 1 .. Levels /\ l - 1 <= l
  BY CustomizerAssumption
<1>2. \A m : Sub(l)[m] = GetCell(l - 1, m)
  BY DEF Sub, GetCell
<1>3. ASSUME NEW a \in AllowedTurns(i), GetCell(l - 1, a.from) = GetCell(l - 1, n), GetCell(l - 1, a.to) = GetCell(l - 1, n)
      PROVE  GetCell(l, a.from) = GetCell(l, n) /\ GetCell(l, a.to) = GetCell(l, n)
  <2>1. a.from \in Nodes /\ a.to \in Nodes
    BY TurnEnds
  <2> QED BY <1>1, <1>3, <2>1, CellsNest
<1>4. InSub(CellTurns(i, l, GetCell(l, n)), Sub(l), Sub(l)[n]) = CellTurns(i, l - 1, GetCell(l - 1, n))
  BY <1>2, <1>3 DEF InSub, CellTurns
<1> QED BY <1>1, <1>2, <1>4

\* The row of a source holds distances; the loop over it passes over no destination that
\* can be reached, because destinations that are not allowed cannot.
RowWays(A, n, destinations) ==
    {[to |-> destinations[k], weight |-> DistancesFrom(A, n)[destinations[k]], clique |-> TRUE] :
        k \in {j \in DOMAIN destinations : DistancesFrom(A, n)[destinations[j]] # INVALID_EDGE_WEIGHT}}

\* The shortcuts of a node: none, or the distances in its row.
LEMMA SubcellShortcuts ==
    ASSUME InputInv, NEW i, NEW l \in 1 .. Levels, l # 1, NEW m, IsMetric(m),
           NEW n \in Nodes, n \in node_filters[i], CellExact(m, i, l - 1, GetCell(l - 1, n))
    PROVE  SubcellWays(m, l, n, node_filters[i]) =
             IF n \in ToSet(GetSourceNodes(l - 1, GetCell(l - 1, n)))
             THEN RowWays(CellTurns(i, l - 1, GetCell(l - 1, n)), n, GetDestinationNodes(l - 1, GetCell(l - 1, n)))
             ELSE {}
<1> DEFINE c == GetCell(l - 1, n)
           F == node_filters[i]
           A == CellTurns(i, l - 1, c)
           row == GetOutWeight(m, l - 1, n)
           dests == GetDestinationNodes(l - 1, c)
           D(k) == DistancesFrom(A, n)[dests[k]]
           INF == INVALID_EDGE_WEIGHT
           next(x, k) == IF row[k] = INF \/ dests[x + 1] \in F THEN x + 1 ELSE x
           Loop(f) == f = [k \in 0 .. Len(row) |-> IF k = 0 THEN 0 ELSE next(f[k - 1], k)]
           passed == CHOOSE f : Loop(f)
           to(k) == dests[passed[k - 1] + 1]
           ways == {[to |-> to(k), weight |-> row[k], clique |-> TRUE] :
                      k \in {j \in DOMAIN row : row[j] # INF /\ to(j) \in F}}
<1>1. SubcellWays(m, l, n, F) = ways
  BY DEF SubcellWays
<1>2. l - 1 \in 1 .. Levels
  BY CustomizerAssumption
<1>3. CASE n \notin ToSet(GetSourceNodes(l - 1, c))
  <2>1. row = <<>>
    BY <1>3 DEF GetOutWeight
  <2>2. DOMAIN row = {}
    BY <2>1
  <2> HIDE DEF row, to
  <2>3. ways = {}
    BY <2>2
  <2> QED BY <1>1, <1>3, <2>3
<1>4. CASE n \in ToSet(GetSourceNodes(l - 1, c))
  <2>1. row = m[l - 1][n] /\ row \in Seq(Nat) /\ DOMAIN row = DOMAIN dests
    BY <1>2, <1>4 DEF GetOutWeight, IsMetric
  <2>2. \A k \in DOMAIN dests : row[k] = D(k)
    BY <1>4, <2>1 DEF CellExact
  <2>3. dests \in Seq(Nodes) /\ IsArcSet(A)
    <3>1. dests \in Seq(Nodes)
      BY <1>2, CellLists
    <3>2. IsArcSet(A)
      BY <1>2, CellArcs
    <3> QED BY <3>1, <3>2
  <2>4. ASSUME NEW k \in DOMAIN dests, D(k) # INF PROVE dests[k] \in F
    <3>1. dests[k] \in Nodes
      BY <2>3
    <3>2. CASE dests[k] # n
      <4>1. PICK a \in A : a.to = dests[k]
        BY <2>3, <2>4, <3>1, <3>2, ReachedByArc
      <4> QED BY <1>2, <4>1, CellArcs
    <3> QED BY <3>2
  <2> DEFINE K == Len(row)
  <2>5. K \in Nat /\ DOMAIN row = 1 .. K
    BY <2>1
  <2> HIDE DEF row, dests, D, A, c, F, INF
  <2>6. \A k \in 1 .. K : row[k] # INF => dests[k] \in F
    BY <2>1, <2>2, <2>4, <2>5
  <2>7. \A k \in 1 .. K : next(k - 1, k) = k
    BY <2>6
  <2> HIDE DEF next
  <2>8. Loop([k \in 0 .. K |-> k])
    BY <2>5, <2>7
  <2>9. Loop(passed)
    <3> HIDE DEF Loop
    <3> QED BY <2>8
  <2> HIDE DEF passed
  <2> DEFINE S == {k \in 0 .. K : passed[k] = k}
  <2>10. passed[0] = 0 /\ \A k \in 1 .. K : passed[k] = next(passed[k - 1], k)
    BY <2>5, <2>9
  <2> HIDE DEF K
  <2>11. 0 \in S
    BY <2>5, <2>10
  <2>12. ASSUME NEW k \in 0 .. K, k < K, k \in S PROVE k + 1 \in S
    <3>1. k + 1 \in 1 .. K /\ k + 1 \in 0 .. K /\ (k + 1) - 1 = k
      BY <2>5, <2>12
    <3>2. passed[k] = k
      BY <2>12
    <3> QED BY <2>7, <2>10, <3>1, <3>2
  <2>13. 0 .. K \subseteq S
    <3> HIDE DEF S
    <3> QED BY <2>5, <2>11, <2>12, LoopInduction
  <2>14. \A k \in 1 .. K : to(k) = dests[k]
    <3>1. \A k \in 1 .. K : passed[k - 1] = k - 1 /\ (k - 1) + 1 = k
      BY <2>5, <2>13
    <3> QED BY <3>1
  <2> HIDE DEF to
  <2>15. ways = RowWays(A, n, dests)
    <3>1. {j \in DOMAIN row : row[j] # INF /\ to(j) \in F} = {j \in DOMAIN dests : D(j) # INF}
      BY <2>1, <2>2, <2>5, <2>6, <2>14
    <3>2. ways = {[to |-> dests[k], weight |-> D(k), clique |-> TRUE] : k \in {j \in DOMAIN dests : D(j) # INF}}
      BY <2>1, <2>2, <2>5, <2>14, <3>1
    <3> QED BY <3>2 DEF RowWays, D, INF
  <2> QED BY <1>1, <1>4, <2>15 DEF A, dests, c, F
<1> QED BY <1>3, <1>4

\* The edges that are relaxed from a node are the arcs of the cell that cross.
EdgeWays(l, n, allowed) ==
    {[to |-> e.to, weight |-> e.weight, clique |-> FALSE] :
        e \in {x \in GetInternalEdgeRange(l, n) : x.to \in allowed /\ x.forward /\ CrossesSubcells(l, n, x)}}

\* An edge is internal when it stays in the cell.
LEMMA InternalEdge ==
    ASSUME InputInv, NEW l \in 1 .. Levels, NEW n \in Nodes, NEW e \in EdgesOf(n), e.to \in Nodes
    PROVE  /\ e \in GetInternalEdgeRange(l, n) <=> GetCell(l, n) = GetCell(l, e.to)
           /\ n # e.to => (CrossesSubcells(l, n, e) <=> Sub(l)[n] # Sub(l)[e.to])
<1>1. e \in GetInternalEdgeRange(l, n) <=> ~(GetHighestDifferentLevel(n, e.to) >= l)
  BY DEF GetInternalEdgeRange, GetBorderEdgeRange
<1>2. e \in GetInternalEdgeRange(l, n) <=> GetCell(l, n) = GetCell(l, e.to)
  BY <1>1, HighestLevel
<1>3. n # e.to => (CrossesSubcells(l, n, e) <=> Sub(l)[n] # Sub(l)[e.to])
  BY DEF CrossesSubcells, Sub, GetCell
<1> QED BY <1>2, <1>3

\* Every way by an edge is an arc, and every arc has one.
LEMMA EdgeWaysAreArcs ==
    ASSUME InputInv, NEW i, NEW l \in 1 .. Levels, NEW n \in Nodes, n \in node_filters[i]
    PROVE  LET A == CellTurns(i, l, GetCell(l, n)) IN
           /\ EdgeWays(l, n, node_filters[i]) \subseteq Ways
           /\ \A w \in EdgeWays(l, n, node_filters[i]) :
                ~w.clique /\ \E a \in A : a.from = n /\ a.to = w.to /\ a.weight = w.weight /\ Crosses(Sub(l), a)
           /\ \A a \in A : a.from = n /\ Crosses(Sub(l), a) =>
                \E w \in EdgeWays(l, n, node_filters[i]) : w.to = a.to /\ w.weight <= a.weight
<1> DEFINE F == node_filters[i]
           c == GetCell(l, n)
           A == CellTurns(i, l, c)
           E == EdgeWays(l, n, F)
           way(e) == [to |-> e.to, weight |-> e.weight, clique |-> FALSE]
           out == {x \in GetInternalEdgeRange(l, n) : x.to \in F /\ x.forward /\ CrossesSubcells(l, n, x)}
<1>1. E = {way(e) : e \in out} /\ out \subseteq EdgesOf(n)
  BY DEF EdgeWays, GetInternalEdgeRange
<1>2. ASSUME NEW e \in out
      PROVE  \E a \in A : a.from = n /\ a.to = e.to /\ a.weight = e.weight /\ Crosses(Sub(l), a) /\ a.to \in Nodes /\ a.weight \in Nat
  <2>1. e \in EdgesOf(n) /\ e.to \in F /\ e.forward /\ CrossesSubcells(l, n, e) /\ e \in GetInternalEdgeRange(l, n)
    BY <1>1
  <2>2. e.to \in Nodes /\ e.to # n
    BY <2>1, EdgeTurn
  <2>3. PICK a \in AllowedTurns(i) : a.from = n /\ a.to = e.to /\ a.weight = e.weight
    BY <2>1, EdgeTurn
  <2>4. GetCell(l, n) = GetCell(l, e.to) /\ Sub(l)[n] # Sub(l)[e.to]
    BY <2>1, <2>2, InternalEdge
  <2>5. a \in A /\ Crosses(Sub(l), a)
    BY <2>3, <2>4 DEF CellTurns, Crosses
  <2>6. a.weight \in Nat
    BY TurnEnds
  <2> QED BY <2>2, <2>3, <2>5, <2>6
<1>3. ASSUME NEW w \in E
      PROVE  /\ w \in Ways /\ ~w.clique
             /\ \E a \in A : a.from = n /\ a.to = w.to /\ a.weight = w.weight /\ Crosses(Sub(l), a)
  <2>1. PICK e \in out : w = way(e)
    <3> HIDE DEF out, E, way
    <3> QED BY <1>1
  <2> HIDE DEF out, A, E
  <2>2. PICK a \in A : a.from = n /\ a.to = e.to /\ a.weight = e.weight /\ Crosses(Sub(l), a) /\ a.to \in Nodes /\ a.weight \in Nat
    BY <1>2
  <2>3. w.to = e.to /\ w.weight = e.weight /\ ~w.clique
    BY <2>1
  <2>4. w \in Ways
    BY <2>1, <2>2 DEF Ways
  <2> QED BY <2>2, <2>3, <2>4
<1>4. ASSUME NEW a \in A, a.from = n, Crosses(Sub(l), a)
      PROVE  \E w \in E : w.to = a.to /\ w.weight <= a.weight
  <2>1. a \in AllowedTurns(i) /\ a.to \in F /\ GetCell(l, a.to) = c /\ a.to \in Nodes /\ a.to # n
    BY <1>4, CellArcs, TurnEnds
  <2>2. PICK e \in EdgesOf(n) : e.to = a.to /\ e.forward /\ e.weight <= a.weight
    BY <1>4, <2>1, TurnEnds
  <2>3. e \in GetInternalEdgeRange(l, n) /\ CrossesSubcells(l, n, e)
    BY <1>4, <2>1, <2>2, InternalEdge DEF Crosses
  <2>4. e \in out
    BY <2>1, <2>2, <2>3
  <2>5. way(e) \in E
    <3> HIDE DEF out, E, way
    <3> QED BY <1>1, <2>4
  <2>6. way(e).to = a.to /\ way(e).weight <= a.weight
    BY <2>2
  <2> HIDE DEF E, way
  <2> QED BY <2>5, <2>6
<1>5. E \subseteq Ways
  BY <1>3
<1> HIDE DEF E, A
<1> QED BY <1>3, <1>4, <1>5 DEF E, A

\* The shortcuts of a node at the border join it with all nodes at the border that it
\* reaches inside its sub-cell.
LEMMA ShortcutsAreJoins ==
    ASSUME InputInv, NEW i, NEW l \in 1 .. Levels, l # 1, NEW m, IsMetric(m),
           NEW n \in Nodes, n \in node_filters[i], n \in Border(l), CellExact(m, i, l - 1, GetCell(l - 1, n))
    PROVE  LET A == CellTurns(i, l, GetCell(l, n))
               ways == SubcellWays(m, l, n, node_filters[i]) IN
           /\ ways \subseteq Ways
           /\ \A w \in ways : /\ w.clique /\ Joined(A, Sub(l), Border(l), n, w.to)
                              /\ w.weight = SubDistance(A, Sub(l), n, w.to)
           /\ \A v \in Nodes : v # n /\ Joined(A, Sub(l), Border(l), n, v) =>
                \E w \in ways : w.to = v /\ w.weight <= SubDistance(A, Sub(l), n, v)
<1> DEFINE F == node_filters[i]
           A == CellTurns(i, l, GetCell(l, n))
           c == GetCell(l - 1, n)
           B == CellTurns(i, l - 1, c)
           sources == GetSourceNodes(l - 1, c)
           dests == GetDestinationNodes(l - 1, c)
           ways == SubcellWays(m, l, n, F)
           D(v) == DistancesFrom(B, n)[v]
           INF == INVALID_EDGE_WEIGHT
           way(k) == [to |-> dests[k], weight |-> D(dests[k]), clique |-> TRUE]
<1>1. /\ l - 1 \in 1 .. Levels /\ InSub(A, Sub(l), Sub(l)[n]) = B
      /\ \A v \in Nodes : Sub(l)[v] = GetCell(l - 1, v)
  BY SubcellTurns
<1>2. \A v : SubDistance(A, Sub(l), n, v) = D(v)
  BY <1>1 DEF SubDistance
<1>3. dests \in Seq(Nodes) /\ DOMAIN dests = 1 .. Len(dests)
  BY <1>1, CellLists
<1>4. \A v : v \in ToSet(dests) <=> /\ v \in Nodes /\ GetCell(l - 1, v) = c /\ IsBoundary(l - 1, v)
                                    /\ LeadsInside(l - 1, v) => ReachedInside(l - 1, v)
  BY <1>1, CellLists
<1>5. n \in ToSet(sources) <=> IsBoundary(l - 1, n) /\ LeadsInside(l - 1, n)
  BY <1>1, CellLists
<1>6. IsBoundary(l - 1, n) /\ IsArcSet(B)
  BY <1>1, CellArcs DEF Border
<1>7. ways = IF n \in ToSet(sources) THEN RowWays(B, n, dests) ELSE {}
  BY SubcellShortcuts
<1>8. RowWays(B, n, dests) = {way(k) : k \in {j \in DOMAIN dests : D(dests[j]) # INF}}
  BY DEF RowWays
<1>9. \A v \in Nodes : D(v) \in Nat
  BY <1>6, DistanceTypes
<1> HIDE DEF ways, dests, sources, A, B, c, D, INF
<1>10. ASSUME NEW w \in ways
       PROVE  /\ w \in Ways /\ w.clique /\ Joined(A, Sub(l), Border(l), n, w.to)
              /\ w.weight = SubDistance(A, Sub(l), n, w.to)
  <2>1. PICK k \in DOMAIN dests : w = way(k) /\ D(dests[k]) # INF
    <3> HIDE DEF way
    <3> QED BY <1>7, <1>8
  <2>2. dests[k] \in ToSet(dests)
    BY DEF ToSet
  <2>3. dests[k] \in Nodes /\ GetCell(l - 1, dests[k]) = c /\ IsBoundary(l - 1, dests[k])
    BY <1>4, <2>2
  <2>4. w.to = dests[k] /\ w.weight = D(dests[k]) /\ w.clique
    BY <2>1
  <2>5. w \in Ways
    BY <1>9, <2>1, <2>3 DEF Ways
  <2>6. Joined(A, Sub(l), Border(l), n, dests[k])
    BY <1>1, <1>2, <2>1, <2>3 DEF Joined, Border, c, INF
  <2> QED BY <1>2, <2>4, <2>5, <2>6
<1>11. ASSUME NEW v \in Nodes, v # n, Joined(A, Sub(l), Border(l), n, v)
       PROVE  \E w \in ways : w.to = v /\ w.weight <= SubDistance(A, Sub(l), n, v)
  <2>1. D(v) # INF /\ GetCell(l - 1, v) = c /\ IsBoundary(l - 1, v)
    BY <1>1, <1>2, <1>11 DEF Joined, Border, c, INF
  <2>2. PICK a \in B : a.from = n
    BY <1>6, <1>11, <2>1, LeavesByArc DEF D, INF
  <2>3. PICK b \in B : b.to = v
    BY <1>6, <1>11, <2>1, ReachedByArc DEF D, INF
  <2>4. /\ a \in AllowedTurns(i) /\ b \in AllowedTurns(i)
        /\ GetCell(l - 1, a.from) = GetCell(l - 1, a.to) /\ GetCell(l - 1, b.from) = GetCell(l - 1, b.to)
    BY DEF B, CellTurns
  <2>5. LeadsInside(l - 1, n) /\ ReachedInside(l - 1, v)
    BY <1>1, <2>2, <2>3, <2>4, TurnEnds
  <2>6. n \in ToSet(sources) /\ v \in ToSet(dests)
    BY <1>4, <1>5, <1>6, <2>1, <2>5
  <2>7. PICK k \in DOMAIN dests : dests[k] = v
    BY <2>6 DEF ToSet
  <2>8. way(k) \in ways
    <3> HIDE DEF way
    <3> QED BY <1>7, <1>8, <2>1, <2>6, <2>7
  <2>9. way(k).to = v /\ way(k).weight = D(v) /\ D(v) \in Nat
    BY <1>9, <2>7
  <2>10. way(k).weight <= SubDistance(A, Sub(l), n, v)
    BY <1>2, <2>9
  <2> HIDE DEF way
  <2> QED BY <2>8, <2>9, <2>10
<1>12. ways \subseteq Ways
  BY <1>10
<1> QED BY <1>10, <1>11, <1>12 DEF ways, A, F

\* A node that a search may settle, with exact rows in its sub-cell, and what relaxing it does.
Relaxable(m, i, l, n) ==
    /\ IsMetric(m) /\ n \in Nodes /\ n \in node_filters[i] /\ n \in Border(l)
    /\ l # 1 => CellExact(m, i, l - 1, GetCell(l - 1, n))

Relaxes(m, i, l, h, n) ==
    \E ways : /\ RelaxNode(m, l, h, n, node_filters[i]) = insertOrUpdate(h, n, ways)
              /\ AreWays(ways, CellTurns(i, l, GetCell(l, n)), Sub(l), Border(l), n, h.clique[n])

\* The ways on from a node are those of the search.
LEMMA NodeWays ==
    ASSUME InputInv, NEW i, NEW l \in 1 .. Levels, NEW m, NEW n, Relaxable(m, i, l, n),
           NEW h, h.clique[n] \in BOOLEAN
    PROVE  Relaxes(m, i, l, h, n)
<1> USE DEF Relaxable
<1> DEFINE F == node_filters[i]
           A == CellTurns(i, l, GetCell(l, n))
           shortcuts == IF l = 1 \/ h.clique[n] THEN {} ELSE SubcellWays(m, l, n, F)
           edges == EdgeWays(l, n, F)
           ways == shortcuts \cup edges
<1>1. RelaxNode(m, l, h, n, F) = insertOrUpdate(h, n, ways)
  BY DEF RelaxNode, EdgeWays
<1>2. /\ edges \subseteq Ways
      /\ \A w \in edges : ~w.clique /\ \E a \in A : a.from = n /\ a.to = w.to /\ a.weight = w.weight /\ Crosses(Sub(l), a)
      /\ \A a \in A : a.from = n /\ Crosses(Sub(l), a) => \E w \in edges : w.to = a.to /\ w.weight <= a.weight
  BY EdgeWaysAreArcs
<1>3. l = 1 => \A v \in Nodes : Joined(A, Sub(l), Border(l), n, v) => v = n
  BY DEF Joined, Sub
<1>4. l # 1 =>
        /\ SubcellWays(m, l, n, F) \subseteq Ways
        /\ \A w \in SubcellWays(m, l, n, F) : /\ w.clique /\ Joined(A, Sub(l), Border(l), n, w.to)
                                             /\ w.weight = SubDistance(A, Sub(l), n, w.to)
        /\ \A v \in Nodes : v # n /\ Joined(A, Sub(l), Border(l), n, v) =>
             \E w \in SubcellWays(m, l, n, F) : w.to = v /\ w.weight <= SubDistance(A, Sub(l), n, v)
  BY ShortcutsAreJoins
<1> HIDE DEF A, edges
<1>5. AreWays(ways, A, Sub(l), Border(l), n, h.clique[n])
  <2>1. ways \subseteq Ways
    BY <1>2, <1>4
  <2>2. ASSUME NEW w \in ways
        PROVE  \/ ~w.clique /\ \E a \in A : a.from = n /\ a.to = w.to /\ a.weight = w.weight /\ Crosses(Sub(l), a)
               \/ w.clique /\ Joined(A, Sub(l), Border(l), n, w.to) /\ w.weight = SubDistance(A, Sub(l), n, w.to)
    BY <1>2, <1>4
  <2>3. ~h.clique[n] => \A v \in Nodes : v # n /\ Joined(A, Sub(l), Border(l), n, v) =>
                    \E w \in ways : w.to = v /\ w.weight <= SubDistance(A, Sub(l), n, v)
    BY <1>3, <1>4
  <2>4. \A a \in A : a.from = n /\ Crosses(Sub(l), a) => \E w \in ways : w.to = a.to /\ w.weight <= a.weight
    BY <1>2
  <2> HIDE DEF ways
  <2> QED BY <2>1, <2>2, <2>3, <2>4 DEF AreWays
<1> QED BY <1>1, <1>5 DEF A, F, Relaxes

-----------------------------------------------------------------------------
(***************************************************************************)
(* The search to its end.                                                  *)
(***************************************************************************)
\* The state x of the search from s for the nodes `goal` after k turns.
Exploring(x, k, A, sub, border, s, goal) ==
    /\ x = [heap |-> x.heap, left |-> x.left] /\ x.left \subseteq Nodes
    /\ x.heap.parent \in [Known(x.heap) -> Nodes]
    /\ SearchInv(x.heap, A, sub, border, s)
    /\ goal \subseteq x.left \cup Done(x.heap)
    /\ x.heap.open = {} \/ x.left = {} \/ Cardinality(Done(x.heap)) = k

\* A turn of the search.
ExploreTurn(m, l, x, allowed) ==
    LET node == CHOOSE n \in MinNodes(x.heap) : TRUE
    IN  IF x.heap.open = {} \/ x.left = {} THEN x
        ELSE [heap |-> RelaxNode(m, l, DeleteMin(x.heap, node), node, allowed), left |-> x.left \ {node}]

\* Parents are nodes.
LEMMA InsertParents ==
    ASSUME NEW h, h.parent \in [Known(h) -> Nodes], NEW n \in Nodes, NEW ways
    PROVE  insertOrUpdate(h, n, ways).parent \in [Known(insertOrUpdate(h, n, ways)) -> Nodes]
<1> DEFINE r == insertOrUpdate(h, n, ways)
           reached == {w.to : w \in ways}
           better(v) == v \in reached /\ (v \in Known(h) => h.key[n] + Cheapest(ways, v) < h.key[v])
<1>1. Known(r) = Known(h) \cup reached
  BY DEF insertOrUpdate, Known
<1>2. r.parent = [v \in Known(h) \cup reached |-> IF better(v) THEN n ELSE h.parent[v]]
  BY DEF insertOrUpdate, Known
<1>3. \A v \in Known(h) \cup reached : (IF better(v) THEN n ELSE h.parent[v]) \in Nodes
  BY Zenon
<1> HIDE DEF r, better, reached
<1> QED BY <1>1, <1>2, <1>3 DEF r

\* There is a node with the least key.
LEMMA MinNodesExist ==
    ASSUME NEW h, HeapTypes(h), h.open # {}
    PROVE  \E n \in MinNodes(h) : TRUE
<1> DEFINE S == {h.key[x] : x \in h.open}
<1>1. S \subseteq Nat /\ S # {}
  BY DEF HeapTypes
<1>2. Least(S) \in S
  <2> HIDE DEF S
  <2> QED BY <1>1, LeastElement
<1>3. PICK n \in h.open : h.key[n] = Least(S)
  BY <1>2
<1> QED BY <1>3 DEF MinNodes, MinKey

\* s is a boundary node of a cell whose sub-cells have exact rows.
Explorable(m, i, l, s) ==
    /\ InputInv /\ l \in 1 .. Levels /\ IsMetric(m)
    /\ s \in Nodes /\ s \in node_filters[i] /\ IsBoundary(l, s)
    /\ \A n \in Nodes : l # 1 => CellExact(m, i, l - 1, GetCell(l - 1, n))

\* A turn of the search settles a node or finds the search over.
LEMMA ExploreTurns ==
    ASSUME NEW i, NEW l, NEW m, NEW s, Explorable(m, i, l, s),
           NEW x, NEW goal, NEW k \in Nat,
           Exploring(x, k, CellTurns(i, l, GetCell(l, s)), Sub(l), Border(l), s, goal)
    PROVE  Exploring(ExploreTurn(m, l, x, node_filters[i]), k + 1,
                     CellTurns(i, l, GetCell(l, s)), Sub(l), Border(l), s, goal)
<1> USE DEF Explorable
<1> DEFINE A == CellTurns(i, l, GetCell(l, s))
           F == node_filters[i]
           h == x.heap
           n == CHOOSE z \in MinNodes(h) : TRUE
           g == DeleteMin(h, n)
           r == RelaxNode(m, l, g, n, F)
           y == ExploreTurn(m, l, x, F)
<1>1. IsProblem(A, Sub(l), Border(l), s) /\ IsArcSet(A)
  BY CellProblem, CellArcs
<1>2. SearchInv(h, A, Sub(l), Border(l), s) /\ HeapTypes(h)
  BY DEF Exploring, SearchInv
<1>3. \A a \in A : a.to \in F /\ GetCell(l, a.to) = GetCell(l, s)
  <2>1. \A a \in A : a.to \in F
    BY CellArcs
  <2>2. \A a \in A : GetCell(l, a.to) = GetCell(l, s)
    BY DEF CellTurns
  <2> QED BY <2>1, <2>2
<1>4. CASE h.open = {} \/ x.left = {}
  <2>1. y = x
    BY <1>4 DEF ExploreTurn
  <2> QED BY <1>4, <2>1 DEF Exploring
<1>5. CASE ~(h.open = {} \/ x.left = {})
  <2>1. n \in MinNodes(h)
    BY <1>2, <1>5, MinNodesExist
  <2> HIDE DEF n
  <2>2. y = [heap |-> r, left |-> x.left \ {n}]
    BY <1>5 DEF ExploreTurn, n
  <2>3. n \in h.open /\ n \in Known(h) /\ n \in Nodes /\ n \in Border(l) /\ h.clique[n] \in BOOLEAN
    BY <1>2, <2>1 DEF MinNodes, HeapTypes, SearchInv
  <2>4. g.key = h.key /\ g.clique = h.clique /\ g.parent = h.parent /\ Known(g) = Known(h)
    BY <1>2 DEF HeapTypes, DeleteMin, Known
  <2>5. n \in F /\ GetCell(l, n) = GetCell(l, s)
    <3>1. CASE n = s
      BY <3>1
    <3>2. CASE n # s
      <4>1. DistancesFrom(A, s)[n] # INVALID_EDGE_WEIGHT
        BY <1>2, <2>3 DEF SearchInv, NeverShorter
      <4>2. PICK a \in A : a.to = n
        <5> HIDE DEF A
        <5> QED BY <1>1, <2>3, <3>2, <4>1, ReachedByArc
      <4> QED BY <1>3, <4>2
    <3> QED BY <3>1, <3>2
  <2> HIDE DEF g
  <2>6. \E ways : /\ r = insertOrUpdate(g, n, ways)
                  /\ AreWays(ways, CellTurns(i, l, GetCell(l, n)), Sub(l), Border(l), n, g.clique[n])
    <3>1. Relaxable(m, i, l, n)
      BY <2>3, <2>5 DEF Relaxable
    <3>2. g.clique[n] \in BOOLEAN
      BY <2>3, <2>4
    <3>3. Relaxes(m, i, l, g, n)
      BY <3>1, <3>2, NodeWays
    <3> QED BY <3>3 DEF Relaxes
  <2>7. PICK ways : /\ r = insertOrUpdate(g, n, ways)
                    /\ AreWays(ways, A, Sub(l), Border(l), n, h.clique[n])
    BY <2>4, <2>5, <2>6
  <2> HIDE DEF r, A
  <2>8. SearchInv(r, A, Sub(l), Border(l), s) /\ Done(r) = Done(h) \cup {n}
    BY <1>1, <1>2, <2>1, <2>7, SearchStep DEF g
  <2>9. r.parent \in [Known(r) -> Nodes]
    BY <2>3, <2>4, <2>7, InsertParents DEF Exploring
  <2>10. Cardinality(Done(r)) = k + 1
    <3>1. IsFiniteSet(Done(h)) /\ n \notin Done(h)
      <4>1. IsFiniteSet(Nodes) /\ Done(h) \subseteq Nodes
        BY <1>2, NAssumption, FS_Interval DEF Nodes, HeapTypes, Done
      <4> QED BY <2>3, <4>1, FS_Subset DEF Done
    <3>2. Cardinality(Done(h)) = k
      BY <1>5 DEF Exploring, A
    <3> QED BY <2>8, <3>1, <3>2, FS_AddElement
  <2>11. y.heap = r /\ y.left = x.left \ {n} /\ y = [heap |-> y.heap, left |-> y.left]
    BY <2>2
  <2>12. goal \subseteq x.left \cup Done(h) /\ x.left \subseteq Nodes
    BY DEF Exploring
  <2> HIDE DEF y
  <2>13. Exploring(y, k + 1, A, Sub(l), Border(l), s, goal)
    BY <2>8, <2>9, <2>10, <2>11, <2>12 DEF Exploring
  <2> QED BY <2>13 DEF y, A
<1> QED BY <1>4, <1>5

\* The search has found the source, and nothing else.
LEMMA ExploreStarts ==
    ASSUME NEW i, NEW l, NEW m, NEW s, Explorable(m, i, l, s), NEW goal, goal \subseteq Nodes
    PROVE  Exploring([heap |-> StartHeap([n \in {s} |-> 0]), left |-> goal], 0,
                     CellTurns(i, l, GetCell(l, s)), Sub(l), Border(l), s, goal)
<1> DEFINE A == CellTurns(i, l, GetCell(l, s))
           h == StartHeap([n \in {s} |-> 0])
           x == [heap |-> h, left |-> goal]
<1>1. /\ Known(h) = {s} /\ h.open = {s} /\ h.key[s] = 0 /\ h.clique[s] = FALSE /\ h.parent[s] = s
      /\ h.key = [n \in {s} |-> 0] /\ h.parent = [n \in {s} |-> n] /\ h.clique = [n \in {s} |-> FALSE]
      /\ h = [key |-> h.key, parent |-> h.parent, clique |-> h.clique, open |-> h.open]
  BY DEF StartHeap, Known
<1>2. s \in Nodes /\ s \in Border(l)
  BY BorderBelow DEF Explorable
<1>3. IsArcSet(A)
  BY CellArcs DEF Explorable
<1>4. DistancesFrom(A, s)[s] = 0 /\ INVALID_EDGE_WEIGHT # 0
  BY <1>2, <1>3, DistanceTypes, InvalidWeight
<1> HIDE DEF h, A
<1>5. Done(h) = {}
  BY <1>1 DEF Done
<1>6. HeapTypes(h)
  <2>1. h.key \in [Known(h) -> Nat] /\ h.clique \in [Known(h) -> BOOLEAN]
    BY <1>1
  <2> QED BY <1>1, <1>2, <2>1 DEF HeapTypes
<1>7. NeverShorter(h, A, s)
  BY <1>1, <1>4 DEF NeverShorter
<1>8. ReachedByShortcut(h, A, Sub(l))
  BY <1>1 DEF ReachedByShortcut
<1>9. InOrder(h) /\ ArcsFollowed(h, A, Sub(l)) /\ ShortcutsFollowed(h, A, Sub(l), Border(l))
  BY <1>5 DEF InOrder, ArcsFollowed, ShortcutsFollowed
<1>10. SearchInv(h, A, Sub(l), Border(l), s)
  BY <1>1, <1>2, <1>6, <1>7, <1>8, <1>9 DEF SearchInv
<1>11. h.parent \in [Known(h) -> Nodes]
  BY <1>1, <1>2
<1>12. Cardinality(Done(h)) = 0
  BY <1>5, FS_EmptySet
<1>13. x.heap = h /\ x.left = goal /\ x = [heap |-> x.heap, left |-> x.left]
  OBVIOUS
<1> HIDE DEF x
<1> QED BY <1>10, <1>11, <1>12, <1>13 DEF Exploring, x, h, A

\* The heaps there are.
OnNodes(S) == UNION {[T -> S] : T \in SUBSET Nodes}

Heaps == [key : OnNodes(Nat), parent : OnNodes(Nodes), clique : OnNodes(BOOLEAN), open : SUBSET Nodes]

\* States of the search are made of them.
LEMMA ExploringTypes ==
    ASSUME NEW x, NEW k, NEW A, NEW sub, NEW border, NEW s, NEW goal, Exploring(x, k, A, sub, border, s, goal)
    PROVE  x \in [heap : Heaps, left : SUBSET Nodes]
<1> DEFINE h == x.heap
<1>1. HeapTypes(h) /\ h.parent \in [Known(h) -> Nodes]
  BY DEF Exploring, SearchInv
<1>2. h.key \in OnNodes(Nat) /\ h.clique \in OnNodes(BOOLEAN) /\ h.parent \in OnNodes(Nodes) /\ h.open \in SUBSET Nodes
  <2>1. Known(h) \in SUBSET Nodes /\ h.open \in SUBSET Nodes
    BY <1>1 DEF HeapTypes
  <2>2. h.key \in [Known(h) -> Nat] /\ h.clique \in [Known(h) -> BOOLEAN]
    BY <1>1 DEF HeapTypes
  <2> QED BY <1>1, <2>1, <2>2 DEF OnNodes
<1>3. h = [key |-> h.key, parent |-> h.parent, clique |-> h.clique, open |-> h.open]
  BY <1>1 DEF HeapTypes
<1>4. h \in Heaps
  <2> HIDE DEF h
  <2> QED BY <1>2, <1>3 DEF Heaps
<1>5. x = [heap |-> x.heap, left |-> x.left] /\ x.left \in SUBSET Nodes
  BY DEF Exploring
<1> QED BY <1>4, <1>5

\* The search ends with the goal settled or nothing left to settle.
LEMMA ExploreEnds ==
    ASSUME NEW i, NEW l, NEW m, NEW s, Explorable(m, i, l, s), NEW goal, goal \subseteq Nodes
    PROVE  LET h == explore(m, l, s, goal, node_filters[i])
           IN  /\ SearchInv(h, CellTurns(i, l, GetCell(l, s)), Sub(l), Border(l), s)
               /\ h.open = {} \/ goal \subseteq Done(h)
<1> DEFINE F == node_filters[i]
           A == CellTurns(i, l, GetCell(l, s))
           Ok(x, k) == Exploring(x, k, A, Sub(l), Border(l), s, goal)
           start == [heap |-> StartHeap([n \in {s} |-> 0]), left |-> goal]
           After(x, k) == ExploreTurn(m, l, x, F)
           Loop(f) == f = [k \in 0 .. N |-> IF k = 0 THEN start ELSE After(f[k - 1], k)]
           Runs(f) == /\ f = [k \in 0 .. N |-> f[k]] /\ f[0] = start
                      /\ \A k \in 1 .. N : f[k] = After(f[k - 1], k)
           D == [heap : Heaps, left : SUBSET Nodes]
           step == [p \in D \X (1 .. N) |-> After(p[1], p[2])]
           I == {p \in (0 .. N) \X D : Ok(p[2], p[1])}
           result == CHOOSE f : Loop(f)
<1>1. N \in Nat
  BY NAssumption
<1>2. explore(m, l, s, goal, F) = result[N].heap
  BY DEF explore, ExploreTurn
<1>3. ASSUME NEW k \in 1 .. N, NEW x \in D, <<k - 1, x>> \in I
      PROVE  <<k, After(x, k)>> \in I
  <2>1. k - 1 \in Nat /\ (k - 1) + 1 = k /\ k \in 0 .. N
    BY <1>1
  <2>2. Ok(x, k - 1)
    BY <1>3
  <2>3. Ok(After(x, k), k)
    BY <2>1, <2>2, ExploreTurns
  <2> HIDE DEF After
  <2>4. After(x, k) \in D
    BY <2>3, ExploringTypes
  <2> HIDE DEF Ok, D
  <2> QED BY <2>1, <2>3, <2>4
<1>4. <<0, start>> \in I
  <2>1. Ok(start, 0)
    BY ExploreStarts
  <2> HIDE DEF start
  <2>2. start \in D /\ 0 \in 0 .. N
    BY <1>1, <2>1, ExploringTypes
  <2> HIDE DEF Ok, D
  <2> QED BY <2>1, <2>2
<1>5. \A k \in 1 .. N : \A x \in D : step[<<x, k>>] = After(x, k)
  <2> HIDE DEF After, D
  <2> QED OBVIOUS
<1>6. LoopKeeps(N, D, I, start, step)
  <2>1. I \subseteq (0 .. N) \X D
    OBVIOUS
  <2> HIDE DEF I, step, D, After, start
  <2> QED BY <1>3, <1>4, <1>5, <2>1 DEF LoopKeeps
<1>7. PICK run : LoopRun(run, N, D, I, start, step)
  <2> HIDE DEF D, I, step, start
  <2> QED BY <1>1, <1>6, LoopRuns
<1>8. ASSUME NEW f PROVE Loop(f) <=> Runs(f)
  <2> HIDE DEF After, start
  <2> QED BY <1>1
<1>9. Loop(result)
  <2> HIDE DEF Loop, After, D, I, step, start
  <2>1. \A k \in 1 .. N : k - 1 \in 0 .. N
    BY <1>1
  <2>2. Runs(run)
    BY <1>5, <1>7, <2>1 DEF LoopRun
  <2> HIDE DEF Runs
  <2> QED BY <1>8, <2>2
<1>10. LoopRun(result, N, D, I, start, step)
  <2> HIDE DEF result, Loop, D, After, step, start
  <2>1. Runs(result)
    BY <1>8, <1>9
  <2>2. \A k \in 1 .. N : <<k - 1, result[k - 1]>> \in I => result[k] = step[<<result[k - 1], k>>]
    BY <1>1, <1>5, <2>1
  <2> HIDE DEF I
  <2> QED BY <1>1, <1>6, <2>1, <2>2, LoopInvariant
<1> DEFINE x == result[N]
           h == x.heap
<1>11. Ok(x, N)
  <2> HIDE DEF result, D, step, start, Ok
  <2>1. <<N, x>> \in I
    BY <1>1, <1>10 DEF LoopRun
  <2> QED BY <2>1
<1> HIDE DEF result, I, Loop, step, start, x
<1>12. SearchInv(h, A, Sub(l), Border(l), s) /\ goal \subseteq x.left \cup Done(h)
  BY <1>11 DEF Exploring
<1>13. CASE Cardinality(Done(h)) = N
  <2>1. h.open \subseteq Known(h) /\ Known(h) \subseteq Nodes /\ Done(h) \subseteq Nodes
    BY <1>12 DEF SearchInv, HeapTypes, Done
  <2>2. IsFiniteSet(Nodes) /\ Cardinality(Nodes) = N
    BY NAssumption, FS_Interval DEF Nodes
  <2>3. Done(h) = Nodes
    BY <1>1, <1>13, <2>1, <2>2, FS_Subset
  <2>4. h.open = {}
    BY <2>1, <2>3 DEF Done
  <2> QED BY <1>2, <1>12, <2>4 DEF x, A, F
<1>14. CASE h.open = {} \/ x.left = {}
  BY <1>2, <1>12, <1>14 DEF x, A, F
<1> QED BY <1>11, <1>13, <1>14 DEF Exploring

\* What the search leaves of a destination is its distance; those that are not allowed are
\* out of reach.
LEMMA RowExact ==
    ASSUME NEW i, NEW l, NEW m, NEW s, Explorable(m, i, l, s),
           NEW d \in ToSet(GetDestinationNodes(l, GetCell(l, s)))
    PROVE  LET h == explore(m, l, s, ToSet(GetDestinationNodes(l, GetCell(l, s))) \cap node_filters[i], node_filters[i])
           IN  (IF d \in DOMAIN h.key THEN h.key[d] ELSE INVALID_EDGE_WEIGHT)
                 = DistancesFrom(CellTurns(i, l, GetCell(l, s)), s)[d]
<1> DEFINE F == node_filters[i]
           c == GetCell(l, s)
           A == CellTurns(i, l, c)
           goal == ToSet(GetDestinationNodes(l, c)) \cap F
           h == explore(m, l, s, goal, F)
<1>1. InputInv /\ l \in 1 .. Levels /\ s \in Nodes /\ s \in F /\ IsBoundary(l, s)
  BY DEF Explorable
<1>2. goal \subseteq Nodes /\ d \in Nodes /\ IsBoundary(l, d)
  BY <1>1, CellLists
<1>3. SearchInv(h, A, Sub(l), Border(l), s) /\ (h.open = {} \/ goal \subseteq Done(h))
  <2> HIDE DEF goal
  <2> QED BY <1>2, ExploreEnds
<1>4. IsProblem(A, Sub(l), Border(l), s) /\ IsArcSet(A)
  BY <1>1, CellProblem, CellArcs
<1>5. d \in Border(l)
  BY <1>1, <1>2, BorderBelow
<1>6. \A a \in A : a.to \in F
  BY <1>1, CellArcs
<1> HIDE DEF A, h
<1>7. CASE d \in F
  <2>1. h.open = {} \/ d \in Done(h)
    BY <1>3, <1>7
  <2>2. (IF d \in Known(h) THEN h.key[d] ELSE INVALID_EDGE_WEIGHT) = DistancesFrom(A, s)[d]
    BY <1>3, <1>4, <1>5, <2>1, SearchExact
  <2> QED BY <2>2 DEF Known, h, A
<1>8. CASE d \notin F
  <2>1. DistancesFrom(A, s)[d] = INVALID_EDGE_WEIGHT
    <3>1. s # d
      BY <1>1, <1>8
    <3>2. ~ \E a \in A : a.to = d
      BY <1>6, <1>8
    <3> QED BY <1>1, <1>2, <1>4, <3>1, <3>2, ReachedByArc
  <2>2. d \notin Known(h)
    BY <1>3, <2>1 DEF SearchInv, NeverShorter
  <2> QED BY <2>1, <2>2 DEF Known, h, A
<1> QED BY <1>7, <1>8

\* A cell is exact after its turn, and no other cell loses its rows.
LEMMA CustomizeExact ==
    ASSUME InputInv, NEW i, NEW l \in 1 .. Levels, NEW m, IsMetric(m), NEW c \in Cells(l),
           \A x \in Nodes : l # 1 => CellExact(m, i, l - 1, GetCell(l - 1, x))
    PROVE  /\ IsMetric(Customize(m, l, c, node_filters[i]))
           /\ CellExact(Customize(m, l, c, node_filters[i]), i, l, c)
           /\ \A k \in 1 .. Levels : \A x \in Cells(k) :
                (k # l \/ x # c) /\ CellExact(m, i, k, x) => CellExact(Customize(m, l, c, node_filters[i]), i, k, x)
<1> DEFINE F == node_filters[i]
           dests == GetDestinationNodes(l, c)
           heap(s) == explore(m, l, s, ToSet(dests) \cap F, F)
           row(s) == [k \in DOMAIN dests |-> IF dests[k] \in DOMAIN heap(s).key THEN heap(s).key[dests[k]]
                                             ELSE INVALID_EDGE_WEIGHT]
           sources == ToSet(GetSourceNodes(l, c)) \cap F
           rows == [n \in Nodes |-> IF n \in sources THEN row(n) ELSE m[l][n]]
           r == Customize(m, l, c, F)
<1>1. r = [m EXCEPT ![l] = rows]
  BY DEF Customize
<1>2. /\ m \in [1 .. Levels -> [Nodes -> Seq(Nat)]]
      /\ \A k \in 1 .. Levels : \A n \in Nodes : DOMAIN m[k][n] = DOMAIN GetDestinationNodes(k, GetCell(k, n))
  BY DEF IsMetric
<1>3. dests \in Seq(Nodes)
  BY CellLists
<1>4. \A n \in sources : n \in Nodes /\ GetCell(l, n) = c /\ IsBoundary(l, n) /\ n \in F
  BY CellLists
<1>5. ASSUME NEW s \in sources
      PROVE  /\ \A k \in DOMAIN dests : row(s)[k] = DistancesFrom(CellTurns(i, l, c), s)[dests[k]]
             /\ row(s) \in Seq(Nat) /\ DOMAIN row(s) = DOMAIN dests
  <2>1. Explorable(m, i, l, s) /\ GetCell(l, s) = c /\ s \in Nodes
    BY <1>4 DEF Explorable
  <2>2. ASSUME NEW k \in DOMAIN dests
        PROVE  row(s)[k] = DistancesFrom(CellTurns(i, l, c), s)[dests[k]]
    <3> DEFINE d == dests[k]
               x == GetCell(l, s)
               h == explore(m, l, s, ToSet(GetDestinationNodes(l, x)) \cap node_filters[i], node_filters[i])
    <3>1. d \in ToSet(GetDestinationNodes(l, x))
      BY <2>1 DEF ToSet
    <3> HIDE DEF d
    <3>2. (IF d \in DOMAIN h.key THEN h.key[d] ELSE INVALID_EDGE_WEIGHT) = DistancesFrom(CellTurns(i, l, x), s)[d]
      BY <2>1, <3>1, RowExact
    <3>3. heap(s) = h /\ x = c
      BY <2>1
    <3> HIDE DEF h, x
    <3> HIDE DEF heap
    <3> QED BY <3>2, <3>3 DEF d
  <2>3. DOMAIN row(s) = DOMAIN dests /\ row(s) = [k \in DOMAIN dests |-> row(s)[k]]
    OBVIOUS
  <2> HIDE DEF row, dests
  <2>4. \A k \in DOMAIN dests : row(s)[k] \in Nat
    <3>1. \A k \in DOMAIN dests : dests[k] \in Nodes
      BY <1>3
    <3>2. IsArcSet(CellTurns(i, l, c))
      BY CellArcs
    <3>3. \A v \in Nodes : DistancesFrom(CellTurns(i, l, c), s)[v] \in Nat
      BY <2>1, <3>2, DistanceTypes
    <3> QED BY <2>2, <3>1, <3>3
  <2>5. DOMAIN dests = 1 .. Len(dests) /\ Len(dests) \in Nat
    BY <1>3
  <2>6. row(s) \in [1 .. Len(dests) -> Nat]
    BY <2>3, <2>4, <2>5
  <2>7. row(s) \in Seq(Nat)
    BY <2>5, <2>6, SeqOfFunction
  <2> QED BY <2>2, <2>3, <2>7
<1> HIDE DEF row
<1>6. /\ rows \in [Nodes -> Seq(Nat)]
      /\ \A n \in Nodes : DOMAIN rows[n] = DOMAIN GetDestinationNodes(l, GetCell(l, n))
  <2> HIDE DEF sources
  <2>1. \A n \in Nodes : rows[n] \in Seq(Nat)
    BY <1>2, <1>5
  <2>2. rows \in [Nodes -> Seq(Nat)]
    BY <2>1
  <2>3. \A n \in Nodes : DOMAIN rows[n] = DOMAIN GetDestinationNodes(l, GetCell(l, n))
    BY <1>2, <1>4, <1>5
  <2> QED BY <2>2, <2>3
<1>7. r[l] = rows /\ \A k \in 1 .. Levels : k # l => r[k] = m[k]
  <2> HIDE DEF rows, r
  <2> QED BY <1>1, <1>2
<1>8. \A n \in sources : rows[n] = row(n)
  <2> HIDE DEF sources
  <2> QED BY <1>4
<1>9. \A n \in Nodes : n \notin sources => rows[n] = m[l][n]
  <2> HIDE DEF sources
  <2> QED OBVIOUS
<1>10. r \in [1 .. Levels -> [Nodes -> Seq(Nat)]]
  <2> HIDE DEF rows, r
  <2> QED BY <1>1, <1>2, <1>6
<1> HIDE DEF r, rows
<1>11. IsMetric(r)
  BY <1>2, <1>6, <1>7, <1>10 DEF IsMetric
<1>12. CellExact(r, i, l, c)
  <2> SUFFICES ASSUME NEW s \in sources, NEW k \in DOMAIN dests
               PROVE  r[l][s][k] = DistancesFrom(CellTurns(i, l, c), s)[dests[k]]
    BY DEF CellExact
  <2> HIDE DEF sources, dests
  <2> QED BY <1>5, <1>7, <1>8
<1>13. ASSUME NEW k \in 1 .. Levels, NEW x \in Cells(k), k # l \/ x # c, CellExact(m, i, k, x)
       PROVE  CellExact(r, i, k, x)
  <2>1. ASSUME NEW s \in ToSet(GetSourceNodes(k, x)) PROVE r[k][s] = m[k][s]
    <3>1. s \in Nodes /\ GetCell(k, s) = x
      BY CellLists
    <3>2. CASE k # l
      BY <1>7, <3>2
    <3>3. CASE k = l
      <4>1. s \notin sources
        BY <1>4, <1>13, <3>1, <3>3
      <4> HIDE DEF sources
      <4> QED BY <1>7, <1>9, <3>1, <3>3, <4>1
    <3> QED BY <3>2, <3>3
  <2> QED BY <1>13, <2>1 DEF CellExact
<1> QED BY <1>11, <1>12, <1>13 DEF r, F

-----------------------------------------------------------------------------
(***************************************************************************)
(* The customisation.                                                      *)
(***************************************************************************)
\* A metric without weights is one.
LEMMA EmptyMetric ==
    IsMetric(MakeMetric)
<1> DEFINE dests(l, n) == GetDestinationNodes(l, GetCell(l, n))
           row(l, n) == [i \in 1 .. Len(dests(l, n)) |-> INVALID_EDGE_WEIGHT]
<1>1. MakeMetric = [l \in 1 .. Levels |-> [n \in Nodes |-> row(l, n)]]
  BY DEF MakeMetric
<1>2. ASSUME NEW l \in 1 .. Levels, NEW n \in Nodes
      PROVE  row(l, n) \in Seq(Nat) /\ DOMAIN row(l, n) = DOMAIN dests(l, n)
  <2>1. dests(l, n) \in Seq(Nodes)
    BY CellLists
  <2> HIDE DEF dests
  <2>2. Len(dests(l, n)) \in Nat /\ DOMAIN dests(l, n) = 1 .. Len(dests(l, n))
    BY <2>1
  <2>3. row(l, n) \in [1 .. Len(dests(l, n)) -> Nat]
    BY InvalidWeight
  <2> QED BY <2>2, <2>3, SeqOfFunction
<1> HIDE DEF row
<1> QED BY <1>1, <1>2 DEF IsMetric

\* The customisation leaves its input alone, and with it all that is said about cells.
SameInput == UNCHANGED <<network, partition, node_filters, base>>

\* What holds of the cells before a step holds after it.
LEMMA SameCells ==
    ASSUME SameInput
    PROVE  /\ InputInv => InputInv'
           /\ \A l : Cells(l)' = Cells(l)
           /\ \A m : IsMetric(m) => IsMetric(m)'
           /\ \A m, i, l, c : CellExact(m, i, l, c)' <=> CellExact(m, i, l, c)
<1>1. /\ network' = network /\ partition' = partition /\ node_filters' = node_filters /\ base' = base
  BY DEF SameInput
<1>2. InputInv => InputInv'
  BY <1>1 DEF InputInv
<1>3. /\ \A l, n : GetCell(l, n)' = GetCell(l, n)
      /\ \A n : EdgesOf(n)' = EdgesOf(n)
  BY <1>1 DEF GetCell, EdgesOf
<1>4. \A l : Cells(l)' = Cells(l)
  BY <1>3 DEF Cells
<1>5. \A l, n : /\ IsBoundary(l, n)' <=> IsBoundary(l, n)
                /\ LeadsInside(l, n)' <=> LeadsInside(l, n)
                /\ ReachedInside(l, n)' <=> ReachedInside(l, n)
  BY <1>3 DEF IsBoundary, LeadsInside, ReachedInside
<1>6. \A l, c : /\ GetSourceNodes(l, c)' = GetSourceNodes(l, c)
                /\ GetDestinationNodes(l, c)' = GetDestinationNodes(l, c)
  BY <1>3, <1>5 DEF GetSourceNodes, GetDestinationNodes
<1>7. \A i : AllowedTurns(i)' = AllowedTurns(i)
  BY <1>1 DEF AllowedTurns
<1>8. \A i, l, c : CellTurns(i, l, c)' = CellTurns(i, l, c)
  BY <1>3, <1>7 DEF CellTurns
<1>9. \A m : IsMetric(m) => IsMetric(m)'
  BY <1>3, <1>6 DEF IsMetric
<1>10. \A m, i, l, c : CellExact(m, i, l, c)' <=> CellExact(m, i, l, c)
  BY <1>1, <1>6, <1>8 DEF CellExact
<1> QED BY <1>2, <1>4, <1>9, <1>10

\* A cell's turn keeps the invariant: it is exact now, and so are those that were.
LEMMA CustomizeCellKeeps ==
    ASSUME CustomizerInv, NEW c \in todo, CustomizeCell(c)
    PROVE  CustomizerInv'
<1> DEFINE i == Len(metrics) + 1
           C == Customize(metric, level, c, node_filters[i])
<1>1. /\ Len(metrics) < Len(node_filters)
      /\ SameInput /\ InputInv
      /\ level \in 1 .. Levels /\ c \in Cells(level) /\ IsMetric(metric) /\ todo \subseteq Cells(level)
      /\ metrics \in Seq([1 .. Levels -> [Nodes -> Seq(Nat)]]) /\ Len(metrics) \in Nat
  BY DEF CustomizerInv, CustomizeCell, SameInput
<1>2. /\ node_filters \in Seq(SUBSET Nodes) /\ Len(node_filters) \in Nat /\ Levels \in Nat \ {0}
  BY <1>1, CustomizerAssumption DEF InputInv
<1>3. \A l \in 1 .. Levels : \A x \in Cells(l) :
         l < level \/ (l = level /\ x \notin todo) => CellExact(metric, i, l, x)
  BY <1>1 DEF CustomizerInv
<1>4. \A k \in 1 .. Len(metrics) : \A l \in 1 .. Levels : \A x \in Cells(l) : CellExact(metrics[k], k, l, x)
  BY DEF CustomizerInv
<1>5. \A n \in Nodes : level # 1 => CellExact(metric, i, level - 1, GetCell(level - 1, n))
  <2> SUFFICES ASSUME NEW n \in Nodes, level # 1 PROVE CellExact(metric, i, level - 1, GetCell(level - 1, n))
    OBVIOUS
  <2>1. level - 1 \in 1 .. Levels /\ level - 1 < level
    BY <1>1, <1>2
  <2>2. GetCell(level - 1, n) \in Cells(level - 1)
    BY DEF Cells
  <2> QED BY <1>3, <2>1, <2>2
<1>6. /\ IsMetric(C) /\ CellExact(C, i, level, c)
      /\ \A l \in 1 .. Levels : \A x \in Cells(l) :
           (l # level \/ x # c) /\ CellExact(metric, i, l, x) => CellExact(C, i, l, x)
  BY <1>1, <1>5, CustomizeExact
<1>7. IF todo # {c}
      THEN todo' = todo \ {c} /\ metric' = C /\ level' = level /\ metrics' = metrics
      ELSE IF level < Levels
      THEN level' = level + 1 /\ todo' = Cells(level + 1) /\ metric' = C /\ metrics' = metrics
      ELSE metrics' = Append(metrics, C) /\ level' = 1 /\ todo' = Cells(1) /\ metric' = MakeMetric
  BY DEF CustomizeCell
<1> HIDE DEF C
<1>8. \A l \in 1 .. Levels : \A x \in Cells(l) :
         l < level \/ (l = level /\ x \notin todo \ {c}) => CellExact(C, i, l, x)
  BY <1>1, <1>3, <1>6
<1>9. /\ InputInv'
      /\ \A l : Cells(l)' = Cells(l)
      /\ \A m : IsMetric(m) => IsMetric(m)'
      /\ \A m, k, l, x : CellExact(m, k, l, x)' <=> CellExact(m, k, l, x)
  BY <1>1, SameCells
<1>10. node_filters' = node_filters
  BY <1>1 DEF SameInput
<1> SUFFICES
      /\ level' \in 1 .. Levels /\ todo' \subseteq Cells(level') /\ IsMetric(metric')
      /\ metrics' \in Seq([1 .. Levels -> [Nodes -> Seq(Nat)]]) /\ Len(metrics') <= Len(node_filters)
      /\ Len(metrics') < Len(node_filters) =>
           \A l \in 1 .. Levels : \A x \in Cells(l) :
              l < level' \/ (l = level' /\ x \notin todo') => CellExact(metric', Len(metrics') + 1, l, x)
      /\ \A k \in 1 .. Len(metrics') : \A l \in 1 .. Levels : \A x \in Cells(l) : CellExact(metrics'[k], k, l, x)
  BY <1>9, <1>10 DEF CustomizerInv
<1>11. CASE todo # {c}
  <2>1. todo' = todo \ {c} /\ metric' = C /\ level' = level /\ metrics' = metrics
    BY <1>7, <1>11
  <2> QED BY <1>1, <1>2, <1>4, <1>6, <1>8, <2>1
<1>12. CASE todo = {c} /\ level < Levels
  <2>1. level' = level + 1 /\ todo' = Cells(level + 1) /\ metric' = C /\ metrics' = metrics
    BY <1>7, <1>12
  <2>2. level' \in 1 .. Levels
    BY <1>1, <1>2, <1>12, <2>1
  <2>3. ASSUME NEW l \in 1 .. Levels, NEW x \in Cells(l), l < level' \/ (l = level' /\ x \notin todo')
        PROVE  CellExact(C, i, l, x)
    <3>1. l < level \/ l = level
      BY <1>1, <2>1, <2>3
    <3> QED BY <1>8, <1>12, <3>1
  <2> QED BY <1>1, <1>2, <1>4, <1>6, <2>1, <2>2, <2>3
<1>13. CASE todo = {c} /\ ~(level < Levels)
  <2>1. metrics' = Append(metrics, C) /\ level' = 1 /\ todo' = Cells(1) /\ metric' = MakeMetric
    BY <1>7, <1>13
  <2>2. level = Levels /\ 1 \in 1 .. Levels
    BY <1>1, <1>2, <1>13
  <2>3. C \in [1 .. Levels -> [Nodes -> Seq(Nat)]]
    BY <1>6 DEF IsMetric
  <2>4. /\ metrics' \in Seq([1 .. Levels -> [Nodes -> Seq(Nat)]]) /\ Len(metrics') = i
        /\ metrics'[i] = C /\ \A k \in 1 .. Len(metrics) : metrics'[k] = metrics[k]
    <3> DEFINE S == [1 .. Levels -> [Nodes -> Seq(Nat)]]
    <3> HIDE DEF S
    <3>1. metrics \in Seq(S) /\ C \in S
      BY <1>1, <2>3 DEF S
    <3>2. metrics' \in Seq(S) /\ Len(metrics') = i /\ metrics'[i] = C /\ \A k \in 1 .. Len(metrics) : metrics'[k] = metrics[k]
      BY <2>1, <3>1
    <3> QED BY <3>2 DEF S
  <2>5. ASSUME NEW l \in 1 .. Levels, NEW x \in Cells(l) PROVE CellExact(C, i, l, x)
    <3>1. l < level \/ l = level
      BY <1>1, <2>2
    <3> QED BY <1>8, <1>13, <3>1
  <2>6. ASSUME NEW k \in 1 .. Len(metrics'), NEW l \in 1 .. Levels, NEW x \in Cells(l)
        PROVE  CellExact(metrics'[k], k, l, x)
    <3>1. k \in 1 .. Len(metrics) \/ k = i
      BY <1>1, <2>4
    <3> QED BY <1>4, <2>4, <2>5, <3>1
  <2>7. ASSUME NEW l \in 1 .. Levels, NEW x \in Cells(l) PROVE ~(l < 1 \/ (l = 1 /\ x \notin Cells(1)))
    BY <1>2
  <2>8. Len(metrics') <= Len(node_filters)
    BY <1>1, <1>2, <2>4
  <2>9. IsMetric(metric')
    BY <2>1, EmptyMetric
  <2> QED BY <2>1, <2>2, <2>4, <2>6, <2>7, <2>8, <2>9
<1> QED BY <1>11, <1>12, <1>13

\* The finished cells of the level being customised, and all cells below it and of finished
\* filters, are exact, whatever order the cells of a level are taken in.
THEOREM CustomizerInvariant ==
    CustomizerSpec => []CustomizerInv
<1>1. CustomizerInit => CustomizerInv
  <2> SUFFICES ASSUME CustomizerInit PROVE CustomizerInv
    OBVIOUS
  <2>1. InputInv /\ level = 1 /\ todo = Cells(1) /\ metric = MakeMetric /\ metrics = <<>>
    BY DEF CustomizerInit, InputInv
  <2>2. Levels \in Nat \ {0} /\ node_filters \in Seq(SUBSET Nodes) /\ Len(node_filters) \in Nat
    BY <2>1, CustomizerAssumption DEF InputInv
  <2>3. IsMetric(metric)
    BY <2>1, EmptyMetric
  <2>4. metrics \in Seq([1 .. Levels -> [Nodes -> Seq(Nat)]]) /\ Len(metrics) = 0
    BY <2>1
  <2>5. \A l \in 1 .. Levels : \A c \in Cells(l) : ~(l < 1 \/ (l = 1 /\ c \notin Cells(1)))
    BY <2>2
  <2> QED BY <2>1, <2>2, <2>3, <2>4, <2>5 DEF CustomizerInv
<1>2. CustomizerInv /\ [CustomizerStep]_customizerVars => CustomizerInv'
  <2> SUFFICES ASSUME CustomizerInv, [CustomizerStep]_customizerVars PROVE CustomizerInv'
    OBVIOUS
  <2>1. CASE CustomizerStep
    BY <2>1, CustomizeCellKeeps DEF CustomizerStep
  <2>2. CASE UNCHANGED customizerVars
    <3>1. SameInput /\ level' = level /\ todo' = todo /\ metric' = metric /\ metrics' = metrics /\ node_filters' = node_filters
      BY <2>2 DEF customizerVars, SameInput
    <3>2. /\ InputInv => InputInv'
          /\ \A l : Cells(l)' = Cells(l)
          /\ \A m : IsMetric(m) => IsMetric(m)'
          /\ \A m, k, l, x : CellExact(m, k, l, x)' <=> CellExact(m, k, l, x)
      BY <3>1, SameCells
    <3> QED BY <3>1, <3>2 DEF CustomizerInv
  <2> QED BY <2>1, <2>2
<1> QED BY <1>1, <1>2, PTL DEF CustomizerSpec

\* A finished metric holds the shortest distances inside every cell of every level: what
\* cell_customizer.hpp computes level by level from the rows of the level below, with the
\* cells of a level in any order, is what a search in the whole cell would find.
THEOREM MetricsAreExact ==
    CustomizerSpec => []MetricExact
<1>1. CustomizerInv => MetricExact
  <2> SUFFICES ASSUME CustomizerInv, metrics # <<>> PROVE MetricExact
    BY DEF MetricExact
  <2>1. metrics \in Seq([1 .. Levels -> [Nodes -> Seq(Nat)]])
    BY DEF CustomizerInv
  <2>2. Len(metrics) \in 1 .. Len(metrics)
    <3> DEFINE S == [1 .. Levels -> [Nodes -> Seq(Nat)]]
    <3> HIDE DEF S
    <3>1. metrics \in Seq(S)
      BY <2>1 DEF S
    <3> QED BY <3>1
  <2> QED BY <2>2 DEF CustomizerInv, MetricExact
<1> QED BY <1>1, CustomizerInvariant, PTL
=============================================================================

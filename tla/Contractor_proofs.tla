------------------------- MODULE Contractor_proofs -------------------------
(***************************************************************************)
(* The invariant of the contraction, step by step, for every input graph,  *)
(* number of nodes and of threads, hash, search space and list of filters. *)
(***************************************************************************)
EXTENDS ContractorOps_proofs

-----------------------------------------------------------------------------
(***************************************************************************)
(* The order of the nodes in a round.                                      *)
(***************************************************************************)
\* Priorities are fractions with a positive denominator.
Fractions == {p \in Int \X Nat : p[2] > 0}

\* Two fractions that are the same number.
Equal(p, q) == p[1] * q[2] = q[1] * p[2]

\* Fractions are compared by cross-multiplication, which is transitive.
LEMMA FractionsTransitive ==
    ASSUME NEW p \in Fractions, NEW q \in Fractions, NEW r \in Fractions,
           Greater(p, q) \/ Equal(p, q), Greater(q, r) \/ Equal(q, r)
    PROVE  /\ Greater(p, q) \/ Greater(q, r) => Greater(p, r)
           /\ Equal(p, q) /\ Equal(q, r) => Equal(p, r)
<1> DEFINE a == p[1]
           b == p[2]
           c == q[1]
           d == q[2]
           e == r[1]
           f == r[2]
<1>1. /\ a \in Int /\ b \in Nat /\ b > 0 /\ c \in Int /\ d \in Nat /\ d > 0
      /\ e \in Int /\ f \in Nat /\ f > 0
  BY DEF Fractions
<1>2. /\ Greater(p, q) <=> a * d > c * b
      /\ Equal(p, q) <=> a * d = c * b
      /\ Greater(q, r) <=> c * f > e * d
      /\ Equal(q, r) <=> c * f = e * d
      /\ Greater(p, r) <=> a * f > e * b
      /\ Equal(p, r) <=> a * f = e * b
  BY DEF Greater, Equal
<1> HIDE DEF a, b, c, d, e, f
<1> DEFINE s == a * d
           t == c * b
           u == c * f
           v == e * d
           x == a * f
           y == e * b
<1>3. s \in Int /\ t \in Int /\ u \in Int /\ v \in Int /\ x \in Int /\ y \in Int
  BY ONLY <1>1
\* All terms over the common denominator.
<1>4. s * f = x * d /\ t * f = u * b /\ v * b = y * d
  BY ONLY <1>1
<1> HIDE DEF s, t, u, v, x, y
<1>5. s >= t /\ u >= v
  BY <1>2, <1>3 DEF s, t, u, v
<1>6. /\ s * f >= t * f /\ (s > t => s * f > t * f)
      /\ u * b >= v * b /\ (u > v => u * b > v * b)
  BY ONLY <1>1, <1>3, <1>5
<1> DEFINE sf == s * f
           tf == t * f
           vb == v * b
           xd == x * d
           yd == y * d
<1>7. sf \in Int /\ tf \in Int /\ vb \in Int /\ xd \in Int /\ yd \in Int
  BY ONLY <1>1, <1>3
<1>8. /\ sf = xd /\ vb = yd /\ sf >= tf /\ tf >= vb
      /\ s > t => sf > tf
      /\ u > v => tf > vb
      /\ s = t /\ u = v => sf = tf /\ tf = vb
  BY <1>4, <1>6
<1>9. (xd > yd => x > y) /\ (xd = yd => x = y)
  BY ONLY <1>1, <1>3
<1> HIDE DEF sf, tf, vb, xd, yd
<1>10. /\ s > t \/ u > v => x > y
       /\ s = t /\ u = v => x = y
  BY ONLY <1>7, <1>8, <1>9
<1> QED
  BY <1>2, <1>10 DEF s, t, u, v, x, y

\* Equal priorities tie, and two that tie are equal unless they nearly tie.
LEMMA TiesOfEquals ==
    ASSUME NEW p \in Fractions, NEW q \in Fractions
    PROVE  /\ Equal(p, q) => Tie(p, q) /\ Tie(q, p)
           /\ Tie(p, q) /\ ~ NearTie(p, q) => Equal(p, q)
           /\ Greater(p, q) \/ Greater(q, p) \/ Equal(p, q)
<1> DEFINE s == p[1] * q[2]
           t == q[1] * p[2]
           u == p[2] * q[2]
           v == q[2] * p[2]
<1>1. p[1] \in Int /\ p[2] \in Nat /\ p[2] > 0 /\ q[1] \in Int /\ q[2] \in Nat /\ q[2] > 0
  BY DEF Fractions
<1>2. s \in Int /\ t \in Int /\ u \in Nat /\ u > 0 /\ v \in Nat /\ v > 0
  BY <1>1
<1>3. /\ Equal(p, q) <=> s = t
      /\ Greater(p, q) <=> s > t
      /\ Greater(q, p) <=> t > s
  BY DEF Equal, Greater
<1>4. /\ Tie(p, q) <=> (IF s - t < 0 THEN -(s - t) ELSE s - t) * Significand < 2 * p[2] * q[2]
      /\ Tie(q, p) <=> (IF t - s < 0 THEN -(t - s) ELSE t - s) * Significand < 2 * q[2] * p[2]
  BY DEF Tie
<1>5. 2 * p[2] * q[2] = 2 * u /\ 2 * q[2] * p[2] = 2 * v
  BY <1>1
<1>6. ASSUME s = t PROVE Tie(p, q) /\ Tie(q, p)
  <2> HIDE DEF s, t, u, v
  <2>1. 0 * Significand = 0
    BY FloatAssumption
  <2>2. (IF s - t < 0 THEN -(s - t) ELSE s - t) = 0 /\ (IF t - s < 0 THEN -(t - s) ELSE t - s) = 0
    BY <1>2, <1>6
  <2> QED BY <1>2, <1>4, <1>5, <2>1, <2>2
<1> HIDE DEF s, t, u, v
<1> QED
  BY <1>2, <1>3, <1>6 DEF NearTie

\* The order by hash and number is total.
LEMMA BiasOrder ==
    /\ \A a \in Nodes : ~ Bias(a, a)
    /\ \A a, b \in Nodes : a # b => Bias(a, b) \/ Bias(b, a)
    /\ \A a, b, c \in Nodes : Bias(a, b) /\ Bias(b, c) => Bias(a, c)
<1>1. Hash \in [Nodes -> Int] /\ \A n \in Nodes : n \in Int
  BY ContractionAssumption DEF Nodes
<1> QED
  BY <1>1 DEF Bias

\* Of two nodes with a priority one goes first.
LEMMA OneGoesFirst ==
    ASSUME IsNumbering(new_to_old), NEW m \in Nodes, NEW n \in Nodes, m # n,
           node_data.priorities[m] \in Fractions, node_data.priorities[n] \in Fractions
    PROVE  Precedes(m, n) \/ Precedes(n, m)
<1> DEFINE p == node_data.priorities[m]
           q == node_data.priorities[n]
<1>1. new_to_old[m] \in Nodes /\ new_to_old[n] \in Nodes /\ new_to_old[m] # new_to_old[n]
  BY DEF IsNumbering
<1>2. Bias(new_to_old[m], new_to_old[n]) \/ Bias(new_to_old[n], new_to_old[m])
  BY <1>1, BiasOrder
<1>3. Greater(p, q) \/ Greater(q, p) \/ (Tie(p, q) /\ Tie(q, p))
  BY TiesOfEquals
<1> QED
  BY <1>2, <1>3 DEF Precedes

\* No two nodes of S have priorities that tie without being equal.
NoNearTies(S) == \A m, n \in S : ~ NearTie(node_data.priorities[m], node_data.priorities[n])

\* Without near ties the order is transitive.
LEMMA GoesFirstTransitive ==
    ASSUME IsNumbering(new_to_old), NEW S, S \subseteq Nodes, NoNearTies(S),
           \A n \in S : node_data.priorities[n] \in Fractions,
           NEW k \in S, NEW m \in S, NEW n \in S, Precedes(k, m), Precedes(m, n)
    PROVE  Precedes(k, n) /\ k # n
<1> DEFINE p == node_data.priorities[k]
           q == node_data.priorities[m]
           r == node_data.priorities[n]
           x == new_to_old[k]
           y == new_to_old[m]
           z == new_to_old[n]
<1>1. x \in Nodes /\ y \in Nodes /\ z \in Nodes
  BY DEF IsNumbering
<1>2. /\ Greater(p, q) \/ (Tie(p, q) /\ Bias(x, y))
      /\ Greater(q, r) \/ (Tie(q, r) /\ Bias(y, z))
  BY DEF Precedes
<1>3. Precedes(k, n) <=> Greater(p, r) \/ (Tie(p, r) /\ Bias(x, z))
  BY DEF Precedes
<1>4. p \in Fractions /\ q \in Fractions /\ r \in Fractions /\ (k = n => p = r /\ x = z)
  OBVIOUS
<1>5. ~ NearTie(p, q) /\ ~ NearTie(q, r)
  BY DEF NoNearTies
<1> HIDE DEF p, q, r, x, y, z
<1>6. /\ Greater(p, q) \/ (Equal(p, q) /\ Bias(x, y))
      /\ Greater(q, r) \/ (Equal(q, r) /\ Bias(y, z))
  BY <1>2, <1>4, <1>5, TiesOfEquals
<1>7. /\ Greater(p, q) \/ Greater(q, r) => Greater(p, r)
      /\ Equal(p, q) /\ Equal(q, r) => Equal(p, r)
  BY <1>4, <1>6, FractionsTransitive
<1>8. Greater(p, r) \/ (Equal(p, r) /\ Bias(x, z))
  BY <1>1, <1>6, <1>7, BiasOrder
<1>9. ~ Greater(p, p)
  <2>1. p[1] * p[2] \in Int
    BY <1>4 DEF Fractions
  <2> QED BY <2>1 DEF Greater
<1>10. k # n
  <2>1. CASE Greater(p, r)
    BY <1>4, <1>9, <2>1
  <2>2. CASE Bias(x, z)
    BY <1>1, <1>4, <2>2, BiasOrder
  <2> QED BY <1>8, <2>1, <2>2
<1>11. Greater(p, r) \/ (Tie(p, r) /\ Bias(x, z))
  BY <1>4, <1>8, TiesOfEquals
<1> QED
  BY <1>3, <1>10, <1>11

\* Of nodes whose priorities do not nearly tie one has none before it.
LEMMA OneIsFirst ==
    ASSUME IsNumbering(new_to_old), NEW S, S \subseteq Nodes, S # {}, NoNearTies(S),
           \A n \in S : node_data.priorities[n] \in Fractions
    PROVE  \E n \in S : \A m \in S \ {n} : ~ Precedes(n, m)
<1> DEFINE First(n, k) == \A m \in S \ {n} : m <= k => ~ Precedes(n, m)
           P(k) == \/ \A n \in S : n > k
                   \/ \E n \in S : n <= k /\ First(n, k)
           T == {k \in 0 .. N : P(k)}
<1>1. \A n \in S : n \in Nodes /\ n \in Int /\ n >= 1 /\ n <= N
  BY NAssumption DEF Nodes
<1>2. 0 \in T
  BY <1>1, NAssumption
<1>3. ASSUME NEW k \in 0 .. N, k < N, k \in T PROVE k + 1 \in T
  <2>1. k \in Int /\ k + 1 \in 0 .. N /\ P(k)
    BY <1>3, NAssumption
  <2>2. \A m \in S : m <= k + 1 <=> m <= k \/ m = k + 1
    BY <1>1, <2>1
  <2>3. CASE k + 1 \notin S
    <3>1. P(k + 1)
      <4>1. CASE \A n \in S : n > k
        <5>1. \A n \in S : n > k + 1
          BY <1>1, <2>1, <2>3, <4>1
        <5> QED BY <5>1
      <4>2. CASE \E n \in S : n <= k /\ First(n, k)
        <5>1. PICK n \in S : n <= k /\ First(n, k)
          BY <4>2
        <5>2. n <= k + 1 /\ First(n, k + 1)
          BY <1>1, <2>1, <2>2, <2>3, <5>1
        <5> QED BY <5>2
      <4> QED BY <2>1, <4>1, <4>2
    <3> QED BY <2>1, <3>1
  <2>4. CASE k + 1 \in S
    <3> DEFINE j == k + 1
    <3>1. CASE \A n \in S : n > k
      <4>1. First(j, j)
        BY <1>1, <2>1, <2>2, <3>1
      <4>2. P(j)
        BY <2>1, <2>4, <4>1
      <4> QED BY <2>1, <4>2
    <3>2. CASE \E n \in S : n <= k /\ First(n, k)
      <4>1. PICK n \in S : n <= k /\ First(n, k)
        BY <3>2
      <4>2. n # j /\ n <= j
        BY <1>1, <2>1, <4>1
      <4>3. CASE ~ Precedes(n, j)
        <5>1. First(n, j)
          BY <2>2, <4>1, <4>3
        <5>2. P(j)
          BY <4>2, <5>1
        <5> QED BY <2>1, <5>2
      <4>4. CASE Precedes(n, j)
        <5>1. ASSUME NEW m \in S \ {j}, m <= j PROVE ~ Precedes(j, m)
          <6>1. SUFFICES ASSUME Precedes(j, m) PROVE FALSE
            OBVIOUS
          <6>2. Precedes(n, m) /\ n # m
            <7>1. j \in S
              BY <2>4
            <7> HIDE DEF j
            <7> QED BY <1>1, <4>1, <4>4, <6>1, <7>1, GoesFirstTransitive
          <6>3. m <= k
            BY <2>2, <5>1
          <6> QED BY <4>1, <6>2, <6>3
        <5>2. First(j, j) /\ j <= j
          BY <2>1, <5>1
        <5>3. P(j)
          BY <2>4, <5>2
        <5> QED BY <2>1, <5>3
      <4> QED BY <4>3, <4>4
    <3> QED BY <2>1, <3>1, <3>2
  <2> QED BY <2>3, <2>4
<1>4. N \in T
  <2> HIDE DEF T
  <2>1. 0 .. N \subseteq T
    BY <1>2, <1>3, NAssumption, LoopInduction
  <2> QED BY <2>1, NAssumption
<1>5. P(N)
  BY <1>4
<1>6. \E n \in S : First(n, N)
  <2>1. ~ \A n \in S : n > N
    BY <1>1, NAssumption
  <2> HIDE DEF First
  <2> QED BY <1>5, <2>1
<1> QED
  BY <1>1, <1>6

-----------------------------------------------------------------------------
(***************************************************************************)
(* The steps of a round keep the invariant.                                *)
(***************************************************************************)
\* What a step leaves alone keeps what is said of it.
LEMMA InputKept ==
    ASSUME InputInv, SharedCoreInv, UNCHANGED excludableVars
    PROVE  InputInv' /\ SharedCoreInv'
BY DEF InputInv, SharedCoreInv, excludableVars, Consistent, GetTargets, Adjacent, BeginEdges, EndEdges,
       WellFormed, Slots, isDummy

\* The contracted nodes leave the pool.
LEMMA EndRoundKeeps ==
    ASSUME RunInv, EndRound
    PROVE  RunInv'
<1>1. /\ phase = "update" /\ remaining' = remaining \ batch /\ batch' = {} /\ phase' = "head"
      /\ graph' = graph /\ node_data' = node_data /\ number_of_core_nodes' = number_of_core_nodes
      /\ new_to_old' = new_to_old /\ inserted' = inserted
  BY DEF EndRound
<1>2. Core' = Core
  BY <1>1 DEF Core
<1>3. GraphInv' /\ NumberingInv' /\ phase' \in Phases
  BY <1>1 DEF RunInv, GraphInv, NumberingInv, Phases, RunPhases, LoopPhases
<1>4. NodeInv'
  BY <1>1 DEF RunInv, NodeInv, RunPhases, LoopPhases
<1> HIDE DEF Core
<1>5. PoolInv'
  BY <1>1, <1>2 DEF RunInv, PoolInv, LoopPhases
<1>6. SymmetryInv'
  BY <1>1, <1>2 DEF RunInv, SymmetryInv, RunPhases, LoopPhases
<1>7. InsertedInv'
  <2>1. \A t \in Threads : inserted[t] = <<>>
    BY <1>1 DEF RunInv, InsertedInv
  <2>2. ToSet(<<>>) = {}
    BY DEF ToSet
  <2> QED BY <1>1, <2>1, <2>2 DEF RunInv, InsertedInv
<1>8. ContractedApart'
  BY <1>1 DEF ContractedApart
<1> QED
  BY <1>3, <1>4, <1>5, <1>6, <1>7, <1>8 DEF RunInv

\* A first priority changes nothing but a priority and the bounds.
LEMMA InitialPriorityKeeps ==
    ASSUME RunInv, NEW node \in Nodes, InitialPriority(node)
    PROVE  RunInv'
<1> DEFINE sim == Simulated(graph, node, node_data.weights, node_data.depths[node])
<1>1. /\ phase = "prioritise" /\ node \in todo
      /\ node_data' = [node_data EXCEPT !.weights = sim.weights, !.priorities[node] = sim.priority]
      /\ todo' \subseteq todo /\ phase' \in {"prioritise", "head"}
      /\ graph' = graph /\ remaining' = remaining /\ number_of_core_nodes' = number_of_core_nodes
      /\ new_to_old' = new_to_old /\ batch' = batch /\ inserted' = inserted
  BY DEF InitialPriority, Barrier
<1>2. node_data \in NodeRecords /\ node \in remaining
  BY <1>1 DEF RunInv, NodeInv, PoolInv, RunPhases, LoopPhases
<1>3. /\ sim.weights \in [Nodes -> Nat] /\ sim.priority \in Int \X Nat /\ sim.priority[2] > 0
  <2> DEFINE w == node_data.weights
             d == node_data.depths[node]
  <2>1. w \in [Nodes -> Nat] /\ d \in Nat
    BY <1>2 DEF NodeRecords
  <2>2. Consistent(graph, ContractorEdges)
    BY DEF RunInv, GraphInv
  <2> HIDE DEF w, d
  <2>3. /\ Simulated(graph, node, w, d).weights \in [Nodes -> Nat]
        /\ Simulated(graph, node, w, d).priority \in Int \X Nat
        /\ Simulated(graph, node, w, d).priority[2] > 0
    BY <2>1, <2>2, SimulatedResult
  <2> QED BY <2>3 DEF w, d
<1> HIDE DEF sim
<1>4. /\ node_data' \in NodeRecords
      /\ node_data'.is_core = node_data.is_core /\ node_data'.contractable = node_data.contractable
      /\ node_data'.priorities = [node_data.priorities EXCEPT ![node] = sim.priority]
  BY <1>1, <1>2, <1>3 DEF NodeRecords
<1>5. /\ node_data'.priorities[node] = sim.priority
      /\ \A n \in Nodes \ {node} : node_data'.priorities[n] = node_data.priorities[n]
  BY <1>2, <1>4 DEF NodeRecords
<1>6. Core' = Core
  BY <1>4 DEF Core
<1>7. GraphInv' /\ NumberingInv' /\ phase' \in Phases
  BY <1>1 DEF RunInv, GraphInv, NumberingInv, Phases, RunPhases, LoopPhases
<1>8. NodeInv'
  <2>1. \A n \in Nodes : node_data.contractable[n] => node_data.priorities[n][2] > 0
    BY <1>1 DEF RunInv, NodeInv, RunPhases, LoopPhases
  <2>2. \A n \in Nodes : node_data'.contractable[n] => node_data'.priorities[n][2] > 0
    BY <1>3, <1>4, <1>5, <2>1
  <2> QED BY <1>4, <2>2 DEF NodeInv
<1>9. PoolInv'
  <2>1. /\ remaining \subseteq Nodes /\ batch \subseteq remaining /\ remaining \ batch \subseteq Core
        /\ \A n \in remaining : node_data.contractable[n]
        /\ \A n \in Core \ remaining : ~ node_data.contractable[n] /\ node_data.priorities[n] = MaxPriority
        /\ batch = {} /\ todo \subseteq remaining
    BY <1>1 DEF RunInv, PoolInv, LoopPhases
  <2>2. \A n \in Core \ remaining : ~ node_data'.contractable[n] /\ node_data'.priorities[n] = MaxPriority
    BY <1>2, <1>4, <1>5, <2>1 DEF Core
  <2>3. \A n \in remaining : node_data'.contractable[n]
    BY <1>4, <2>1
  <2> QED BY <1>1, <1>6, <2>1, <2>2, <2>3 DEF PoolInv
<1> HIDE DEF Core
<1>10. SymmetryInv'
  BY <1>1, <1>6 DEF RunInv, SymmetryInv, RunPhases, LoopPhases
<1>11. InsertedInv'
  BY <1>1, <1>6 DEF RunInv, InsertedInv
<1>12. ContractedApart'
  BY <1>1 DEF ContractedApart
<1> QED
  BY <1>7, <1>8, <1>9, <1>10, <1>11, <1>12 DEF RunInv

\* A neighbour is priced anew only if it may be contracted, so nodes that stay keep theirs.
LEMMA UpdateNodeNeighboursKeeps ==
    ASSUME RunInv, NEW node \in Nodes, NEW u \in Nodes, UpdateNodeNeighbours(node, u)
    PROVE  RunInv'
<1> DEFINE depth == Max({node_data.depths[node] + 1, node_data.depths[u]})
           sim == Simulated(graph, u, node_data.weights, depth)
<1>1. /\ phase = "update" /\ phase' = phase /\ todo' \subseteq todo
      /\ node_data' = IF node_data.contractable[u]
                      THEN [node_data EXCEPT !.depths[u] = depth, !.weights = sim.weights,
                                             !.priorities[u] = sim.priority]
                      ELSE [node_data EXCEPT !.depths[u] = depth]
      /\ graph' = graph /\ remaining' = remaining /\ number_of_core_nodes' = number_of_core_nodes
      /\ new_to_old' = new_to_old /\ batch' = batch /\ inserted' = inserted
  BY DEF UpdateNodeNeighbours
<1>2. node_data \in NodeRecords
  BY <1>1 DEF RunInv, NodeInv, RunPhases, LoopPhases
<1>3. depth \in Nat
  <2> DEFINE x == node_data.depths[node] + 1
             y == node_data.depths[u]
  <2>1. x \in Nat /\ y \in Nat
    BY <1>2 DEF NodeRecords
  <2> HIDE DEF x, y
  <2>2. \E z \in {x, y} : \A w \in {x, y} : z >= w
    BY <2>1
  <2>3. Max({x, y}) \in Nat
    BY <2>1, <2>2 DEF Max
  <2> QED BY <2>3 DEF x, y
<1> HIDE DEF depth
<1>4. /\ sim.weights \in [Nodes -> Nat] /\ sim.priority \in Int \X Nat /\ sim.priority[2] > 0
  <2> DEFINE w == node_data.weights
  <2>1. w \in [Nodes -> Nat]
    BY <1>2 DEF NodeRecords
  <2>2. Consistent(graph, ContractorEdges)
    BY DEF RunInv, GraphInv
  <2> HIDE DEF w
  <2>3. /\ Simulated(graph, u, w, depth).weights \in [Nodes -> Nat]
        /\ Simulated(graph, u, w, depth).priority \in Int \X Nat
        /\ Simulated(graph, u, w, depth).priority[2] > 0
    BY <1>3, <2>1, <2>2, SimulatedResult
  <2> QED BY <2>3 DEF w
<1> HIDE DEF sim
<1>5. /\ node_data' \in NodeRecords
      /\ node_data'.is_core = node_data.is_core /\ node_data'.contractable = node_data.contractable
      /\ \A n \in Nodes : ~(n = u /\ node_data.contractable[u]) => node_data'.priorities[n] = node_data.priorities[n]
      /\ node_data.contractable[u] => node_data'.priorities[u] = sim.priority
  <2>1. CASE node_data.contractable[u]
    <3>1. node_data' = [node_data EXCEPT !.depths[u] = depth, !.weights = sim.weights,
                                         !.priorities[u] = sim.priority]
      BY <1>1, <2>1
    <3>2. /\ node_data' \in NodeRecords
          /\ node_data'.is_core = node_data.is_core /\ node_data'.contractable = node_data.contractable
          /\ node_data'.priorities = [node_data.priorities EXCEPT ![u] = sim.priority]
      BY <1>2, <1>3, <1>4, <3>1 DEF NodeRecords
    <3>3. /\ node_data'.priorities[u] = sim.priority
          /\ \A n \in Nodes \ {u} : node_data'.priorities[n] = node_data.priorities[n]
      BY <1>2, <3>2 DEF NodeRecords
    <3> QED BY <2>1, <3>2, <3>3
  <2>2. CASE ~ node_data.contractable[u]
    <3>1. node_data' = [node_data EXCEPT !.depths[u] = depth]
      BY <1>1, <2>2
    <3>2. /\ node_data' \in NodeRecords
          /\ node_data'.is_core = node_data.is_core /\ node_data'.contractable = node_data.contractable
          /\ node_data'.priorities = node_data.priorities
      BY <1>2, <1>3, <3>1 DEF NodeRecords
    <3> QED BY <2>2, <3>2
  <2> QED BY <2>1, <2>2
<1>6. Core' = Core
  BY <1>5 DEF Core
<1>7. GraphInv' /\ NumberingInv' /\ phase' \in Phases
  BY <1>1 DEF RunInv, GraphInv, NumberingInv, Phases, RunPhases, LoopPhases
<1>8. NodeInv'
  <2>1. \A n \in Nodes : node_data.contractable[n] => node_data.priorities[n][2] > 0
    BY <1>1 DEF RunInv, NodeInv, RunPhases, LoopPhases
  <2>2. ASSUME NEW n \in Nodes, node_data'.contractable[n] PROVE node_data'.priorities[n][2] > 0
    <3>1. node_data.contractable[n]
      BY <1>5, <2>2
    <3>2. CASE n = u
      BY <1>4, <1>5, <3>1, <3>2
    <3>3. CASE n # u
      BY <1>5, <2>1, <3>1, <3>3
    <3> QED BY <3>2, <3>3
  <2> QED BY <1>5, <2>2 DEF NodeInv
<1>9. PoolInv'
  <2>1. /\ remaining \subseteq Nodes /\ batch \subseteq remaining /\ remaining \ batch \subseteq Core
        /\ \A n \in remaining : node_data.contractable[n]
        /\ \A n \in Core \ remaining : ~ node_data.contractable[n] /\ node_data.priorities[n] = MaxPriority
        /\ batch \cap Core = {}
    BY <1>1 DEF RunInv, PoolInv, LoopPhases
  <2>2. ASSUME NEW n \in Core \ remaining
        PROVE  ~ node_data'.contractable[n] /\ node_data'.priorities[n] = MaxPriority
    <3>1. n \in Nodes /\ ~ node_data.contractable[n] /\ node_data.priorities[n] = MaxPriority
      BY <2>1 DEF Core
    <3>2. ~(n = u /\ node_data.contractable[u])
      BY <3>1
    <3> QED BY <1>5, <3>1, <3>2
  <2>3. \A n \in remaining : node_data'.contractable[n]
    BY <1>5, <2>1
  <2> HIDE DEF Core
  <2> QED BY <1>1, <1>6, <2>1, <2>2, <2>3 DEF PoolInv
<1> HIDE DEF Core
<1>10. SymmetryInv'
  BY <1>1, <1>6 DEF RunInv, SymmetryInv, RunPhases, LoopPhases
<1>11. InsertedInv'
  BY <1>1, <1>6 DEF RunInv, InsertedInv
<1>12. ContractedApart'
  BY <1>1 DEF ContractedApart
<1> QED
  BY <1>7, <1>8, <1>9, <1>10, <1>11, <1>12 DEF RunInv

\* Nodes that are independent share no edge and no neighbour: of two that do, one would
\* have found the other and stepped back.
LEMMA IndependentApart ==
    ASSUME RunInv, phase = "head", NEW m \in remaining, NEW n \in remaining, m # n,
           IsNodeIndependent(m), IsNodeIndependent(n)
    PROVE  m \notin Neighbours(graph, n) /\ Neighbours(graph, m) \cap Neighbours(graph, n) = {}
<1>1. /\ m \in Nodes /\ n \in Nodes /\ m \in Core /\ n \in Core
      /\ \A u \in Core : \A v \in GetTargets(graph, u) : u \in GetTargets(graph, v) /\ v \in Core
  BY DEF RunInv, PoolInv, SymmetryInv, LoopPhases, RunPhases
<1>2. /\ IsNumbering(new_to_old)
      /\ node_data.priorities[m] \in Fractions /\ node_data.priorities[n] \in Fractions
  <2>1. node_data.priorities \in [Nodes -> Int \X Nat]
    BY DEF RunInv, NodeInv, NodeRecords, LoopPhases, RunPhases
  <2>2. node_data.priorities[m][2] > 0 /\ node_data.priorities[n][2] > 0
    BY <1>1 DEF RunInv, NodeInv, PoolInv, LoopPhases, RunPhases
  <2> QED BY <1>1, <2>1, <2>2 DEF RunInv, NumberingInv, Fractions
<1>3. Precedes(m, n) \/ Precedes(n, m)
  BY <1>1, <1>2, OneGoesFirst
<1> DEFINE Near(x, y) == y \in Neighbours(graph, x)
                         \/ \E w \in Neighbours(graph, x) : y \in GetTargets(graph, w)
<1>4. ASSUME NEW x, NEW y, IsNodeIndependent(x), Near(x, y), x # y PROVE ~ Precedes(x, y)
  BY <1>4 DEF IsNodeIndependent
<1>5. m \notin Neighbours(graph, n)
  <2> SUFFICES ASSUME m \in Neighbours(graph, n) PROVE FALSE
    OBVIOUS
  <2>1. n \in Neighbours(graph, m)
    BY <1>1 DEF Neighbours
  <2> QED BY <1>3, <1>4, <2>1
<1>6. ASSUME NEW w \in Neighbours(graph, m), w \in Neighbours(graph, n) PROVE FALSE
  <2>1. m \in GetTargets(graph, w) /\ n \in GetTargets(graph, w)
    BY <1>1, <1>6 DEF Neighbours
  <2>2. Near(m, n) /\ Near(n, m)
    BY <1>6, <2>1
  <2> HIDE DEF Near
  <2> QED BY <1>3, <1>4, <2>2
<1> QED
  BY <1>5, <1>6

\* The independent nodes become the batch.
LEMMA FindIndependentKeeps ==
    ASSUME RunInv, FindIndependent
    PROVE  RunInv'
<1>1. /\ phase = "head" /\ phase' \in {"head", "contract"} /\ batch' = {n \in remaining : IsNodeIndependent(n)}
      /\ todo' = batch' /\ (phase' = "head" => batch' = {})
      /\ graph' = graph /\ node_data' = node_data /\ remaining' = remaining
      /\ number_of_core_nodes' = number_of_core_nodes
      /\ new_to_old' = new_to_old /\ inserted' = inserted
  BY DEF FindIndependent
<1>2. Core' = Core
  BY <1>1 DEF Core
<1>3. GraphInv' /\ NumberingInv' /\ phase' \in Phases
  BY <1>1 DEF RunInv, GraphInv, NumberingInv, Phases, RunPhases, LoopPhases
<1>4. NodeInv'
  BY <1>1 DEF RunInv, NodeInv, RunPhases, LoopPhases
<1> HIDE DEF Core
<1>5. PoolInv'
  <2>1. batch' \subseteq remaining
    BY <1>1
  <2>2. /\ remaining \subseteq Nodes /\ remaining \subseteq Core
        /\ \A n \in remaining : node_data.contractable[n]
        /\ \A n \in Core \ remaining : ~ node_data.contractable[n] /\ node_data.priorities[n] = MaxPriority
    BY <1>1 DEF RunInv, PoolInv, LoopPhases
  <2>3. phase' = "head" \/ phase' = "contract"
    BY <1>1
  <2>4. graph' = graph /\ node_data' = node_data /\ remaining' = remaining /\ todo' = batch'
        /\ (phase' = "head" => batch' = {})
    BY <1>1
  <2> QED BY ONLY <1>2, <2>1, <2>2, <2>3, <2>4 DEF PoolInv, LoopPhases
<1>6. SymmetryInv'
  BY <1>1, <1>2 DEF RunInv, SymmetryInv, RunPhases, LoopPhases
<1>7. InsertedInv'
  <2>1. \A t \in Threads : inserted[t] = <<>>
    BY <1>1 DEF RunInv, InsertedInv
  <2>2. ToSet(<<>>) = {}
    BY DEF ToSet
  <2> QED BY <1>1, <2>1, <2>2 DEF RunInv, InsertedInv
<1>8. ContractedApart'
  <2>1. \A m, n \in batch' : m # n => m \notin Neighbours(graph, n) /\ Neighbours(graph, m) \cap Neighbours(graph, n) = {}
    BY <1>1, IndependentApart
  <2>2. \A n : Neighbours(graph, n)' = Neighbours(graph, n)
    BY <1>1 DEF Neighbours, GetTargets, Adjacent, BeginEdges, EndEdges
  <2> QED BY <1>1, <2>1, <2>2 DEF ContractedApart
<1> QED
  BY <1>3, <1>4, <1>5, <1>6, <1>7, <1>8 DEF RunInv

\* A round finds a node: if the priorities in the pool do not nearly tie, the first of its
\* nodes precedes its two-hop neighbours, those that stay included.
LEMMA RoundFinds ==
    ASSUME RunInv
    PROVE  RoundContracts
<1> SUFFICES ASSUME phase = "head", Cardinality(remaining) > number_of_core_nodes, NoNearTies(remaining)
             PROVE  \E n \in remaining : IsNodeIndependent(n)
  BY DEF RoundContracts, NoNearTies
<1>1. /\ remaining \subseteq Nodes /\ remaining \subseteq Core
      /\ \A n \in remaining : node_data.contractable[n]
      /\ \A n \in Core \ remaining : node_data.priorities[n] = MaxPriority
  BY DEF RunInv, PoolInv, LoopPhases
<1>2. \A u \in Core : \A v \in GetTargets(graph, u) : v \in Core
  BY DEF RunInv, SymmetryInv, LoopPhases, RunPhases
<1>3. IsNumbering(new_to_old) /\ node_data.priorities \in [Nodes -> Int \X Nat] /\ number_of_core_nodes \in Nat
  BY DEF RunInv, NumberingInv, NodeInv, NodeRecords, LoopPhases, RunPhases
<1>4. \A n \in remaining : node_data.priorities[n] \in Fractions
  <2>1. \A n \in Nodes : node_data.contractable[n] => node_data.priorities[n][2] > 0
    BY DEF RunInv, NodeInv, LoopPhases, RunPhases
  <2> QED BY <1>1, <1>3, <2>1 DEF Fractions
<1>5. remaining # {}
  <2> SUFFICES ASSUME remaining = {} PROVE FALSE
    OBVIOUS
  <2>1. Cardinality(remaining) = 0
    BY FS_EmptySet
  <2> QED BY <1>3, <2>1
<1>6. PICK n \in remaining : \A m \in remaining \ {n} : ~ Precedes(n, m)
  BY <1>1, <1>3, <1>4, <1>5, OneIsFirst
<1>7. ASSUME NEW m \in Core \ remaining PROVE ~ Precedes(n, m)
  <2> DEFINE p == node_data.priorities[n]
  <2>1. p[1] \in Int /\ p[2] \in Nat /\ p[2] > 0
    BY <1>4 DEF Fractions
  <2>2. node_data.priorities[m] = <<1, 0>>
    BY <1>1, <1>7 DEF MaxPriority
  <2> DEFINE q == <<1, 0>>
  <2>3. ~ Greater(p, q) /\ ~ Tie(p, q)
    <3>1. q[1] = 1 /\ q[2] = 0
      OBVIOUS
    <3> HIDE DEF p, q
    <3>2. p[1] * q[2] = 0 /\ q[1] * p[2] = p[2] /\ 2 * p[2] * q[2] = 0
      BY <2>1, <3>1
    <3>3. p[2] * Significand > 0 /\ p[2] * Significand \in Int
      BY <2>1, FloatAssumption
    <3>4. ~ Greater(p, q)
      BY <2>1, <3>2 DEF Greater
    <3>5. ~ Tie(p, q)
      <4>1. p[1] * q[2] - q[1] * p[2] = - p[2] /\ - p[2] < 0 /\ -(- p[2]) = p[2]
        BY <2>1, <3>2
      <4> QED BY <3>2, <3>3, <4>1 DEF Tie
    <3> QED BY <3>4, <3>5
  <2> HIDE DEF q
  <2> QED BY <2>2, <2>3 DEF Precedes, q
<1>8. ASSUME NEW other \in Neighbours(graph, n) \cup UNION {GetTargets(graph, u) : u \in Neighbours(graph, n)}
      PROVE  other \in Core
  BY <1>1, <1>2 DEF Neighbours
<1>9. IsNodeIndependent(n)
  BY <1>6, <1>7, <1>8 DEF IsNodeIndependent
<1> QED
  BY <1>9

\* A numbering renames the data of the nodes and keeps it.
LEMMA RenumberedData ==
    ASSUME NEW d \in NodeRecords, NEW perm, IsNumbering(perm)
    PROVE  /\ RenumberNodeData(d, perm) \in NodeRecords
           /\ \A o \in Nodes : /\ RenumberNodeData(d, perm).is_core[perm[o]] = d.is_core[o]
                               /\ RenumberNodeData(d, perm).contractable[perm[o]] = d.contractable[o]
                               /\ RenumberNodeData(d, perm).priorities[perm[o]] = d.priorities[o]
<1> DEFINE r == RenumberNodeData(d, perm)
           a == d.is_core
           b == d.contractable
           c == d.priorities
           w == d.weights
           h == d.depths
<1>1. /\ a \in [Nodes -> BOOLEAN] /\ b \in [Nodes -> BOOLEAN] /\ c \in [Nodes -> Int \X Nat]
      /\ w \in [Nodes -> Nat] /\ h \in [Nodes -> Nat]
  BY DEF NodeRecords
<1>2. r = [is_core |-> Permuted(a, perm), contractable |-> Permuted(b, perm), priorities |-> Permuted(c, perm),
           weights |-> Permuted(w, perm), depths |-> Permuted(h, perm)]
  BY DEF RenumberNodeData
<1> HIDE DEF a, b, c, w, h
<1>3. Permuted(a, perm) \in [Nodes -> BOOLEAN] /\ \A o \in Nodes : Permuted(a, perm)[perm[o]] = a[o]
  BY <1>1, PermutedValues, ZenonT(60)
<1>4. Permuted(b, perm) \in [Nodes -> BOOLEAN] /\ \A o \in Nodes : Permuted(b, perm)[perm[o]] = b[o]
  BY <1>1, PermutedValues, ZenonT(60)
<1>5. Permuted(c, perm) \in [Nodes -> Int \X Nat] /\ \A o \in Nodes : Permuted(c, perm)[perm[o]] = c[o]
  BY <1>1, PermutedValues, ZenonT(60)
<1>6. Permuted(w, perm) \in [Nodes -> Nat] /\ Permuted(h, perm) \in [Nodes -> Nat]
  BY <1>1, PermutedValues
<1>7. r \in NodeRecords
  BY <1>2, <1>3, <1>4, <1>5, <1>6 DEF NodeRecords
<1>8. r.is_core = Permuted(a, perm) /\ r.contractable = Permuted(b, perm) /\ r.priorities = Permuted(c, perm)
  BY <1>2
<1> HIDE DEF r
<1>9. \A o \in Nodes : r.is_core[perm[o]] = a[o] /\ r.contractable[perm[o]] = b[o] /\ r.priorities[perm[o]] = c[o]
  BY <1>3, <1>4, <1>5, <1>8
<1> QED
  BY <1>7, <1>9 DEF r, a, b, c

\* Numberings one after the other are a numbering.
LEMMA NumberingsCompose ==
    ASSUME NEW f, IsNumbering(f), NEW perm, IsNumbering(perm)
    PROVE  IsNumbering(Permuted(f, perm))
<1> DEFINE h == Permuted(f, perm)
<1>1. f \in [Nodes -> Nodes] /\ perm \in [Nodes -> Nodes]
  BY DEF IsNumbering
<1>2. h \in [Nodes -> Nodes] /\ \A o \in Nodes : h[perm[o]] = f[o]
  BY <1>1, PermutedValues, SMTT(30)
<1> HIDE DEF h
<1>3. ASSUME NEW m \in Nodes, NEW n \in Nodes, h[m] = h[n] PROVE m = n
  <2>1. PICK o \in Nodes : perm[o] = m
    BY DEF IsNumbering
  <2>2. PICK q \in Nodes : perm[q] = n
    BY DEF IsNumbering
  <2>3. f[o] = f[q]
    BY <1>2, <1>3, <2>1, <2>2
  <2>4. o = q
    BY <2>3 DEF IsNumbering
  <2> QED BY <2>1, <2>2, <2>4
<1>4. ASSUME NEW n \in Nodes PROVE \E m \in Nodes : h[m] = n
  <2>1. PICK o \in Nodes : f[o] = n
    BY DEF IsNumbering
  <2>2. perm[o] \in Nodes /\ h[perm[o]] = n
    BY <1>1, <1>2, <2>1
  <2> QED BY <2>2
<1>5. IsNumbering(h)
  BY <1>2, <1>3, <1>4 DEF IsNumbering
<1> QED
  BY <1>5 DEF h

\* The original numbers are a numbering.
LEMMA OriginalNumbering == IsNumbering([n \in Nodes |-> n])
BY DEF IsNumbering

\* The edges of the nodes of C lead to nodes of C, and back.
Closed(g, C) == \A u \in C : \A v \in GetTargets(g, u) : u \in GetTargets(g, v) /\ v \in C

\* In a renamed graph the renamed nodes lead to each other and back as the nodes did.
LEMMA RenamedMutual ==
    ASSUME NEW g, NEW h, NEW perm, IsNumbering(perm), Renamed(g, h, perm), NEW C, C \subseteq Nodes,
           Closed(g, C), NEW D, D \subseteq Nodes, \A o \in Nodes : perm[o] \in D <=> o \in C
    PROVE  Closed(h, D)
<1> SUFFICES ASSUME NEW u \in D, NEW v \in GetTargets(h, u) PROVE u \in GetTargets(h, v) /\ v \in D
  BY DEF Closed
<1>1. PICK o \in Nodes : perm[o] = u
  BY DEF IsNumbering
<1>2. PICK w \in GetTargets(g, o) : v = perm[w]
  BY <1>1 DEF Renamed
<1>3. o \in C
  BY <1>1
<1>4. o \in GetTargets(g, w) /\ w \in C
  BY <1>3 DEF Closed
<1>5. u \in GetTargets(h, v)
  BY <1>1, <1>2, <1>4 DEF Renamed
<1> QED
  BY <1>2, <1>4, <1>5

\* Renumbering in the middle of a run.
LEMMA RenumberDataKeeps ==
    ASSUME RunInv, RenumberData
    PROVE  RunInv'
<1> DEFINE perm == RemainingFirst
           K == Cardinality(remaining)
<1>1. /\ phase = "head" /\ phase' = phase /\ new_to_old' = Permuted(new_to_old, perm)
      /\ node_data' = RenumberNodeData(node_data, perm) /\ graph' = RenumberGraph(graph, perm)
      /\ remaining' = 1 .. K /\ number_of_core_nodes' = number_of_core_nodes
      /\ batch' = batch /\ inserted' = inserted
  BY DEF RenumberData
<1>2. /\ Consistent(graph, ContractorEdges) /\ IsNumbering(new_to_old) /\ number_of_core_nodes \in Nat
      /\ node_data \in NodeRecords
      /\ \A n \in Nodes : node_data.contractable[n] => node_data.priorities[n][2] > 0
  BY <1>1 DEF RunInv, GraphInv, NumberingInv, NodeInv, RunPhases, LoopPhases
<1>3. /\ remaining \subseteq Nodes /\ batch = {} /\ remaining \subseteq Core
      /\ \A n \in remaining : node_data.contractable[n]
      /\ \A n \in Core \ remaining : ~ node_data.contractable[n] /\ node_data.priorities[n] = MaxPriority
  BY <1>1 DEF RunInv, PoolInv, LoopPhases
<1>4. Closed(graph, Core)
  BY <1>1 DEF RunInv, SymmetryInv, RunPhases, LoopPhases, Closed
<1>5. /\ IsNumbering(perm) /\ K \in Nat /\ K <= N
      /\ \A n \in Nodes : n \in remaining <=> perm[n] \in 1 .. K
  BY <1>3, RemainingGetLowNumbers
<1> HIDE DEF perm, K
<1>6. /\ Consistent(graph', ContractorEdges) /\ Renamed(graph, graph', perm)
  BY <1>1, <1>2, <1>5, RenumberGraphTargets
<1>7. /\ node_data' \in NodeRecords
      /\ \A o \in Nodes : /\ node_data'.is_core[perm[o]] = node_data.is_core[o]
                          /\ node_data'.contractable[perm[o]] = node_data.contractable[o]
                          /\ node_data'.priorities[perm[o]] = node_data.priorities[o]
  BY <1>1, <1>2, <1>5, RenumberedData
<1>8. Core \subseteq Nodes /\ Core' \subseteq Nodes /\ \A o \in Nodes : perm[o] \in Core' <=> o \in Core
  <2>1. perm \in [Nodes -> Nodes]
    BY <1>5 DEF IsNumbering
  <2> QED BY <1>7, <2>1 DEF Core
<1>9. \A n \in Nodes : \E o \in Nodes : perm[o] = n
  BY <1>5 DEF IsNumbering
<1> HIDE DEF Core
<1>10. GraphInv' /\ NumberingInv' /\ phase' \in Phases
  <2>1. IsNumbering(new_to_old')
    BY <1>1, <1>2, <1>5, NumberingsCompose
  <2> QED BY <1>1, <1>2, <1>6, <2>1 DEF GraphInv, NumberingInv, Phases, RunPhases, LoopPhases
<1>11. NodeInv'
  <2>1. ASSUME NEW n \in Nodes, node_data'.contractable[n] PROVE node_data'.priorities[n][2] > 0
    <3>1. PICK o \in Nodes : perm[o] = n
      BY <1>9
    <3>2. node_data.contractable[o] /\ node_data'.priorities[n] = node_data.priorities[o]
      BY <1>7, <2>1, <3>1
    <3> QED BY <1>2, <3>2
  <2> QED BY <1>7, <2>1 DEF NodeInv
<1>12. PoolInv'
  <2>1. remaining' \subseteq Nodes
    BY <1>1, <1>5, NAssumption DEF Nodes
  <2>2. ASSUME NEW n \in remaining' PROVE n \in Core' /\ node_data'.contractable[n]
    <3>1. PICK o \in Nodes : perm[o] = n
      BY <1>9, <2>1
    <3>2. o \in remaining
      BY <1>1, <1>5, <3>1
    <3>3. perm[o] \in Core'
      BY <1>3, <1>8, <3>2
    <3>4. node_data'.contractable[perm[o]] = node_data.contractable[o] /\ node_data.contractable[o]
      BY <1>3, <1>7, <3>2
    <3> QED BY <3>1, <3>3, <3>4
  <2>3. ASSUME NEW n \in Core' \ remaining'
        PROVE  ~ node_data'.contractable[n] /\ node_data'.priorities[n] = MaxPriority
    <3>1. PICK o \in Nodes : perm[o] = n
      BY <1>8, <1>9
    <3>2. o \in Core \ remaining
      BY <1>1, <1>5, <1>8, <3>1
    <3>3. ~ node_data.contractable[o] /\ node_data.priorities[o] = MaxPriority
      BY <1>3, <3>2
    <3>4. node_data'.contractable[n] = node_data.contractable[o] /\ node_data'.priorities[n] = node_data.priorities[o]
      BY <1>7, <3>1
    <3> QED BY <3>3, <3>4
  <2>4. phase' = "head" /\ batch' = {}
    BY <1>1, <1>3
  <2> QED BY ONLY <2>1, <2>2, <2>3, <2>4 DEF PoolInv
<1>13. SymmetryInv'
  <2>1. Closed(graph', Core')
    BY <1>4, <1>5, <1>6, <1>8, RenamedMutual
  <2> QED BY <2>1 DEF SymmetryInv, Closed
<1>14. InsertedInv'
  <2>1. \A t \in Threads : inserted[t] = <<>>
    BY <1>1 DEF RunInv, InsertedInv
  <2>2. ToSet(<<>>) = {}
    BY DEF ToSet
  <2> QED BY <1>1, <2>1, <2>2 DEF RunInv, InsertedInv
<1>15. ContractedApart'
  BY <1>1 DEF ContractedApart
<1> QED
  BY <1>10, <1>11, <1>12, <1>13, <1>14, <1>15 DEF RunInv

\* Everything gets its original number back.
LEMMA ReturnKeeps ==
    ASSUME RunInv, Return
    PROVE  RunInv'
<1> DEFINE perm == new_to_old
<1>1. /\ phase = "head" /\ phase' = "returned" /\ new_to_old' = [n \in Nodes |-> n]
      /\ node_data' = RenumberNodeData(node_data, perm) /\ graph' = RenumberGraph(graph, perm)
      /\ remaining' = remaining /\ number_of_core_nodes' = number_of_core_nodes
      /\ batch' = batch /\ inserted' = inserted
  BY DEF Return
<1>2. /\ Consistent(graph, ContractorEdges) /\ IsNumbering(perm) /\ number_of_core_nodes \in Nat
      /\ node_data \in NodeRecords
      /\ \A n \in Nodes : node_data.contractable[n] => node_data.priorities[n][2] > 0
  BY <1>1 DEF RunInv, GraphInv, NumberingInv, NodeInv, RunPhases, LoopPhases
<1>3. remaining \subseteq Nodes /\ batch \subseteq remaining
  BY DEF RunInv, PoolInv
<1>4. Closed(graph, Core)
  BY <1>1 DEF RunInv, SymmetryInv, RunPhases, LoopPhases, Closed
<1> HIDE DEF perm
<1>5. /\ Consistent(graph', ContractorEdges) /\ graph'.count = NumberOfEdges(graph') /\ Renamed(graph, graph', perm)
  BY <1>1, <1>2, RenumberGraphTargets
<1>6. /\ node_data' \in NodeRecords
      /\ \A o \in Nodes : /\ node_data'.is_core[perm[o]] = node_data.is_core[o]
                          /\ node_data'.contractable[perm[o]] = node_data.contractable[o]
                          /\ node_data'.priorities[perm[o]] = node_data.priorities[o]
  BY <1>1, <1>2, RenumberedData
<1>7. Core \subseteq Nodes /\ Core' \subseteq Nodes /\ \A o \in Nodes : perm[o] \in Core' <=> o \in Core
  <2>1. perm \in [Nodes -> Nodes]
    BY <1>2 DEF IsNumbering
  <2> QED BY <1>6, <2>1 DEF Core
<1>8. \A n \in Nodes : \E o \in Nodes : perm[o] = n
  BY <1>2 DEF IsNumbering
<1> HIDE DEF Core
<1>9. GraphInv' /\ NumberingInv' /\ phase' \in Phases
  <2>1. IsNumbering(new_to_old')
    BY <1>1, OriginalNumbering
  <2>2. graph'.count = NumberOfEdges(graph)'
    BY <1>5
  <2> QED BY <1>1, <1>2, <1>5, <2>1, <2>2 DEF GraphInv, NumberingInv, Phases, RunPhases
<1>10. NodeInv'
  <2>1. ASSUME NEW n \in Nodes, node_data'.contractable[n] PROVE node_data'.priorities[n][2] > 0
    <3>1. PICK o \in Nodes : perm[o] = n
      BY <1>8
    <3>2. node_data.contractable[o] /\ node_data'.priorities[n] = node_data.priorities[o]
      BY <1>6, <2>1, <3>1
    <3> QED BY <1>2, <3>2
  <2> QED BY <1>6, <2>1 DEF NodeInv
<1>11. PoolInv'
  BY <1>1, <1>3 DEF PoolInv, LoopPhases
<1>12. SymmetryInv'
  <2>1. Closed(graph', Core')
    BY <1>2, <1>4, <1>5, <1>7, RenamedMutual
  <2> QED BY <2>1 DEF SymmetryInv, Closed
<1>13. InsertedInv'
  <2>1. \A t \in Threads : inserted[t] = <<>>
    BY <1>1 DEF RunInv, InsertedInv
  <2>2. ToSet(<<>>) = {}
    BY DEF ToSet
  <2> QED BY <1>1, <2>1, <2>2 DEF RunInv, InsertedInv
<1>14. ContractedApart'
  BY <1>1 DEF ContractedApart
<1> QED
  BY <1>9, <1>10, <1>11, <1>12, <1>13, <1>14 DEF RunInv

\* A node is contracted: the shortcuts are between its neighbours, which are not in the
\* batch, and come in pairs.
LEMMA ContractNodeKeeps ==
    ASSUME RunInv, NEW t \in Threads, NEW node \in Nodes, ContractNode(t, node)
    PROVE  RunInv'
<1> DEFINE simulation == FALSE
           result == ContractEdges(graph, node, node_data.weights, simulation)
           more == MergeDirections(result.edges)
           last == todo = {node}
           C == Neighbours(graph, node)
<1>1. /\ phase = "contract" /\ node \in todo
      /\ node_data' = [node_data EXCEPT !.weights = result.weights,
                                        !.is_core = [n \in Nodes |-> @[n] /\ ~(last /\ n \in batch)]]
      /\ inserted' = [inserted EXCEPT ![t] = @ \o more]
      /\ todo' = (IF todo \ {node} = {} THEN batch ELSE todo \ {node})
      /\ phase' = (IF todo \ {node} = {} THEN "delete" ELSE phase)
      /\ graph' = graph /\ remaining' = remaining /\ number_of_core_nodes' = number_of_core_nodes
      /\ new_to_old' = new_to_old /\ batch' = batch
  BY DEF ContractNode, Barrier
<1>2. /\ Consistent(graph, ContractorEdges) /\ node_data \in NodeRecords
      /\ inserted \in [Threads -> Seq(Shortcuts)]
  BY <1>1 DEF RunInv, GraphInv, NodeInv, InsertedInv, RunPhases, LoopPhases
<1>3. /\ remaining \subseteq Nodes /\ batch \subseteq remaining /\ todo \subseteq batch /\ batch \subseteq Core
      /\ remaining \subseteq Core
      /\ \A n \in remaining : node_data.contractable[n]
      /\ \A n \in Core \ remaining : ~ node_data.contractable[n] /\ node_data.priorities[n] = MaxPriority
  BY <1>1 DEF RunInv, PoolInv, LoopPhases
<1>4. \A u \in Core : \A v \in GetTargets(graph, u) : u \in GetTargets(graph, v) /\ v \in Core
  BY <1>1 DEF RunInv, SymmetryInv, RunPhases, LoopPhases
<1>5. C \subseteq Core \ batch
  <2>1. \A v \in batch : v # node => v \notin C
    BY <1>1, <1>3 DEF RunInv, ContractedApart
  <2> QED BY <1>1, <1>3, <1>4, <2>1 DEF Neighbours
<1>6. result \in Results /\ BothWays(result.edges, C)
  <2> DEFINE w == node_data.weights
  <2>1. w \in [Nodes -> Nat] /\ simulation \in BOOLEAN
    BY <1>2 DEF NodeRecords
  <2> HIDE DEF w, simulation
  <2>2. /\ ContractEdges(graph, node, w, simulation) \in Results
        /\ BothWays(ContractEdges(graph, node, w, simulation).edges, Neighbours(graph, node))
    BY <1>2, <2>1, ContractEdgesResult
  <2> QED BY <2>2 DEF w
<1> HIDE DEF result, simulation
<1>7. result.weights \in [Nodes -> Nat] /\ result.edges \in Seq(Shortcuts)
  BY <1>6 DEF Results
<1>8. more \in Seq(Shortcuts) /\ BothWays(more, C)
  <2>1. more \in Seq(Shortcuts) /\ \A u, v : Joins(more, u, v) <=> Joins(result.edges, u, v)
    BY <1>7, MergedShortcuts
  <2> HIDE DEF more, C
  <2> QED BY <1>6, <2>1, BothWaysJoins
<1> HIDE DEF more
<1>9. /\ node_data' \in NodeRecords
      /\ node_data'.contractable = node_data.contractable /\ node_data'.priorities = node_data.priorities
  <2>1. [n \in Nodes |-> node_data.is_core[n] /\ ~(last /\ n \in batch)] \in [Nodes -> BOOLEAN]
    OBVIOUS
  <2> HIDE DEF last
  <2> QED BY <1>1, <1>2, <1>7, <2>1 DEF NodeRecords
<1>10. \A n \in Nodes : node_data'.is_core[n] <=> node_data.is_core[n] /\ ~(last /\ n \in batch)
  <2> DEFINE flags == [n \in Nodes |-> node_data.is_core[n] /\ ~(last /\ n \in batch)]
  <2>1. node_data'.is_core = flags
    <3> HIDE DEF last
    <3> QED BY <1>1, <1>2 DEF NodeRecords
  <2>2. \A n \in Nodes : flags[n] = (node_data.is_core[n] /\ ~(last /\ n \in batch))
    OBVIOUS
  <2> HIDE DEF flags
  <2> QED BY <2>1, <2>2, Zenon
<1>11. \A n : n \in Core' <=> n \in Core /\ ~(last /\ n \in batch)
  BY <1>10, Zenon DEF Core
<1>12. /\ last => phase' = "delete" /\ todo' = batch
       /\ ~ last => phase' = "contract" /\ todo' = todo \ {node}
  BY <1>1
<1> HIDE DEF Core, last
<1>13. GraphInv' /\ NumberingInv' /\ phase' \in Phases
  BY <1>1, <1>12 DEF RunInv, GraphInv, NumberingInv, Phases, RunPhases, LoopPhases
<1>14. NodeInv'
  <2>1. \A n \in Nodes : node_data.contractable[n] => node_data.priorities[n][2] > 0
    BY <1>1 DEF RunInv, NodeInv, RunPhases, LoopPhases
  <2> QED BY <1>9, <2>1 DEF NodeInv
<1>15. PoolInv'
  <2>1. /\ remaining' = remaining /\ batch' = batch /\ node_data'.contractable = node_data.contractable
        /\ node_data'.priorities = node_data.priorities
    BY <1>1, <1>9
  <2>2. CASE last
    BY ONLY <1>3, <1>11, <1>12, <2>1, <2>2 DEF PoolInv
  <2>3. CASE ~ last
    BY ONLY <1>3, <1>11, <1>12, <2>1, <2>3 DEF PoolInv
  <2> QED BY <2>2, <2>3
<1>16. SymmetryInv'
  <2>1. CASE last
    BY <1>1, <1>4, <1>11, <1>12, <2>1 DEF SymmetryInv
  <2>2. CASE ~ last
    BY <1>1, <1>4, <1>11, <1>12, <2>2 DEF SymmetryInv
  <2> QED BY <2>1, <2>2
<1>17. InsertedInv'
  <2> DEFINE D == Core \ batch
             old == inserted[t]
  <2>1. \A s \in Threads : BothWays(inserted[s], D)
    BY DEF RunInv, InsertedInv, BothWays
  <2>2. BothWays(more, D)
    BY <1>5, <1>8 DEF BothWays
  <2>3. old \in Seq(Shortcuts)
    BY <1>2
  <2>4. BothWays(old, D)
    BY <2>1
  <2> HIDE DEF D, C
  <2>5. old \o more \in Seq(Shortcuts) /\ BothWays(old \o more, D)
    <3> HIDE DEF old
    <3> QED BY <1>8, <2>2, <2>3, <2>4, BothWaysConcat
  <2>6. /\ inserted'[t] = old \o more /\ inserted' \in [Threads -> Seq(Shortcuts)]
        /\ \A s \in Threads \ {t} : inserted'[s] = inserted[s]
    BY <1>1, <1>2, <2>5
  <2>7. \A s \in Threads : BothWays(inserted'[s], D)
    BY <2>1, <2>5, <2>6
  <2>8. \A n : n \in D <=> n \in Core' \ batch'
    BY <1>1, <1>11 DEF D
  <2>9. phase' \in {"contract", "delete"}
    BY <1>12
  <2> QED BY <2>6, <2>7, <2>8, <2>9 DEF InsertedInv, BothWays
<1>18. ContractedApart'
  <2>1. \A n : Neighbours(graph, n)' = Neighbours(graph, n)
    BY <1>1 DEF Neighbours, GetTargets, Adjacent, BeginEdges, EndEdges
  <2> QED BY <1>1, <2>1 DEF RunInv, ContractedApart
<1> QED
  BY <1>13, <1>14, <1>15, <1>16, <1>17, <1>18 DEF RunInv

\* The neighbours of a contracted node drop their edges to it.
LEMMA DeleteIncomingEdgesKeeps ==
    ASSUME RunInv, NEW node \in Nodes, DeleteIncomingEdges(node)
    PROVE  RunInv'
<1>1. /\ phase = "delete" /\ node \in todo /\ graph' = CutOff(graph, node)
      /\ todo' = (IF todo \ {node} = {} THEN Threads ELSE todo \ {node})
      /\ phase' = (IF todo \ {node} = {} THEN "insert" ELSE phase)
      /\ node_data' = node_data /\ remaining' = remaining /\ number_of_core_nodes' = number_of_core_nodes
      /\ new_to_old' = new_to_old /\ batch' = batch /\ inserted' = inserted
  BY DEF DeleteIncomingEdges, Barrier
<1>2. Consistent(graph, ContractorEdges)
  BY DEF RunInv, GraphInv
<1>3. /\ remaining \subseteq Nodes /\ batch \subseteq remaining /\ todo \subseteq batch /\ batch \cap Core = {}
      /\ remaining \ batch \subseteq Core
      /\ \A n \in remaining : node_data.contractable[n]
      /\ \A n \in Core \ remaining : ~ node_data.contractable[n] /\ node_data.priorities[n] = MaxPriority
  BY <1>1 DEF RunInv, PoolInv, LoopPhases
<1>4. \A u \in Core : \A v \in GetTargets(graph, u) : u \in GetTargets(graph, v) /\ (v \in Core \/ v \in todo)
  BY <1>1 DEF RunInv, SymmetryInv, RunPhases, LoopPhases
<1>5. /\ Consistent(graph', ContractorEdges)
      /\ \A n \in Nodes : \A v : v \in GetTargets(graph', n)
           <=> v \in GetTargets(graph, n) /\ ~(n \in Neighbours(graph, node) /\ v = node)
  BY <1>1, <1>2, CutOffTargets
<1>6. Core' = Core /\ Core \subseteq Nodes
  BY <1>1 DEF Core
<1>7. \/ phase' = "insert" /\ todo' = Threads /\ todo = {node}
      \/ phase' = "delete" /\ todo' = todo \ {node}
  BY <1>1
<1> HIDE DEF Core
<1>8. GraphInv' /\ NumberingInv' /\ phase' \in Phases
  BY <1>1, <1>5, <1>7 DEF RunInv, GraphInv, NumberingInv, Phases, RunPhases, LoopPhases
<1>9. NodeInv'
  BY <1>1 DEF RunInv, NodeInv, RunPhases, LoopPhases
<1>10. PoolInv'
  <2>1. remaining' = remaining /\ batch' = batch /\ node_data' = node_data
    BY <1>1
  <2> QED BY ONLY <1>3, <1>6, <1>7, <2>1 DEF PoolInv
<1>11. SymmetryInv'
  <2>1. ASSUME NEW u \in Core, NEW v, v \in GetTargets(graph', u)
        PROVE  u \in GetTargets(graph', v) /\ v # node /\ (v \in Core \/ v \in todo)
    <3>1. v \in GetTargets(graph, u) /\ ~(u \in Neighbours(graph, node) /\ v = node)
      BY <1>5, <1>6, <2>1
    <3>2. u \in GetTargets(graph, v) /\ (v \in Core \/ v \in todo) /\ u # node
      BY <1>1, <1>3, <1>4, <3>1
    <3>3. v # node
      BY <3>1, <3>2 DEF Neighbours
    <3>4. v \in Nodes
      BY <1>3, <1>6, <3>2
    <3> QED BY <1>5, <3>2, <3>3, <3>4
  <2> QED BY <1>6, <1>7, <2>1 DEF SymmetryInv
<1>12. InsertedInv'
  BY <1>1, <1>6, <1>7 DEF RunInv, InsertedInv
<1>13. ContractedApart'
  <2>1. \A n \in Nodes : Neighbours(graph', n) \subseteq Neighbours(graph, n)
    BY <1>5 DEF Neighbours
  <2>2. \A m, n \in batch : m # n => m \notin Neighbours(graph, n) /\ Neighbours(graph, m) \cap Neighbours(graph, n) = {}
    BY <1>1 DEF RunInv, ContractedApart
  <2>3. \A m, n \in batch : m # n => m \notin Neighbours(graph', n) /\ Neighbours(graph', m) \cap Neighbours(graph', n) = {}
    BY <1>3, <2>1, <2>2
  <2> QED BY <1>1, <2>3 DEF ContractedApart
<1> QED
  BY <1>8, <1>9, <1>10, <1>11, <1>12, <1>13 DEF RunInv

\* The shortcuts of a thread go into the graph, in whatever order they were sorted.
LEMMA InsertEdgesKeeps ==
    ASSUME RunInv, NEW t \in Threads, InsertEdges(t)
    PROVE  RunInv'
<1>1. /\ phase = "insert" /\ t \in todo
      /\ \E edges \in Sorted(inserted[t]) : graph' = InsertShortcuts(graph, edges)
      /\ inserted' = [inserted EXCEPT ![t] = <<>>]
      /\ phase' = (IF todo \ {t} = {} THEN "update" ELSE phase)
      /\ (todo \ {t} # {} => todo' = todo \ {t})
      /\ node_data' = node_data /\ remaining' = remaining /\ number_of_core_nodes' = number_of_core_nodes
      /\ new_to_old' = new_to_old /\ batch' = batch
  BY DEF InsertEdges, Barrier
<1>2. /\ Consistent(graph, ContractorEdges) /\ inserted \in [Threads -> Seq(Shortcuts)]
  BY DEF RunInv, GraphInv, InsertedInv
<1>3. /\ remaining \subseteq Nodes /\ batch \subseteq remaining /\ batch \cap Core = {}
      /\ remaining \ batch \subseteq Core
      /\ \A n \in remaining : node_data.contractable[n]
      /\ \A n \in Core \ remaining : ~ node_data.contractable[n] /\ node_data.priorities[n] = MaxPriority
  BY <1>1 DEF RunInv, PoolInv, LoopPhases
<1>4. \A u \in Core : \A v \in GetTargets(graph, u) : u \in GetTargets(graph, v) /\ v \in Core
  BY <1>1 DEF RunInv, SymmetryInv, RunPhases, LoopPhases
<1> DEFINE old == inserted[t]
<1>5. old \in Seq(Shortcuts)
  BY <1>2
<1>6. \A u, v : Joins(old, u, v) => Joins(old, v, u) /\ u \in Core /\ v \in Core
  BY DEF RunInv, InsertedInv, Joins
<1>7. PICK edges \in Sorted(old) : graph' = InsertShortcuts(graph, edges)
  BY <1>1
<1> HIDE DEF old
<1>8. edges \in Seq(Shortcuts) /\ \A u, v : Joins(edges, u, v) <=> Joins(old, u, v)
  BY <1>5, <1>7, SortedJoins
<1>9. /\ Consistent(graph', ContractorEdges)
      /\ \A n \in Nodes : \A v : v \in GetTargets(graph', n) <=> v \in GetTargets(graph, n) \/ Joins(edges, n, v)
  BY <1>2, <1>7, <1>8, InsertShortcutsTargets
<1>10. Core' = Core /\ Core \subseteq Nodes
  BY <1>1 DEF Core
<1>11. \/ phase' = "update" /\ todo = {t}
       \/ phase' = "insert" /\ todo' = todo \ {t}
  BY <1>1
<1> HIDE DEF Core
<1>12. GraphInv' /\ NumberingInv' /\ phase' \in Phases
  BY <1>1, <1>9, <1>11 DEF RunInv, GraphInv, NumberingInv, Phases, RunPhases, LoopPhases
<1>13. NodeInv'
  BY <1>1 DEF RunInv, NodeInv, RunPhases, LoopPhases
<1>14. PoolInv'
  <2>1. remaining' = remaining /\ batch' = batch /\ node_data' = node_data
    BY <1>1
  <2> QED BY ONLY <1>3, <1>10, <1>11, <2>1 DEF PoolInv
<1>15. SymmetryInv'
  <2>1. ASSUME NEW u \in Core, NEW v, v \in GetTargets(graph', u)
        PROVE  u \in GetTargets(graph', v) /\ v \in Core
    <3>1. v \in GetTargets(graph, u) \/ Joins(old, u, v)
      BY <1>8, <1>9, <1>10, <2>1
    <3>2. v \in Core /\ (u \in GetTargets(graph, v) \/ Joins(old, v, u))
      BY <1>4, <1>6, <3>1
    <3> QED BY <1>8, <1>9, <1>10, <3>2
  <2> QED BY <1>10, <2>1 DEF SymmetryInv
<1>16. InsertedInv'
  <2>1. /\ inserted'[t] = <<>> /\ inserted' \in [Threads -> Seq(Shortcuts)]
        /\ \A s \in Threads \ {t} : inserted'[s] = inserted[s]
    BY <1>1, <1>2
  <2>2. ToSet(<<>>) = {}
    BY DEF ToSet
  <2>3. ASSUME NEW s \in Threads, ~(phase' = "insert" /\ s \in todo') PROVE inserted'[s] = <<>>
    <3>1. CASE s = t
      BY <2>1, <3>1
    <3>2. CASE s # t
      <4>1. s \notin todo
        BY <1>11, <2>3, <3>2
      <4>2. inserted[s] = <<>>
        BY <1>1, <4>1 DEF RunInv, InsertedInv
      <4> QED BY <2>1, <3>2, <4>2
    <3> QED BY <3>1, <3>2
  <2>4. ASSUME NEW s \in Threads, NEW e \in ToSet(inserted'[s])
        PROVE  /\ e.source \in Core \ batch /\ e.to \in Core \ batch
               /\ \E f \in ToSet(inserted'[s]) : f.source = e.to /\ f.to = e.source
    <3>1. s # t
      BY <2>1, <2>2
    <3> QED BY <2>1, <3>1 DEF RunInv, InsertedInv
  <2> QED BY <1>1, <1>10, <1>11, <2>1, <2>3, <2>4 DEF InsertedInv
<1>17. ContractedApart'
  BY <1>11 DEF ContractedApart
<1> QED
  BY <1>12, <1>13, <1>14, <1>15, <1>16, <1>17 DEF RunInv

\* A contraction starts on a consistent array in which the nodes that are left have edges
\* to each other only, there and back.
LEMMA ContractGraphStarts ==
    ASSUME NEW g, Consistent(g, ContractorEdges), NEW U, U \subseteq Nodes, Closed(g, U), NEW C,
           NEW weights \in [Nodes -> Nat], NEW core \in Nat, contractGraph(g, U, C, weights, core)
    PROVE  RunInv'
<1>1. /\ graph' = g /\ remaining' = U \cap C /\ number_of_core_nodes' = core
      /\ new_to_old' = [n \in Nodes |-> n] /\ batch' = {} /\ todo' = remaining'
      /\ phase' \in {"prioritise", "head"} /\ inserted' = [t \in Threads |-> <<>>]
      /\ node_data' = [is_core      |-> [n \in Nodes |-> n \in U],
                       contractable |-> [n \in Nodes |-> n \in C],
                       priorities   |-> [n \in Nodes |-> IF n \in U \ C THEN MaxPriority ELSE <<0, 1>>],
                       weights      |-> weights,
                       depths       |-> [n \in Nodes |-> 0]]
  BY DEF contractGraph
<1>2. /\ node_data' \in NodeRecords
      /\ \A n \in Nodes : /\ node_data'.is_core[n] <=> n \in U
                          /\ node_data'.contractable[n] <=> n \in C
                          /\ node_data'.priorities[n] = IF n \in U \ C THEN <<1, 0>> ELSE <<0, 1>>
  <2> DEFINE core_flags == [n \in Nodes |-> n \in U]
             flags == [n \in Nodes |-> n \in C]
             ps == [n \in Nodes |-> IF n \in U \ C THEN <<1, 0>> ELSE <<0, 1>>]
             zero == [n \in Nodes |-> 0]
  <2>1. /\ core_flags \in [Nodes -> BOOLEAN] /\ flags \in [Nodes -> BOOLEAN]
        /\ ps \in [Nodes -> Int \X Nat] /\ zero \in [Nodes -> Nat]
    OBVIOUS
  <2>2. \A n \in Nodes : core_flags[n] = (n \in U) /\ flags[n] = (n \in C)
    OBVIOUS
  <2>3. \A n \in Nodes : ps[n] = IF n \in U \ C THEN <<1, 0>> ELSE <<0, 1>>
    OBVIOUS
  <2>4. node_data' = [is_core |-> core_flags, contractable |-> flags, priorities |-> ps,
                      weights |-> weights, depths |-> zero]
    BY <1>1 DEF MaxPriority
  <2> HIDE DEF core_flags, flags, ps, zero
  <2>5. node_data' \in NodeRecords
    BY <2>1, <2>4 DEF NodeRecords
  <2>6. node_data'.is_core = core_flags /\ node_data'.contractable = flags /\ node_data'.priorities = ps
    BY <2>4
  <2>7. \A n \in Nodes : (node_data'.is_core[n] <=> n \in U) /\ (node_data'.contractable[n] <=> n \in C)
    BY <2>2, <2>6, Zenon
  <2> QED BY <2>3, <2>5, <2>6, <2>7
<1>3. Core' = U
  BY <1>2 DEF Core
<1> HIDE DEF Core
<1>4. GraphInv' /\ NumberingInv' /\ phase' \in Phases
  <2>1. IsNumbering(new_to_old')
    BY <1>1, OriginalNumbering
  <2> QED BY <1>1, <2>1 DEF GraphInv, NumberingInv, Phases, RunPhases, LoopPhases
<1>5. NodeInv'
  <2>1. \A n \in Nodes : node_data'.contractable[n] => node_data'.priorities[n][2] > 0
    BY <1>2
  <2> QED BY <1>2, <2>1 DEF NodeInv
<1>6. PoolInv'
  <2>1. \A n \in U \ remaining' : ~ node_data'.contractable[n] /\ node_data'.priorities[n] = MaxPriority
    BY <1>1, <1>2 DEF MaxPriority
  <2>2. \A n \in remaining' : node_data'.contractable[n]
    BY <1>1, <1>2
  <2> QED BY <1>1, <1>3, <2>1, <2>2 DEF PoolInv
<1>7. SymmetryInv'
  BY <1>1, <1>3 DEF SymmetryInv, Closed
<1>8. InsertedInv'
  <2>1. ToSet(<<>>) = {}
    BY DEF ToSet
  <2>2. inserted' \in [Threads -> Seq(Shortcuts)] /\ \A t \in Threads : inserted'[t] = <<>>
    BY <1>1
  <2> QED BY <2>1, <2>2 DEF InsertedInv
<1>9. ContractedApart'
  BY <1>1 DEF ContractedApart
<1> QED
  BY <1>4, <1>5, <1>6, <1>7, <1>8, <1>9 DEF RunInv

\* A filtered graph is closed between the nodes that are kept.
LEMMA FilteredGraph ==
    ASSUME NEW g, Consistent(g, ContractorEdges), NEW keep, NEW U, Closed(g, U), U \subseteq Nodes
    PROVE  Consistent(Filter(g, keep), ContractorEdges) /\ Closed(Filter(g, keep), U)
<1>1. /\ Consistent(Filter(g, keep), ContractorEdges)
      /\ \A n \in Nodes : \A v : v \in GetTargets(Filter(g, keep), n)
                                   <=> v \in GetTargets(g, n) /\ n \in keep /\ v \in keep
  BY EdgesLead, FilterConsistent
<1> QED
  BY <1>1 DEF Closed

\* The input becomes a graph with edges there and back.
LEMMA BeginContractionKeeps ==
    ASSUME ContractorInv, BeginContraction
    PROVE  ContractorInv'
<1> DEFINE g == toContractorGraph(arcs)
<1>1. InputInv' /\ SharedCoreInv'
  BY InputKept DEF ContractorInv, BeginContraction
<1>2. Consistent(g, ContractorEdges) /\ Closed(g, Nodes)
  <2>1. \A a \in arcs : a.from \in Nodes /\ a.to \in Nodes /\ a.weight \in Nat
    BY ContractionAssumption DEF ContractorInv, InputInv
  <2>2. /\ Consistent(toContractorGraph(arcs), ContractorEdges) /\ Mutual(toContractorGraph(arcs), Nodes)
        /\ \A u \in Nodes : GetTargets(toContractorGraph(arcs), u) \subseteq Nodes
    BY <2>1, InputGraph
  <2> HIDE DEF g
  <2> QED BY <2>2 DEF Closed, Mutual, g
<1>3. bounds \in [Nodes -> Nat] /\ BaseCore \in Nat /\ 0 \in Nat /\ Nodes \subseteq Nodes
  BY ContractionAssumption DEF ContractorInv, InputInv
<1> HIDE DEF g
<1>4. CASE contractGraph(g, Nodes, Nodes, bounds, 0)
  BY <1>1, <1>2, <1>3, <1>4, ContractGraphStarts DEF ContractorInv
<1>5. CASE contractGraph(g, Nodes, AlwaysAllowed, bounds, BaseCore)
  <2> DEFINE C == AlwaysAllowed
  <2> HIDE DEF C
  <2>1. contractGraph(g, Nodes, C, bounds, BaseCore)
    BY <1>5 DEF C
  <2> QED BY <1>1, <1>2, <1>3, <2>1, ContractGraphStarts DEF ContractorInv
<1> QED
  BY <1>4, <1>5 DEF BeginContraction, g

\* The shared core is what is left of the graph, closed under its edges.
LEMMA SharedGraphContractedKeeps ==
    ASSUME ContractorInv, SharedGraphContracted
    PROVE  ContractorInv'
<1> DEFINE core == {n \in Nodes : node_data.is_core[n]}
           g == Filter(graph, core)
           h == Filter(g, filters[1])
<1>1. /\ phase = "returned" /\ shared_core' = [graph |-> g, nodes |-> core]
      /\ contractGraph(h, core, core, bounds, 0) /\ arcs' = arcs /\ bounds' = bounds
  BY DEF SharedGraphContracted
<1>2. Consistent(graph, ContractorEdges) /\ core \subseteq Nodes /\ Closed(graph, core)
  <2>1. \A u \in Core : \A v \in GetTargets(graph, u) : u \in GetTargets(graph, v) /\ v \in Core
    BY <1>1 DEF ContractorInv, RunInv, SymmetryInv, RunPhases
  <2> QED BY <2>1 DEF ContractorInv, RunInv, GraphInv, Core, Closed
<1>3. bounds \in [Nodes -> Nat] /\ 0 \in Nat
  BY ContractionAssumption DEF ContractorInv, InputInv
<1> HIDE DEF core
<1>4. Consistent(g, ContractorEdges) /\ Closed(g, core)
  BY <1>2, FilteredGraph
<1>5. \A n \in Nodes : \A v : v \in GetTargets(g, n) => n \in core /\ v \in core
  BY <1>2, EdgesLead, FilterConsistent
<1> HIDE DEF g
<1>6. Consistent(h, ContractorEdges) /\ Closed(h, core)
  BY <1>2, <1>4, FilteredGraph
<1> HIDE DEF h
<1>7. RunInv'
  BY <1>1, <1>2, <1>3, <1>6, ContractGraphStarts
<1>8. SharedCoreInv'
  <2>1. \A u \in Nodes : \A v \in GetTargets(g, u) : u \in GetTargets(g, v) /\ u \in core /\ v \in core
    BY <1>4, <1>5 DEF Closed
  <2>2. shared_core'.graph = g /\ shared_core'.nodes = core
    BY <1>1
  <2> QED BY <1>2, <1>4, <2>1, <2>2 DEF SharedCoreInv
<1>9. InputInv'
  BY <1>1 DEF ContractorInv, InputInv
<1> QED
  BY <1>7, <1>8, <1>9 DEF ContractorInv

\* A hierarchy that is complete: the graph is not worked on any more.
LEMMA WrittenKeeps ==
    ASSUME RunInv, phase = "returned", phase' = "written", UNCHANGED <<graph, node_data, remaining,
           number_of_core_nodes, new_to_old, batch, inserted>>
    PROVE  RunInv'
<1>1. Core' = Core
  BY DEF Core
<1> HIDE DEF Core
<1>2. GraphInv' /\ NumberingInv' /\ phase' \in Phases /\ NodeInv' /\ SymmetryInv'
  BY DEF RunInv, GraphInv, NumberingInv, Phases, NodeInv, SymmetryInv, RunPhases, LoopPhases
<1>3. PoolInv'
  BY DEF RunInv, PoolInv, LoopPhases
<1>4. InsertedInv'
  BY <1>1 DEF RunInv, InsertedInv
<1>5. ContractedApart'
  BY DEF ContractedApart
<1> QED
  BY <1>2, <1>3, <1>4, <1>5 DEF RunInv

\* The shared core is as it was when the next filter begins.
LEMMA FilterContractedKeeps ==
    ASSUME ContractorInv, FilterContracted
    PROVE  ContractorInv'
<1>1. phase = "returned" /\ arcs' = arcs /\ bounds' = bounds /\ shared_core' = shared_core
  BY DEF FilterContracted
<1>2. InputInv' /\ SharedCoreInv'
  BY <1>1 DEF ContractorInv, InputInv, SharedCoreInv
<1>3. CASE filter_index < Len(filters)
  <2> DEFINE g == shared_core.graph
             U == shared_core.nodes
             h == Filter(g, filters[filter_index + 1])
  <2>1. contractGraph(h, U, U, bounds, 0)
    BY <1>3 DEF FilterContracted
  <2>2. Consistent(g, ContractorEdges) /\ U \subseteq Nodes /\ Closed(g, U)
    BY DEF ContractorInv, SharedCoreInv, Closed
  <2>3. bounds \in [Nodes -> Nat] /\ 0 \in Nat
    BY ContractionAssumption DEF ContractorInv, InputInv
  <2> HIDE DEF g, U
  <2>4. Consistent(h, ContractorEdges) /\ Closed(h, U)
    BY <2>2, FilteredGraph
  <2> HIDE DEF h
  <2>5. RunInv'
    BY <2>1, <2>2, <2>3, <2>4, ContractGraphStarts
  <2> QED BY <1>2, <2>5 DEF ContractorInv
<1>4. CASE ~(filter_index < Len(filters))
  <2>1. RunInv'
    BY <1>1, <1>4, WrittenKeeps DEF ContractorInv, FilterContracted
  <2> QED BY <1>2, <2>1 DEF ContractorInv
<1> QED
  BY <1>3, <1>4

\* The contractor ends and leaves nothing behind.
LEMMA OpenFacadeKeeps ==
    ASSUME ContractorInv, NEW i, OpenFacade(i)
    PROVE  ContractorInv'
<1>1. /\ phase = "written" /\ phase' = "gone" /\ graph' = EmptyGraph
      /\ node_data' = [is_core |-> [n \in Nodes |-> FALSE]]
      /\ shared_core' = [graph |-> EmptyGraph, nodes |-> {}]
      /\ remaining' = remaining /\ number_of_core_nodes' = number_of_core_nodes /\ new_to_old' = new_to_old
      /\ batch' = batch /\ inserted' = inserted /\ arcs' = arcs /\ bounds' = bounds
  BY DEF OpenFacade
<1>2. Consistent(EmptyGraph, ContractorEdges) /\ \A n \in Nodes : GetTargets(EmptyGraph, n) = {}
  BY EmptyGraphConsistent
<1>3. InputInv'
  BY <1>1 DEF ContractorInv, InputInv
<1>4. SharedCoreInv'
  <2>1. shared_core'.graph = EmptyGraph /\ shared_core'.nodes = {}
    BY <1>1
  <2> QED BY <1>2, <2>1 DEF SharedCoreInv
<1>5. GraphInv' /\ NumberingInv' /\ phase' \in Phases
  BY <1>1, <1>2 DEF ContractorInv, RunInv, GraphInv, NumberingInv, Phases
<1>6. NodeInv' /\ SymmetryInv' /\ ContractedApart'
  BY <1>1 DEF NodeInv, SymmetryInv, ContractedApart, RunPhases, LoopPhases
<1>7. PoolInv'
  BY <1>1 DEF ContractorInv, RunInv, PoolInv, LoopPhases
<1>8. InsertedInv'
  <2>1. \A t \in Threads : inserted[t] = <<>>
    BY <1>1 DEF ContractorInv, RunInv, InsertedInv
  <2>2. ToSet(<<>>) = {}
    BY DEF ToSet
  <2>3. inserted \in [Threads -> Seq(Shortcuts)]
    BY DEF ContractorInv, RunInv, InsertedInv
  <2> QED BY <1>1, <2>1, <2>2, <2>3 DEF InsertedInv
<1> QED
  BY <1>3, <1>4, <1>5, <1>6, <1>7, <1>8 DEF ContractorInv, RunInv

-----------------------------------------------------------------------------
(***************************************************************************)
(* The steps of the first contraction keep the distances of the input.     *)
(***************************************************************************)
\* A step that leaves the graph, the core and the shortcuts alone keeps what is said of them.
LEMMA SameRunDistances ==
    ASSUME RunDistances, graph' = graph, Core' = Core, inserted' = inserted, new_to_old' = new_to_old,
           InputArcs' = InputArcs, Contracted' \subseteq Contracted
    PROVE  RunDistances'
<1> DEFINE C == Core
           input == InputArcs
           contracted == Contracted
<1>1. KeepsDistances(graph, C, inserted, new_to_old, input, contracted)
  BY DEF RunDistances
<1>2. graph' = graph /\ C' = C /\ inserted' = inserted /\ new_to_old' = new_to_old /\ input' = input
  OBVIOUS
<1>3. contracted' \subseteq contracted
  OBVIOUS
<1>4. RunDistances' = KeepsDistances(graph', C', inserted', new_to_old', input', contracted')
  BY DEF RunDistances
<1> HIDE DEF C, input, contracted
<1>5. KeepsDistances(graph, C, inserted, new_to_old, input, contracted')
  BY <1>1, <1>3 DEF KeepsDistances
<1> QED
  BY <1>2, <1>4, <1>5

\* A simulated contraction only reads the graph.
LEMMA InitialPriorityDistances ==
    ASSUME RunInv, RunDistances, InputArcs' = InputArcs, NEW node \in Nodes, InitialPriority(node)
    PROVE  RunDistances'
<1> DEFINE sim == Simulated(graph, node, node_data.weights, node_data.depths[node])
<1>1. /\ phase = "prioritise" /\ phase' \in {"prioritise", "head"}
      /\ node_data' = [node_data EXCEPT !.weights = sim.weights, !.priorities[node] = sim.priority]
      /\ graph' = graph /\ new_to_old' = new_to_old /\ inserted' = inserted
  BY DEF InitialPriority, Barrier
<1>2. node_data \in NodeRecords
  BY <1>1 DEF RunInv, NodeInv, RunPhases, LoopPhases
<1> HIDE DEF sim
<1>3. node_data'.is_core = node_data.is_core
  BY <1>1, <1>2 DEF NodeRecords
<1>4. Core' = Core
  BY <1>3 DEF Core
<1>5. Contracted' = {}
  BY <1>1 DEF Contracted
<1> QED
  BY <1>1, <1>4, <1>5, SameRunDistances

\* So does the one that prices a neighbour anew.
LEMMA UpdateNodeNeighboursDistances ==
    ASSUME RunInv, RunDistances, InputArcs' = InputArcs, NEW node \in Nodes, NEW u \in Nodes,
           UpdateNodeNeighbours(node, u)
    PROVE  RunDistances'
<1> DEFINE depth == Max({node_data.depths[node] + 1, node_data.depths[u]})
           sim == Simulated(graph, u, node_data.weights, depth)
<1>1. /\ phase = "update" /\ phase' = phase
      /\ node_data' = IF node_data.contractable[u]
                      THEN [node_data EXCEPT !.depths[u] = depth, !.weights = sim.weights,
                                             !.priorities[u] = sim.priority]
                      ELSE [node_data EXCEPT !.depths[u] = depth]
      /\ graph' = graph /\ new_to_old' = new_to_old /\ inserted' = inserted
  BY DEF UpdateNodeNeighbours
<1>2. node_data \in NodeRecords
  BY <1>1 DEF RunInv, NodeInv, RunPhases, LoopPhases
<1> HIDE DEF sim, depth
<1>3. node_data'.is_core = node_data.is_core
  <2>1. CASE node_data.contractable[u]
    BY <1>1, <1>2, <2>1 DEF NodeRecords
  <2>2. CASE ~ node_data.contractable[u]
    BY <1>1, <1>2, <2>2 DEF NodeRecords
  <2> QED BY <2>1, <2>2
<1>4. Core' = Core
  BY <1>3 DEF Core
<1>5. Contracted' = {}
  BY <1>1 DEF Contracted
<1> QED
  BY <1>1, <1>4, <1>5, SameRunDistances

\* A batch is chosen, of which no node is contracted yet.
LEMMA FindIndependentDistances ==
    ASSUME RunDistances, InputArcs' = InputArcs, FindIndependent
    PROVE  RunDistances'
<1>1. /\ todo' = batch' /\ graph' = graph /\ node_data' = node_data /\ new_to_old' = new_to_old /\ inserted' = inserted
  BY DEF FindIndependent
<1>2. Core' = Core
  BY <1>1 DEF Core
<1>3. Contracted' = {}
  BY <1>1 DEF Contracted
<1> QED
  BY <1>1, <1>2, <1>3, SameRunDistances

\* The batch is forgotten.
LEMMA EndRoundDistances ==
    ASSUME RunDistances, InputArcs' = InputArcs, EndRound
    PROVE  RunDistances'
<1>1. /\ phase' = "head" /\ graph' = graph /\ node_data' = node_data /\ new_to_old' = new_to_old /\ inserted' = inserted
  BY DEF EndRound
<1>2. Core' = Core
  BY <1>1 DEF Core
<1>3. Contracted' = {}
  BY <1>1 DEF Contracted
<1> QED
  BY <1>1, <1>2, <1>3, SameRunDistances

\* Renumbering renames the nodes that are left, at a time when no shortcuts wait.
LEMMA RenumberDataDistances ==
    ASSUME RunInv, RunDistances, InputArcs' = InputArcs, RenumberData
    PROVE  RunDistances'
<1> DEFINE perm == RemainingFirst
<1>1. /\ phase = "head" /\ phase' = phase /\ new_to_old' = Permuted(new_to_old, perm)
      /\ node_data' = RenumberNodeData(node_data, perm) /\ graph' = RenumberGraph(graph, perm)
      /\ inserted' = inserted
  BY DEF RenumberData
<1>2. /\ Consistent(graph, ContractorEdges) /\ IsNumbering(new_to_old) /\ node_data \in NodeRecords
      /\ remaining \subseteq Nodes
  BY <1>1 DEF RunInv, GraphInv, NumberingInv, NodeInv, PoolInv, RunPhases, LoopPhases
<1>3. IsNumbering(perm)
  BY <1>2, RemainingGetLowNumbers
<1> HIDE DEF perm
<1>4. RenamedWays(graph, graph', perm)
  BY <1>1, <1>2, <1>3, RenumberGraphTargets
<1>5. Core \subseteq Nodes /\ Core' \subseteq Nodes /\ \A n \in Nodes : perm[n] \in Core' <=> n \in Core
  <2>1. perm \in [Nodes -> Nodes]
    BY <1>3 DEF IsNumbering
  <2>2. \A o \in Nodes : node_data'.is_core[perm[o]] = node_data.is_core[o]
    BY <1>1, <1>2, <1>3, RenumberedData
  <2> QED BY <2>1, <2>2 DEF Core
<1>6. \A t \in Threads : inserted[t] = <<>> /\ inserted'[t] = <<>>
  BY <1>1 DEF RunInv, InsertedInv
<1>7. Contracted' = {}
  BY <1>1 DEF Contracted
<1>8. /\ new_to_old \in [Nodes -> Nodes] /\ new_to_old' \in [Nodes -> Nodes]
      /\ \A n \in Nodes : new_to_old'[perm[n]] = new_to_old[n]
  <2>1. new_to_old \in [Nodes -> Nodes]
    BY <1>2 DEF IsNumbering
  <2> QED BY <1>1, <1>3, <2>1, PermutedValues
<1> DEFINE C == Core
           D == Core'
           g == graph
           h == graph'
           old == inserted
           new == inserted'
           names == new_to_old
           others == new_to_old'
           input == InputArcs
<1>9. KeepsDistances(g, C, old, names, input, Contracted)
  BY DEF RunDistances
<1>10. RunDistances' = KeepsDistances(h, D, new, others, input, {})
  BY <1>7 DEF RunDistances
<1>11. /\ RenamedWays(g, h, perm) /\ C \subseteq Nodes /\ D \subseteq Nodes /\ \A n \in Nodes : perm[n] \in D <=> n \in C
       /\ \A t \in Threads : old[t] = <<>> /\ new[t] = <<>>
       /\ names \in [Nodes -> Nodes] /\ others \in [Nodes -> Nodes] /\ \A n \in Nodes : others[perm[n]] = names[n]
  BY <1>4, <1>5, <1>6, <1>8
<1> HIDE DEF C, D, g, h, old, new, names, others, input
<1>12. ArcsKept(old) = {} /\ ArcsKept(new) = {} /\ \A t \in Threads : IsMirrored(new[t])
  BY <1>11, NoneKept
<1>13. Represents(ArcsBetween(g, C), C, names, input) /\ HasMirrors(g, C)
  <2>1. ArcsBetween(g, C) \cup {} = ArcsBetween(g, C)
    OBVIOUS
  <2> QED BY <1>9, <1>12, <2>1 DEF KeepsDistances
<1>14. Relabelled(ArcsBetween(g, C), ArcsBetween(h, D), perm) /\ HasMirrors(h, D)
  BY <1>3, <1>11, <1>13, RenamedArcs
<1>15. ArcsBetween(g, C) \subseteq Arcs /\ ArcsBetween(h, D) \subseteq Arcs
  BY <1>11, ArcIsWay
<1>16. Represents(ArcsBetween(h, D), D, others, input)
  <2> DEFINE A == ArcsBetween(g, C)
             B == ArcsBetween(h, D)
  <2>1. /\ A \subseteq Arcs /\ B \subseteq Arcs /\ Relabelled(A, B, perm) /\ Represents(A, C, names, input)
        /\ \A n \in Nodes : perm[n] \in D => n \in C
    BY <1>11, <1>13, <1>14, <1>15
  <2> HIDE DEF A, B
  <2>2. Represents(B, D, others, input)
    BY <1>3, <1>11, <2>1, RelabelledRepresent
  <2> QED BY <2>2 DEF B
<1>17. ArcsBetween(h, D) \cup ArcsKept(new) = ArcsBetween(h, D)
  BY <1>12
<1>18. KeepsDistances(h, D, new, others, input, {})
  BY <1>12, <1>14, <1>16, <1>17 DEF KeepsDistances
<1> QED
  BY <1>10, <1>18

\* The shortcuts of a contracted node stand for the ways past it.  When the last node of the
\* batch is contracted, the batch leaves the core.
LEMMA ContractNodeDistances ==
    ASSUME RunInv, RunDistances, InputArcs' = InputArcs, NEW t \in Threads, NEW node \in Nodes, ContractNode(t, node)
    PROVE  RunDistances'
<1> DEFINE simulation == FALSE
           result == ContractEdges(graph, node, node_data.weights, simulation)
           more == MergeDirections(result.edges)
           last == todo = {node}
<1>1. /\ phase = "contract" /\ node \in todo
      /\ node_data' = [node_data EXCEPT !.weights = result.weights,
                                        !.is_core = [n \in Nodes |-> @[n] /\ ~(last /\ n \in batch)]]
      /\ inserted' = [inserted EXCEPT ![t] = @ \o more]
      /\ todo' = (IF todo \ {node} = {} THEN batch ELSE todo \ {node})
      /\ phase' = (IF todo \ {node} = {} THEN "delete" ELSE phase)
      /\ graph' = graph /\ new_to_old' = new_to_old /\ batch' = batch
  BY DEF ContractNode, Barrier
<1>2. /\ Consistent(graph, ContractorEdges) /\ node_data \in NodeRecords
      /\ inserted \in [Threads -> Seq(Shortcuts)] /\ IsNumbering(new_to_old)
  BY <1>1 DEF RunInv, GraphInv, NodeInv, NumberingInv, InsertedInv, RunPhases, LoopPhases
<1>3. todo \subseteq batch /\ batch \subseteq Core /\ Core \subseteq Nodes
  BY <1>1 DEF RunInv, PoolInv, LoopPhases, Core
<1>4. StaysIn(graph, Core)
  BY <1>1 DEF RunInv, SymmetryInv, RunPhases, LoopPhases, StaysIn
<1>5. \A m, n \in batch : m # n => m \notin Neighbours(graph, n) /\ Neighbours(graph, m) \cap Neighbours(graph, n) = {}
  BY <1>1 DEF RunInv, ContractedApart
<1>6. /\ result \in Results /\ IsMirrored(result.edges) /\ Sound(result.edges, graph, node)
      /\ \A in \in EdgeSet(graph, node) : in.backward /\ in.to # node => Covers(result.edges, graph, node, in)
  <2> DEFINE w == node_data.weights
  <2>1. w \in [Nodes -> Nat] /\ simulation \in BOOLEAN
    BY <1>2 DEF NodeRecords
  <2> HIDE DEF w, simulation
  <2>2. /\ ContractEdges(graph, node, w, simulation) \in Results
        /\ IsMirrored(ContractEdges(graph, node, w, simulation).edges)
        /\ Sound(ContractEdges(graph, node, w, simulation).edges, graph, node)
        /\ \A in \in EdgeSet(graph, node) : in.backward /\ in.to # node
             => Covers(ContractEdges(graph, node, w, simulation).edges, graph, node, in)
    BY <1>2, <2>1, ContractEdgesResult
  <2> QED BY <2>2 DEF w
<1> HIDE DEF result, simulation
<1>7. result.edges \in Seq(Shortcuts)
  BY <1>6 DEF Results
<1>8. more \in Seq(Shortcuts) /\ SameOffers(result.edges, more)
  BY <1>7, MergedShortcuts
<1> HIDE DEF more
<1>9. \A n \in Nodes : node_data'.is_core[n] <=> node_data.is_core[n] /\ ~(last /\ n \in batch)
  <2> DEFINE flags == [n \in Nodes |-> node_data.is_core[n] /\ ~(last /\ n \in batch)]
  <2>1. node_data'.is_core = flags
    <3> HIDE DEF last
    <3> QED BY <1>1, <1>2 DEF NodeRecords
  <2>2. \A n \in Nodes : flags[n] = (node_data.is_core[n] /\ ~(last /\ n \in batch))
    OBVIOUS
  <2> HIDE DEF flags
  <2> QED BY <2>1, <2>2, Zenon
<1>10. \A n : n \in Core' <=> n \in Core /\ ~(last /\ n \in batch)
  BY <1>9, Zenon DEF Core
<1>11. \A k \in Threads : \A e \in ToSet(inserted'[k]) : e.source \notin batch /\ e.to \notin batch
  <2>1. RunInv'
    BY ContractNodeKeeps
  <2> QED BY <1>1, <2>1 DEF RunInv, InsertedInv
<1> DEFINE C == Core
           g == graph
           old == inserted
           new == inserted'
           names == new_to_old
           input == InputArcs
           done == batch \ todo
           S == batch
           A == ArcsBetween(g, C)
           P == ArcsKept(old)
           Q == ArcsKept(new)
<1>12. KeepsDistances(g, C, old, names, input, done)
  BY <1>1 DEF RunDistances, Contracted
<1>13. last => RunDistances' = KeepsDistances(g, C \ S, new, names, input, {})
  <2> SUFFICES ASSUME last PROVE RunDistances' = KeepsDistances(g, C \ S, new, names, input, {})
    OBVIOUS
  <2>1. Core' = C \ S
    BY <1>10
  <2>2. Contracted' = {}
    BY <1>1 DEF Contracted
  <2> QED BY <1>1, <2>1, <2>2 DEF RunDistances
<1>14. ~ last => RunDistances' = KeepsDistances(g, C, new, names, input, done \cup {node})
  <2> SUFFICES ASSUME ~ last PROVE RunDistances' = KeepsDistances(g, C, new, names, input, done \cup {node})
    OBVIOUS
  <2>1. Core' = C
    BY <1>10
  <2>2. Contracted' = done \cup {node}
    BY <1>1, <1>3 DEF Contracted
  <2> QED BY <1>1, <2>1, <2>2 DEF RunDistances
<1>15. /\ Consistent(g, ContractorEdges) /\ C \subseteq Nodes /\ StaysIn(g, C) /\ node \in C
       /\ old \in [Threads -> Seq(Shortcuts)] /\ new = [old EXCEPT ![t] = @ \o more] /\ names \in [Nodes -> Nodes]
       /\ S \subseteq C /\ done \subseteq S /\ (last => S = done \cup {node})
       /\ \A m, n \in S : m # n => m \notin Neighbours(g, n) /\ Neighbours(g, m) \cap Neighbours(g, n) = {}
       /\ Sound(result.edges, g, node)
       /\ \A in \in EdgeSet(g, node) : in.backward /\ in.to # node => Covers(result.edges, g, node, in)
       /\ \A k \in Threads : \A e \in ToSet(new[k]) : e.source \notin S /\ e.to \notin S
  BY <1>1, <1>2, <1>3, <1>4, <1>5, <1>6, <1>11 DEF IsNumbering
<1> HIDE DEF C, g, old, new, names, input, done, S, last
<1>16. /\ Represents(A \cup P, C, names, input) /\ HasMirrors(g, C) /\ \A k \in Threads : IsMirrored(old[k])
       /\ \A n \in done : Bypassed(A, P, n)
  BY <1>12 DEF KeepsDistances
<1>17. IsMirrored(more)
  BY <1>6, <1>8 DEF IsMirrored, SameOffers, Directions
<1>18. /\ \A c \in Arcs : c \in Q <=> c \in P \/ Offers(more, "forward", c.from, c.to, c.weight)
       /\ \A k \in Threads : IsMirrored(new[k])
  BY <1>8, <1>15, <1>16, <1>17, MoreKept
<1>19. \A c \in Arcs : Offers(more, "forward", c.from, c.to, c.weight)
                         <=> Offers(result.edges, "forward", c.from, c.to, c.weight)
  BY <1>8 DEF SameOffers, Directions, Arcs
<1>20. A \subseteq Arcs /\ P \subseteq Arcs /\ Q \subseteq Arcs
  BY <1>15, ArcIsWay DEF ArcsKept
<1>21. P \subseteq Q /\ \A c \in Arcs : Offers(result.edges, "forward", c.from, c.to, c.weight) => c \in Q
  BY <1>18, <1>19, <1>20
<1>22. Bypassed(A, Q, node)
  <2> DEFINE edges == result.edges
  <2>1. /\ Consistent(g, ContractorEdges) /\ C \subseteq Nodes /\ StaysIn(g, C) /\ HasMirrors(g, C) /\ node \in C
        /\ \A in \in EdgeSet(g, node) : in.backward /\ in.to # node => Covers(edges, g, node, in)
        /\ \A c \in Arcs : Offers(edges, "forward", c.from, c.to, c.weight) => c \in Q
    BY <1>15, <1>16, <1>21
  <2> HIDE DEF edges, Q
  <2> QED BY <2>1, NodeBypassed
<1>23. \A c \in Q : c \in P \/ Shortens(A, c)
  <2> SUFFICES ASSUME NEW c \in Q, c \notin P PROVE Shortens(A, c)
    OBVIOUS
  <2>1. c \in Arcs /\ Offers(result.edges, "forward", c.from, c.to, c.weight)
    BY <1>18, <1>19, <1>20
  <2> DEFINE edges == result.edges
  <2>2. Offers(edges, "forward", c.from, c.to, c.weight) /\ Sound(edges, g, node)
    BY <1>15, <2>1
  <2> HIDE DEF edges
  <2> QED BY <1>15, <1>16, <2>1, <2>2, ShortcutsShorten
<1>24. \A n \in done \cup {node} : Bypassed(A, Q, n)
  <2> HIDE DEF A, P, Q
  <2> QED BY <1>16, <1>21, <1>22, BypassedMore
<1>25. Represents(A \cup Q, C, names, input)
  <2> HIDE DEF A, P, Q
  <2> QED BY <1>15, <1>16, <1>20, <1>21, <1>23, ShortcutsRepresent
<1>26. CASE ~ last
  BY <1>14, <1>16, <1>18, <1>24, <1>25, <1>26 DEF KeepsDistances
<1>27. CASE last
  <2>1. Apart(A, S)
    BY <1>15, <1>16, BatchApart
  <2>2. \A c \in Q : c.from \notin S /\ c.to \notin S
    BY <1>15 DEF ArcsKept, Offers
  <2>3. \A n \in S : Bypassed(A, Q, n)
    BY <1>15, <1>24, <1>27
  <2>4. S \subseteq Nodes
    BY <1>15
  <2>5. Represents(Without(A, S) \cup Q, C \ S, names, input)
    <3> HIDE DEF A, Q
    <3> QED BY <1>15, <1>20, <1>25, <2>1, <2>2, <2>3, <2>4, BatchContracted
  <2>6. ArcsBetween(g, C \ S) = Without(A, S)
    BY ArcsOfFewer
  <2>7. HasMirrors(g, C \ S)
    BY <1>16 DEF HasMirrors
  <2>8. KeepsDistances(g, C \ S, new, names, input, {})
    BY <1>18, <2>5, <2>6, <2>7 DEF KeepsDistances
  <2> QED BY <1>13, <1>27, <2>8
<1> QED
  BY <1>26, <1>27

\* The edges that are cut led to a node that has left.
LEMMA DeleteIncomingEdgesDistances ==
    ASSUME RunInv, RunDistances, InputArcs' = InputArcs, NEW node \in Nodes, DeleteIncomingEdges(node)
    PROVE  RunDistances'
<1>1. /\ phase = "delete" /\ phase' \in {"delete", "insert"} /\ node \in todo /\ graph' = CutOff(graph, node)
      /\ node_data' = node_data /\ new_to_old' = new_to_old /\ inserted' = inserted
  BY DEF DeleteIncomingEdges, Barrier
<1>2. Consistent(graph, ContractorEdges) /\ node \notin Core /\ Core \subseteq Nodes
  BY <1>1 DEF RunInv, GraphInv, PoolInv, LoopPhases, Core
<1>3. Core' = Core
  BY <1>1 DEF Core
<1>4. Contracted' = {}
  BY <1>1 DEF Contracted
<1> DEFINE C == Core
           input == InputArcs
           g == graph
           h == graph'
<1>5. KeepsDistances(g, C, inserted, new_to_old, input, Contracted)
  BY DEF RunDistances
<1>6. RunDistances' = KeepsDistances(h, C, inserted, new_to_old, input, {})
  BY <1>1, <1>3, <1>4 DEF RunDistances
<1>7. SameWays(g, h, C)
  BY <1>1, <1>2, CutOffWays
<1> HIDE DEF C, input, g, h
<1>8. ArcsBetween(h, C) = ArcsBetween(g, C) /\ (HasMirrors(g, C) => HasMirrors(h, C))
  BY <1>7, SameArcs
<1> QED
  BY <1>5, <1>6, <1>8 DEF KeepsDistances

\* The shortcuts of a thread become edges between the nodes that are left.
LEMMA InsertEdgesDistances ==
    ASSUME RunInv, RunDistances, InputArcs' = InputArcs, NEW t \in Threads, InsertEdges(t)
    PROVE  RunDistances'
<1>1. /\ phase = "insert" /\ phase' \in {"insert", "update"}
      /\ \E edges \in Sorted(inserted[t]) : graph' = InsertShortcuts(graph, edges)
      /\ inserted' = [inserted EXCEPT ![t] = <<>>]
      /\ node_data' = node_data /\ new_to_old' = new_to_old
  BY DEF InsertEdges, Barrier
<1>2. /\ Consistent(graph, ContractorEdges) /\ inserted \in [Threads -> Seq(Shortcuts)] /\ Core \subseteq Nodes
      /\ \A e \in ToSet(inserted[t]) : e.source \in Core /\ e.to \in Core
  BY DEF RunInv, GraphInv, InsertedInv, Core
<1>3. Core' = Core
  BY <1>1 DEF Core
<1>4. Contracted' = {}
  BY <1>1 DEF Contracted
<1> DEFINE C == Core
           input == InputArcs
           g == graph
           h == graph'
           old == inserted
           new == inserted'
<1>5. KeepsDistances(g, C, old, new_to_old, input, Contracted)
  BY DEF RunDistances
<1>6. RunDistances' = KeepsDistances(h, C, new, new_to_old, input, {})
  BY <1>1, <1>3, <1>4 DEF RunDistances
<1>7. PICK edges \in Sorted(old[t]) : h = InsertShortcuts(g, edges)
  BY <1>1
<1>8. /\ Consistent(g, ContractorEdges) /\ old \in [Threads -> Seq(Shortcuts)] /\ C \subseteq Nodes
      /\ new = [old EXCEPT ![t] = <<>>]
      /\ \A e \in ToSet(old[t]) : e.source \in C /\ e.to \in C
  BY <1>1, <1>2
<1> HIDE DEF C, input, g, h, old, new
<1>9. /\ HasMirrors(g, C) /\ \A k \in Threads : IsMirrored(old[k])
      /\ Represents(ArcsBetween(g, C) \cup ArcsKept(old), C, new_to_old, input)
  BY <1>5 DEF KeepsDistances
<1>10. /\ HasMirrors(h, C) /\ \A k \in Threads : IsMirrored(new[k])
       /\ ArcsBetween(h, C) \cup ArcsKept(new) = ArcsBetween(g, C) \cup ArcsKept(old)
  <2>1. new = Emptied(old, t)
    BY <1>8 DEF Emptied
  <2>2. /\ Consistent(g, ContractorEdges) /\ C \subseteq Nodes /\ HasMirrors(g, C)
        /\ old \in [Threads -> Seq(Shortcuts)] /\ AllMirrored(old) /\ t \in Threads
        /\ LieIn(old[t], C) /\ edges \in Sorted(old[t])
    BY <1>7, <1>8, <1>9 DEF AllMirrored, LieIn
  <2>3. /\ HasMirrors(InsertShortcuts(g, edges), C) /\ AllMirrored(Emptied(old, t))
        /\ ArcsBetween(InsertShortcuts(g, edges), C) \cup ArcsKept(Emptied(old, t))
             = ArcsBetween(g, C) \cup ArcsKept(old)
    BY ONLY <2>2, InsertedWays
  <2> QED BY <1>7, <2>1, <2>3 DEF AllMirrored
<1> QED
  BY <1>6, <1>9, <1>10 DEF KeepsDistances

\* The graph the contraction starts from has the distances of the input.
LEMMA BeginContractionDistances ==
    ASSUME InputInv, BeginContraction
    PROVE  RunDistances'
<1>1. /\ graph' = toContractorGraph(arcs) /\ new_to_old' = [n \in Nodes |-> n]
      /\ phase' \in {"prioritise", "head"} /\ inserted' = [t \in Threads |-> <<>>] /\ arcs' = arcs
      /\ node_data'.is_core = [n \in Nodes |-> n \in Nodes]
  BY DEF BeginContraction, contractGraph, excludableVars
<1>2. Core' = Nodes
  BY <1>1 DEF Core
<1>3. Contracted' = {}
  BY <1>1 DEF Contracted
<1>4. InputArcs' = Charged(arcs)
  BY <1>1 DEF InputArcs, Charged
<1>5. arcs \subseteq [from : Nodes, to : Nodes, weight : Nat]
  BY ContractionAssumption DEF InputInv
<1> DEFINE g == toContractorGraph(arcs)
           new == inserted'
           names == [n \in Nodes |-> n]
<1>6. RunDistances' = KeepsDistances(g, Nodes, new, names, Charged(arcs), {})
  BY <1>1, <1>2, <1>3, <1>4 DEF RunDistances
<1>7. Represents(ArcsBetween(g, Nodes), Nodes, names, Charged(arcs)) /\ HasMirrors(g, Nodes)
  BY <1>5, InputRepresented
<1>8. \A t \in Threads : new[t] = <<>>
  BY <1>1
<1> HIDE DEF g, new, names
<1>9. ArcsKept(new) = {} /\ \A t \in Threads : IsMirrored(new[t])
  BY <1>8, NoneKept
<1>10. ArcsBetween(g, Nodes) \cup ArcsKept(new) = ArcsBetween(g, Nodes)
  BY <1>9
<1> QED
  BY <1>6, <1>7, <1>9, <1>10 DEF KeepsDistances

\* Every step keeps the distances of the first contraction.
LEMMA DistancesStepKeeps ==
    ASSUME ContractorInv, DistancesInv, [Next]_allVars
    PROVE  DistancesInv'
<1>1. RunInv /\ InputInv
  BY DEF ContractorInv
<1>2. ASSUME UNCHANGED excludableVars PROVE InputArcs' = InputArcs /\ filter_index' = filter_index
  BY <1>2 DEF excludableVars, InputArcs
<1>3. ASSUME phase \in LoopPhases, phase' \in LoopPhases, UNCHANGED excludableVars, RunDistances => RunDistances'
      PROVE  DistancesInv'
  BY <1>2, <1>3 DEF DistancesInv, RunPhases
<1>4. ASSUME ContractorStep, UNCHANGED excludableVars PROVE DistancesInv'
  <2>1. ASSUME NEW n \in Nodes, InitialPriority(n) PROVE DistancesInv'
    <3>1. phase \in LoopPhases /\ phase' \in LoopPhases
      BY <2>1 DEF InitialPriority, Barrier, LoopPhases
    <3> QED BY <1>1, <1>2, <1>3, <1>4, <2>1, <3>1, InitialPriorityDistances
  <2>2. CASE RenumberData
    <3>1. phase \in LoopPhases /\ phase' \in LoopPhases
      BY <2>2 DEF RenumberData, LoopPhases
    <3> QED BY <1>1, <1>2, <1>3, <1>4, <2>2, <3>1, RenumberDataDistances
  <2>3. CASE FindIndependent
    <3>1. phase \in LoopPhases /\ phase' \in LoopPhases
      BY <2>3 DEF FindIndependent, LoopPhases
    <3> QED BY <1>2, <1>3, <1>4, <2>3, <3>1, FindIndependentDistances
  <2>4. ASSUME NEW t \in Threads, NEW n \in Nodes, ContractNode(t, n) PROVE DistancesInv'
    <3>1. phase \in LoopPhases /\ phase' \in LoopPhases
      BY <2>4 DEF ContractNode, Barrier, LoopPhases
    <3> QED BY <1>1, <1>2, <1>3, <1>4, <2>4, <3>1, ContractNodeDistances
  <2>5. ASSUME NEW n \in Nodes, DeleteIncomingEdges(n) PROVE DistancesInv'
    <3>1. phase \in LoopPhases /\ phase' \in LoopPhases
      BY <2>5 DEF DeleteIncomingEdges, Barrier, LoopPhases
    <3> QED BY <1>1, <1>2, <1>3, <1>4, <2>5, <3>1, DeleteIncomingEdgesDistances
  <2>6. ASSUME NEW t \in Threads, InsertEdges(t) PROVE DistancesInv'
    <3>1. phase \in LoopPhases /\ phase' \in LoopPhases
      BY <2>6 DEF InsertEdges, Barrier, LoopPhases
    <3> QED BY <1>1, <1>2, <1>3, <1>4, <2>6, <3>1, InsertEdgesDistances
  <2>7. ASSUME NEW n \in Nodes, NEW u \in Nodes, UpdateNodeNeighbours(n, u) PROVE DistancesInv'
    <3>1. phase \in LoopPhases /\ phase' \in LoopPhases
      BY <2>7 DEF UpdateNodeNeighbours, LoopPhases
    <3> QED BY <1>1, <1>2, <1>3, <1>4, <2>7, <3>1, UpdateNodeNeighboursDistances
  <2>8. CASE EndRound
    <3>1. phase \in LoopPhases /\ phase' \in LoopPhases
      BY <2>8 DEF EndRound, LoopPhases
    <3> QED BY <1>2, <1>3, <1>4, <2>8, <3>1, EndRoundDistances
  <2>9. CASE Return
    <3>1. phase \in LoopPhases /\ phase' = "returned"
      BY <2>9 DEF Return, LoopPhases
    <3> QED BY <1>2, <1>4, <3>1 DEF DistancesInv, RunPhases, LoopPhases
  <2> QED
    BY <1>4, <2>1, <2>2, <2>3, <2>4, <2>5, <2>6, <2>7, <2>8, <2>9 DEF ContractorStep
<1>5. CASE FullGraphContracted
  BY <1>5 DEF FullGraphContracted, DistancesInv, RunPhases, LoopPhases
<1>6. CASE BeginContraction
  <2>1. phase = "idle" /\ filter_index' = filter_index
    BY <1>6 DEF BeginContraction, excludableVars
  <2> QED BY <1>1, <1>6, <2>1, BeginContractionDistances DEF DistancesInv
<1>7. CASE SharedGraphContracted
  BY <1>7 DEF SharedGraphContracted, DistancesInv
<1>8. CASE FilterContracted
  <2>1. /\ phase = "returned" /\ filter_index > 0
        /\ filter_index' = filter_index + 1 \/ phase' = "written"
    BY <1>8 DEF FilterContracted
  <2>2. filter_index \in Nat
    BY <2>1 DEF DistancesInv, RunPhases
  <2> QED BY <2>1, <2>2 DEF DistancesInv, RunPhases, LoopPhases
<1>9. CASE Contracting
  BY <1>4, <1>5, <1>6, <1>7, <1>8, <1>9 DEF Contracting, ExcludableStep
<1>10. ASSUME NEW i, OpenFacade(i) PROVE DistancesInv'
  BY <1>10 DEF OpenFacade, DistancesInv, RunPhases, LoopPhases
<1>11. ASSUME UNCHANGED contractorVars, UNCHANGED excludableVars PROVE DistancesInv'
  <2>1. /\ graph' = graph /\ node_data' = node_data /\ new_to_old' = new_to_old /\ phase' = phase
        /\ batch' = batch /\ todo' = todo /\ inserted' = inserted
    BY <1>11 DEF contractorVars
  <2>2. Core' = Core
    BY <2>1 DEF Core
  <2>3. Contracted' = Contracted
    BY <2>1 DEF Contracted
  <2>4. RunDistances => RunDistances'
    BY <1>2, <1>11, <2>1, <2>2, <2>3, SameRunDistances
  <2> QED BY <1>2, <1>11, <2>1, <2>4 DEF DistancesInv
<1>12. CASE Query
  BY <1>11, <1>12 DEF Query
<1>13. CASE (ForwardStep \/ ReverseStep \/ EndQuery) /\ UNCHANGED <<contractorVars, excludableVars>>
  BY <1>11, <1>13
<1>14. CASE UNCHANGED allVars
  BY <1>11, <1>14 DEF allVars
<1> QED
  BY <1>9, <1>10, <1>12, <1>13, <1>14 DEF Next

-----------------------------------------------------------------------------
(***************************************************************************)
(* The theorems.                                                           *)
(***************************************************************************)
\* Steps of a query leave the contractor alone.
LEMMA QueryKeeps ==
    ASSUME ContractorInv, UNCHANGED contractorVars, UNCHANGED excludableVars
    PROVE  ContractorInv'
<1>1. InputInv' /\ SharedCoreInv'
  BY InputKept DEF ContractorInv
<1>2. /\ graph' = graph /\ node_data' = node_data /\ remaining' = remaining
      /\ number_of_core_nodes' = number_of_core_nodes /\ new_to_old' = new_to_old /\ phase' = phase
      /\ batch' = batch /\ todo' = todo /\ inserted' = inserted
  BY DEF contractorVars
<1>3. Core' = Core
  BY <1>2 DEF Core
<1> HIDE DEF Core
<1>4. /\ phase' \in Phases /\ GraphInv' /\ NumberingInv' /\ NodeInv'
  BY <1>2 DEF ContractorInv, RunInv, GraphInv, NumberingInv, NodeInv
<1>5. PoolInv' /\ SymmetryInv' /\ InsertedInv'
  BY <1>2, <1>3 DEF ContractorInv, RunInv, PoolInv, SymmetryInv, InsertedInv
<1>6. ContractedApart'
  <2>1. \A n : Neighbours(graph, n)' = Neighbours(graph, n)
    BY <1>2 DEF Neighbours, GetTargets, Adjacent, BeginEdges, EndEdges
  <2> QED BY <1>2, <2>1 DEF ContractorInv, RunInv, ContractedApart
<1> QED
  BY <1>1, <1>4, <1>5, <1>6 DEF ContractorInv, RunInv

\* Before the input is read there is nothing that could be wrong.
LEMMA ContractorStarts ==
    ASSUME Init
    PROVE  ContractorInv
<1>1. /\ arcs \in Inputs /\ bounds \in Bounds /\ shared_core = [graph |-> EmptyGraph, nodes |-> {}]
      /\ graph = EmptyGraph /\ remaining = {} /\ number_of_core_nodes = 0
      /\ new_to_old = [n \in Nodes |-> n] /\ phase = "idle" /\ batch = {}
      /\ inserted = [t \in Threads |-> <<>>]
  BY DEF Init, ExcludableInit, ContractorIdle
<1>2. Consistent(EmptyGraph, ContractorEdges) /\ \A n \in Nodes : GetTargets(EmptyGraph, n) = {}
  BY EmptyGraphConsistent
<1>3. SharedCoreInv
  <2>1. shared_core.graph = EmptyGraph /\ shared_core.nodes = {}
    BY <1>1
  <2> QED BY <1>2, <2>1 DEF SharedCoreInv
<1>4. NumberingInv
  BY <1>1, OriginalNumbering DEF NumberingInv
<1>5. InsertedInv
  <2>1. ToSet(<<>>) = {}
    BY DEF ToSet
  <2>2. inserted \in [Threads -> Seq(Shortcuts)] /\ \A t \in Threads : inserted[t] = <<>>
    BY <1>1
  <2> QED BY <2>1, <2>2 DEF InsertedInv
<1>6. phase \in Phases /\ GraphInv /\ NodeInv /\ PoolInv /\ SymmetryInv /\ ContractedApart
  BY <1>1, <1>2 DEF GraphInv, NodeInv, PoolInv, SymmetryInv, ContractedApart, Phases, RunPhases, LoopPhases
<1> QED
  BY <1>1, <1>3, <1>4, <1>5, <1>6 DEF ContractorInv, InputInv, RunInv

\* Every step of the loops, of the calls around them and of the queries keeps the invariant.
LEMMA ContractorStepKeeps ==
    ASSUME ContractorInv, [Next]_allVars
    PROVE  ContractorInv'
<1>1. RunInv
  BY DEF ContractorInv
<1>2. ASSUME RunInv', UNCHANGED excludableVars PROVE ContractorInv'
  BY <1>2, InputKept DEF ContractorInv
<1>3. ASSUME ContractorStep, UNCHANGED excludableVars PROVE ContractorInv'
  <2>1. ASSUME NEW n \in Nodes, InitialPriority(n) PROVE ContractorInv'
    BY <1>1, <1>2, <1>3, <2>1, InitialPriorityKeeps
  <2>2. CASE RenumberData
    BY <1>1, <1>2, <1>3, <2>2, RenumberDataKeeps
  <2>3. CASE FindIndependent
    BY <1>1, <1>2, <1>3, <2>3, FindIndependentKeeps
  <2>4. ASSUME NEW t \in Threads, NEW n \in Nodes, ContractNode(t, n) PROVE ContractorInv'
    BY <1>1, <1>2, <1>3, <2>4, ContractNodeKeeps
  <2>5. ASSUME NEW n \in Nodes, DeleteIncomingEdges(n) PROVE ContractorInv'
    BY <1>1, <1>2, <1>3, <2>5, DeleteIncomingEdgesKeeps
  <2>6. ASSUME NEW t \in Threads, InsertEdges(t) PROVE ContractorInv'
    BY <1>1, <1>2, <1>3, <2>6, InsertEdgesKeeps
  <2>7. ASSUME NEW n \in Nodes, NEW u \in Nodes, UpdateNodeNeighbours(n, u) PROVE ContractorInv'
    BY <1>1, <1>2, <1>3, <2>7, UpdateNodeNeighboursKeeps
  <2>8. CASE EndRound
    BY <1>1, <1>2, <1>3, <2>8, EndRoundKeeps
  <2>9. CASE Return
    BY <1>1, <1>2, <1>3, <2>9, ReturnKeeps
  <2> QED
    BY <1>3, <2>1, <2>2, <2>3, <2>4, <2>5, <2>6, <2>7, <2>8, <2>9 DEF ContractorStep
<1>4. CASE FullGraphContracted
  <2>1. RunInv'
    BY <1>1, <1>4, WrittenKeeps DEF FullGraphContracted
  <2>2. InputInv' /\ SharedCoreInv'
    BY <1>4 DEF ContractorInv, InputInv, SharedCoreInv, FullGraphContracted
  <2> QED BY <2>1, <2>2 DEF ContractorInv
<1>5. CASE Contracting
  BY <1>3, <1>4, <1>5, BeginContractionKeeps, SharedGraphContractedKeeps, FilterContractedKeeps
     DEF Contracting, ExcludableStep
<1>6. ASSUME NEW i, OpenFacade(i) PROVE ContractorInv'
  BY <1>6, OpenFacadeKeeps
<1>7. CASE Query
  BY <1>7, QueryKeeps DEF Query
<1>8. CASE (ForwardStep \/ ReverseStep \/ EndQuery) /\ UNCHANGED <<contractorVars, excludableVars>>
  BY <1>8, QueryKeeps
<1>9. CASE UNCHANGED allVars
  BY <1>9, QueryKeeps DEF allVars
<1> QED
  BY <1>5, <1>6, <1>7, <1>8, <1>9 DEF Next

\* What contractGraph and its callers rely on from step to step holds for every graph,
\* number of threads, search space, hash, list of filters and size of the core.
THEOREM ContractorInvariant == Spec => []ContractorInv
<1>1. Init => ContractorInv
  BY ContractorStarts
<1>2. ContractorInv /\ [Next]_allVars => ContractorInv'
  BY ContractorStepKeeps
<1> QED
  BY <1>1, <1>2, PTL DEF Spec

\* The array of the shared graph is consistent whatever the loops and the threads do, and
\* counts its edges correctly when the hierarchy is read from it (dynamic_graph.hpp).
THEOREM ArraysStayConsistent == Spec => []ArrayConsistent
<1>1. ContractorInv => ArrayConsistent
  BY DEF ContractorInv, RunInv, GraphInv, Consistent, ArrayConsistent
<1> QED
  BY <1>1, ContractorInvariant, PTL

\* The nodes that are contracted concurrently share no edge and no neighbour
\* (graph_contractor.cpp, IsNodeIndependent).
THEOREM BatchesAreApart == Spec => []ContractedApart
<1>1. ContractorInv => ContractedApart
  BY DEF ContractorInv, RunInv
<1> QED
  BY <1>1, ContractorInvariant, PTL

\* A round of the contraction finds a node to contract unless two floats tie without being
\* equal, whatever the format of the floats (graph_contractor.cpp, the tests for a greater
\* priority and for a tie, and the assertion at the end of the round).
THEOREM RoundsContract == Spec => []RoundContracts
<1>1. ContractorInv => RoundContracts
  BY RoundFinds DEF ContractorInv
<1> QED
  BY <1>1, ContractorInvariant, PTL

\* The contractor's state has its types, and no edge costs nothing: neither the input nor a
\* shortcut makes one.
THEOREM ContractorTypes == Spec => []ContractorTypeOK
<1>1. ContractorInv => ContractorTypeOK
  <2> SUFFICES ASSUME ContractorInv PROVE ContractorTypeOK
    OBVIOUS
  <2>1. graph.list \in Seq(ContractorEdges \cup {Dummy})
    BY DEF ContractorInv, RunInv, GraphInv, Consistent, Arrays
  <2>2. ASSUME NEW e \in ToSet(graph.list) PROVE e.to \in 0 .. N /\ (e.to # 0 => e.weight >= 1)
    <3>1. e \in ContractorEdges \cup {Dummy}
      BY <2>1 DEF ToSet
    <3>2. CASE e \in ContractorEdges
      <4>1. e.to \in Nodes /\ e.weight \in Nat \ {0}
        BY <3>2 DEF ContractorEdges
      <4> QED BY <4>1, NAssumption DEF Nodes
    <3>3. CASE e = Dummy
      BY <3>3, NAssumption DEF Dummy
    <3> QED BY <3>1, <3>2, <3>3
  <2>3. remaining \subseteq Nodes /\ batch \subseteq remaining /\ new_to_old \in [Nodes -> Nodes] /\ phase \in Phases
    BY DEF ContractorInv, RunInv, PoolInv, NumberingInv, IsNumbering
  <2> QED BY <2>2, <2>3 DEF ContractorTypeOK, Phases, RunPhases, LoopPhases
<1> QED
  BY <1>1, ContractorInvariant, PTL

\* Before every round of the first contraction the nodes that are left have the shortest
\* distances of the input, whatever the order in which the threads contract, however early the
\* witness searches give up and however often nodes are renumbered: shortcuts and witnesses
\* stand for all ways past the nodes that are gone (graph_contractor.cpp, ContractNode).
THEOREM DistancesStayShortest == Spec => []DistancesPreserved
<1>1. Init => DistancesInv
  BY DEF Init, ExcludableInit, ContractorIdle, DistancesInv, LoopPhases
<1>2. ContractorInv /\ DistancesInv /\ [Next]_allVars => DistancesInv'
  BY DistancesStepKeeps
<1>3. ContractorInv /\ DistancesInv => DistancesPreserved
  <2> SUFFICES ASSUME ContractorInv, DistancesInv, phase = "head", filter_index = 0,
                      NEW m \in Core, NEW n \in Core
               PROVE  DistancesFrom(LiveArcs, new_to_old[m])[new_to_old[n]]
                        = DistancesFrom(InputArcs, new_to_old[m])[new_to_old[n]]
    BY DEF DistancesPreserved, Core
  <2>1. KeepsDistances(graph, Core, inserted, new_to_old, InputArcs, Contracted)
    BY DEF DistancesInv, RunDistances, LoopPhases
  <2>2. Consistent(graph, ContractorEdges) /\ new_to_old \in [Nodes -> Nodes] /\ Core \subseteq Nodes
    BY DEF ContractorInv, RunInv, GraphInv, NumberingInv, IsNumbering, Core
  <2>3. StaysIn(graph, Core)
    BY DEF ContractorInv, RunInv, SymmetryInv, RunPhases, LoopPhases, StaysIn
  <2>4. \A t \in Threads : inserted[t] = <<>>
    BY DEF ContractorInv, RunInv, InsertedInv
  <2>5. IsArcSet(InputArcs)
    <3>1. arcs \subseteq [from : Nodes, to : Nodes, weight : Nat]
      BY ContractionAssumption DEF ContractorInv, InputInv
    <3> QED BY <3>1 DEF InputArcs, InputWeight, IsArcSet
  <2>6. LiveArcs = Live(graph, Core, new_to_old)
    BY DEF LiveArcs, Live, Core, EdgeSet
  <2> DEFINE C == Core
             input == InputArcs
             names == new_to_old
  <2>7. /\ KeepsDistances(graph, C, inserted, names, input, Contracted) /\ C \subseteq Nodes /\ StaysIn(graph, C)
        /\ names \in [Nodes -> Nodes] /\ IsArcSet(input) /\ m \in C /\ n \in C
    BY <2>1, <2>2, <2>3, <2>5
  <2> HIDE DEF C, input, names
  <2>8. ArcsKept(inserted) = {}
    BY <2>4, NoneKept
  <2>9. Represents(ArcsBetween(graph, C), C, names, input)
    <3>1. ArcsBetween(graph, C) \cup {} = ArcsBetween(graph, C)
      OBVIOUS
    <3> QED BY <2>7, <2>8, <3>1 DEF KeepsDistances
  <2>10. DistancesFrom(Live(graph, C, names), names[m])[names[n]] = DistancesFrom(input, names[m])[names[n]]
    BY <2>2, <2>7, <2>9, RepresentedDistances
  <2> QED BY <2>6, <2>10 DEF C, input, names
<1> QED
  BY <1>1, <1>2, <1>3, ContractorInvariant, PTL DEF Spec
=============================================================================

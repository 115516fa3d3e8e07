------------------------ MODULE DynamicGraph_proofs ------------------------
(***************************************************************************)
(* Proofs about the array of DynamicGraph: every operation keeps it        *)
(* consistent, and what each does to the lists of edges.  Last, what       *)
(* shortest distances are: the greatest potential that is feasible.        *)
(***************************************************************************)
EXTENDS DynamicGraph, SetInduction, FiniteSetTheorems

-----------------------------------------------------------------------------
(***************************************************************************)
(* Sequences.                                                              *)
(***************************************************************************)
\* A sequence given element by element.
LEMMA SeqOfFunction ==
    ASSUME NEW T, NEW n \in Nat, NEW f \in [1 .. n -> T]
    PROVE  f \in Seq(T) /\ Len(f) = n
OBVIOUS

\* An element appended is one more element.
LEMMA ToSetAppend ==
    ASSUME NEW T, NEW s \in Seq(T), NEW x \in T
    PROVE  ToSet(Append(s, x)) = ToSet(s) \cup {x}
<1> DEFINE t == Append(s, x)
<1>1. t \in Seq(T) /\ Len(t) = Len(s) + 1 /\ DOMAIN t = 1 .. Len(s) + 1 /\ Len(s) \in Nat
      /\ DOMAIN s = 1 .. Len(s)
  OBVIOUS
<1>2. \A i \in 1 .. Len(s) : t[i] = s[i]
  OBVIOUS
<1>3. t[Len(s) + 1] = x
  OBVIOUS
<1> HIDE DEF t
<1>4. ASSUME NEW y \in ToSet(t) PROVE y \in ToSet(s) \cup {x}
  BY <1>1, <1>2, <1>3 DEF ToSet
<1>5. ASSUME NEW y \in ToSet(s) \cup {x} PROVE y \in ToSet(t)
  BY <1>1, <1>2, <1>3 DEF ToSet
<1> QED
  BY <1>4, <1>5 DEF t

\* The elements of a concatenation.
LEMMA ToSetConcat ==
    ASSUME NEW T, NEW s \in Seq(T), NEW t \in Seq(T)
    PROVE  /\ s \o t \in Seq(T)
           /\ \A x : x \in ToSet(s \o t) <=> x \in ToSet(s) \/ x \in ToSet(t)
<1> DEFINE c == s \o t
<1>1. /\ c \in Seq(T) /\ Len(c) = Len(s) + Len(t) /\ Len(s) \in Nat /\ Len(t) \in Nat
      /\ DOMAIN c = 1 .. Len(c) /\ DOMAIN s = 1 .. Len(s) /\ DOMAIN t = 1 .. Len(t)
  OBVIOUS
<1>2. /\ \A i \in 1 .. Len(s) : c[i] = s[i]
      /\ \A i \in 1 .. Len(t) : c[Len(s) + i] = t[i]
  OBVIOUS
<1> HIDE DEF c
<1>3. \A i \in 1 .. Len(c) : i \in 1 .. Len(s) \/ (i - Len(s) \in 1 .. Len(t) /\ Len(s) + (i - Len(s)) = i)
  BY <1>1
<1>4. \A i \in 1 .. Len(s) : i \in 1 .. Len(c)
  BY <1>1
<1>5. \A i \in 1 .. Len(t) : Len(s) + i \in 1 .. Len(c)
  BY <1>1
<1>6. \A x : x \in ToSet(c) <=> \E i \in 1 .. Len(c) : x = c[i]
  BY <1>1 DEF ToSet
<1>7. \A x : x \in ToSet(s) <=> \E i \in 1 .. Len(s) : x = s[i]
  BY <1>1 DEF ToSet
<1>8. \A x : x \in ToSet(t) <=> \E i \in 1 .. Len(t) : x = t[i]
  BY <1>1 DEF ToSet
<1>9. \A x : x \in ToSet(c) <=> x \in ToSet(s) \/ x \in ToSet(t)
  <2>1. ASSUME NEW x \in ToSet(c) PROVE x \in ToSet(s) \/ x \in ToSet(t)
    <3>1. PICK i \in 1 .. Len(c) : x = c[i]
      BY <1>6, <2>1
    <3>2. CASE i \in 1 .. Len(s)
      BY <1>2, <1>7, <3>1, <3>2
    <3>3. CASE i - Len(s) \in 1 .. Len(t) /\ Len(s) + (i - Len(s)) = i
      <4>1. x = t[i - Len(s)]
        BY <1>2, <3>1, <3>3
      <4> QED BY <1>8, <3>3, <4>1
    <3> QED BY <1>3, <3>2, <3>3
  <2>2. ASSUME NEW x \in ToSet(s) PROVE x \in ToSet(c)
    BY <1>2, <1>4, <1>6, <1>7, <2>2
  <2>3. ASSUME NEW x \in ToSet(t) PROVE x \in ToSet(c)
    BY <1>2, <1>5, <1>6, <1>8, <2>3
  <2> QED BY <2>1, <2>2, <2>3
<1> QED
  BY <1>1, <1>9 DEF c

\* Only keeps what is in the set and nothing else.
LEMMA OnlyElements ==
    ASSUME NEW T, NEW s \in Seq(T), NEW S
    PROVE  /\ Only(s, S) \in Seq(T)
           /\ ToSet(Only(s, S)) = ToSet(s) \cap S
<1> DEFINE K == Len(s)
           After(v, i) == IF s[i] \in S THEN Append(v, s[i]) ELSE v
           Loop(f) == f = [i \in 0 .. K |-> IF i = 0 THEN <<>> ELSE After(f[i - 1], i)]
           Runs(f) == /\ f = [i \in 0 .. K |-> f[i]] /\ f[0] = <<>>
                      /\ \A n \in 1 .. K : f[n] = After(f[n - 1], n)
           D == Seq(T)
           step == [p \in D \X (1 .. K) |-> After(p[1], p[2])]
           Seen(i) == {s[j] : j \in 1 .. i}
           I == {p \in (0 .. K) \X D : ToSet(p[2]) = Seen(p[1]) \cap S}
           result == CHOOSE f : Loop(f)
<1>1. K \in Nat /\ \A i \in 1 .. K : s[i] \in T
  OBVIOUS
<1>2. ASSUME NEW n \in 1 .. K, NEW v \in D, <<n - 1, v>> \in I
      PROVE  <<n, After(v, n)>> \in I
  <2>1. ToSet(v) = Seen(n - 1) \cap S /\ n \in 0 .. K
    BY <1>1, <1>2
  <2>2. Seen(n) = Seen(n - 1) \cup {s[n]}
    BY <1>1, <1>2
  <2> HIDE DEF Seen
  <2>3. CASE s[n] \in S
    <3>1. After(v, n) = Append(v, s[n]) /\ After(v, n) \in D
      BY <1>1, <2>3
    <3>2. ToSet(After(v, n)) = ToSet(v) \cup {s[n]}
      BY <1>1, <3>1, ToSetAppend
    <3> QED BY <2>1, <2>2, <2>3, <3>1, <3>2
  <2>4. CASE s[n] \notin S
    <3>1. After(v, n) = v
      BY <2>4
    <3> QED BY <2>1, <2>2, <2>4, <3>1
  <2> QED BY <2>3, <2>4
<1>3. <<0, <<>> >> \in I
  <2>1. ToSet(<<>>) = {}
    BY DEF ToSet
  <2>2. Seen(0) = {} /\ <<>> \in D /\ 0 \in 0 .. K
    BY <1>1
  <2> HIDE DEF Seen, D, K
  <2> QED BY <2>1, <2>2
<1>4. \A n \in 1 .. K : \A v \in D : step[<<v, n>>] = After(v, n)
  OBVIOUS
<1>5. LoopKeeps(K, D, I, <<>>, step)
  <2>1. I \subseteq (0 .. K) \X D
    OBVIOUS
  <2> HIDE DEF I, step, D
  <2> QED BY <1>2, <1>3, <1>4, <2>1 DEF LoopKeeps
<1>6. PICK g : LoopRun(g, K, D, I, <<>>, step)
  <2> HIDE DEF K, D, I, step
  <2> QED BY <1>1, <1>5, LoopRuns
<1>7. ASSUME NEW f PROVE Loop(f) <=> Runs(f)
  <2> HIDE DEF After, K
  <2> QED BY <1>1
<1>8. Loop(result)
  <2> HIDE DEF Loop, K, After, D, I, step
  <2>1. \A n \in 1 .. K : n - 1 \in 0 .. K
    BY <1>1
  <2>2. Runs(g)
    BY <1>4, <1>6, <2>1 DEF LoopRun
  <2> HIDE DEF Runs
  <2> QED BY <1>7, <2>2
<1>9. Only(s, S) = result[K]
  BY DEF Only
<1>10. LoopRun(result, K, D, I, <<>>, step)
  <2> HIDE DEF result, Loop, D, After, step, K
  <2>1. Runs(result)
    BY <1>7, <1>8
  <2>2. \A n \in 1 .. K : <<n - 1, result[n - 1]>> \in I => result[n] = step[<<result[n - 1], n>>]
    BY <1>1, <1>4, <2>1
  <2> HIDE DEF I
  <2> QED BY <1>1, <1>5, <2>1, <2>2, LoopInvariant
<1>11. <<K, result[K]>> \in I
  <2> HIDE DEF K, D, I, step, result
  <2> QED BY <1>1, <1>10 DEF LoopRun
<1>12. Seen(K) = ToSet(s)
  BY DEF ToSet
<1> QED
  <2> HIDE DEF result
  <2> QED BY <1>9, <1>11, <1>12

\* The ends of lists laid out one after the other are the running sums of their lengths.
LEMMA EndsSums ==
    ASSUME NEW lists, \A n \in Nodes : Len(lists[n]) \in Nat
    PROVE  /\ Ends(lists) \in [0 .. N -> Nat]
           /\ Ends(lists)[0] = 0
           /\ \A n \in Nodes : Ends(lists)[n] = Ends(lists)[n - 1] + Len(lists[n])
<1> DEFINE K == N
           After(v, i) == v + Len(lists[i])
           Loop(f) == f = [i \in 0 .. K |-> IF i = 0 THEN 0 ELSE After(f[i - 1], i)]
           Runs(f) == /\ f = [i \in 0 .. K |-> f[i]] /\ f[0] = 0
                      /\ \A n \in 1 .. K : f[n] = After(f[n - 1], n)
           D == Nat
           step == [p \in D \X (1 .. K) |-> After(p[1], p[2])]
           I == {p \in (0 .. K) \X D : p[2] >= 0}
           result == CHOOSE f : Loop(f)
<1>1. K \in Nat /\ \A n \in 1 .. K : Len(lists[n]) \in Nat
  BY NAssumption DEF Nodes
<1>2. ASSUME NEW n \in 1 .. K, NEW v \in D, <<n - 1, v>> \in I
      PROVE  <<n, After(v, n)>> \in I
  BY <1>1
<1>3. <<0, 0>> \in I
  BY <1>1
<1>4. \A n \in 1 .. K : \A v \in D : step[<<v, n>>] = After(v, n)
  <2> HIDE DEF After, D, K
  <2> QED OBVIOUS
<1>5. LoopKeeps(K, D, I, 0, step)
  <2>1. I \subseteq (0 .. K) \X D
    OBVIOUS
  <2> HIDE DEF I, step, D, After
  <2> QED BY <1>2, <1>3, <1>4, <2>1 DEF LoopKeeps
<1>6. PICK g : LoopRun(g, K, D, I, 0, step)
  <2> HIDE DEF K, D, I, step
  <2> QED BY <1>1, <1>5, LoopRuns
<1>7. ASSUME NEW f PROVE Loop(f) <=> Runs(f)
  <2> HIDE DEF After, K
  <2> QED BY <1>1
<1>8. Loop(result)
  <2> HIDE DEF Loop, K, After, D, I, step
  <2>1. \A n \in 1 .. K : n - 1 \in 0 .. K
    BY <1>1
  <2>2. Runs(g)
    BY <1>4, <1>6, <2>1 DEF LoopRun
  <2> HIDE DEF Runs
  <2> QED BY <1>7, <2>2
<1>9. Ends(lists) = result
  BY DEF Ends
<1>10. LoopRun(result, K, D, I, 0, step)
  <2> HIDE DEF result, Loop, D, After, step, K
  <2>1. Runs(result)
    BY <1>7, <1>8
  <2>2. \A n \in 1 .. K : <<n - 1, result[n - 1]>> \in I => result[n] = step[<<result[n - 1], n>>]
    BY <1>1, <1>4, <2>1
  <2> HIDE DEF I
  <2> QED BY <1>1, <1>5, <2>1, <2>2, LoopInvariant
<1> QED
  <2> HIDE DEF result, D, I, step
  <2>1. result \in [0 .. N -> Nat] /\ result[0] = 0
    BY <1>10 DEF LoopRun, D
  <2>2. \A n \in 1 .. K : n - 1 \in 0 .. N
    BY <1>1
  <2>3. \A n \in 1 .. K : result[n] = After(result[n - 1], n)
    BY <1>4, <1>10, <2>1, <2>2 DEF LoopRun, D
  <2> QED BY <1>9, <2>1, <2>3 DEF Nodes

\* The ends increase, and every position below the last of them lies in one list.
LEMMA EndsIncrease ==
    ASSUME NEW lists, \A n \in Nodes : Len(lists[n]) \in Nat
    PROVE  /\ \A m, n \in 0 .. N : m <= n => Ends(lists)[m] <= Ends(lists)[n]
           /\ \A i \in 1 .. Ends(lists)[N] :
                \E n \in Nodes : Ends(lists)[n - 1] < i /\ i <= Ends(lists)[n]
<1> DEFINE ends == Ends(lists)
<1>1. /\ ends \in [0 .. N -> Nat] /\ ends[0] = 0 /\ N \in Nat /\ N \in 0 .. N
      /\ \A n \in 1 .. N : ends[n] = ends[n - 1] + Len(lists[n]) /\ Len(lists[n]) \in Nat
  BY EndsSums, NAssumption DEF Nodes
<1> HIDE DEF ends
<1>2. ASSUME NEW m \in 0 .. N PROVE \A n \in 0 .. N : m <= n => ends[m] <= ends[n]
  <2> DEFINE S == {n \in 0 .. N : m <= n => ends[m] <= ends[n]}
  <2>1. 0 \in S
    BY <1>1
  <2>2. ASSUME NEW n \in 0 .. N, n < N, n \in S PROVE n + 1 \in S
    <3>1. n + 1 \in 1 .. N /\ (n + 1) - 1 = n /\ n + 1 \in 0 .. N
      BY <1>1, <2>2
    <3>2. ends[n + 1] = ends[n] + Len(lists[n + 1]) /\ Len(lists[n + 1]) \in Nat
      BY <1>1, <3>1
    <3>3. ends[n] \in Nat /\ ends[m] \in Nat /\ ends[n + 1] \in Nat
      BY <1>1, <3>1
    <3> QED BY <2>2, <3>1, <3>2, <3>3
  <2>3. 0 .. N \subseteq S
    <3> HIDE DEF S
    <3> QED BY <1>1, <2>1, <2>2, LoopInduction
  <2> QED BY <2>3
<1>3. ASSUME NEW i \in 1 .. ends[N]
      PROVE  \E n \in Nodes : ends[n - 1] < i /\ i <= ends[n]
  <2> DEFINE T == {n \in 0 .. N : i <= ends[n]}
  <2>1. N \in T /\ T \subseteq Nat
    BY <1>1
  <2>2. PICK n \in T : \A m \in T : n <= m
    <3> HIDE DEF T
    <3> QED BY <2>1, LeastNatural
  <2>3. n # 0
    BY <1>1, <2>2
  <2>4. n \in 1 .. N /\ n - 1 \in 0 .. N /\ ~ (n <= n - 1)
    BY <1>1, <2>2, <2>3
  <2>5. ~ (i <= ends[n - 1])
    BY <2>2, <2>4
  <2> QED BY <1>1, <2>2, <2>4, <2>5 DEF Nodes
<1> QED
  BY <1>2, <1>3 DEF ends

\* The ends depend on the lengths of the lists only.
LEMMA EndsOfSameLengths ==
    ASSUME NEW lists, NEW others,
           \A n \in Nodes : Len(lists[n]) \in Nat /\ Len(others[n]) = Len(lists[n])
    PROVE  Ends(lists) = Ends(others)
<1> DEFINE e == Ends(lists)
           f == Ends(others)
           S == {n \in 0 .. N : e[n] = f[n]}
<1>1. /\ e \in [0 .. N -> Nat] /\ e[0] = 0 /\ N \in Nat
      /\ \A n \in 1 .. N : e[n] = e[n - 1] + Len(lists[n])
  BY EndsSums, NAssumption DEF Nodes
<1>2. /\ f \in [0 .. N -> Nat] /\ f[0] = 0
      /\ \A n \in 1 .. N : f[n] = f[n - 1] + Len(lists[n])
  BY EndsSums, NAssumption DEF Nodes
<1> HIDE DEF e, f
<1>3. 0 \in S
  BY <1>1, <1>2
<1>4. ASSUME NEW n \in 0 .. N, n < N, n \in S PROVE n + 1 \in S
  <2>1. n + 1 \in 1 .. N /\ (n + 1) - 1 = n /\ n + 1 \in 0 .. N
    BY <1>1, <1>4
  <2> QED BY <1>1, <1>2, <1>4, <2>1
<1>5. 0 .. N \subseteq S
  <2> HIDE DEF S
  <2> QED BY <1>1, <1>3, <1>4, LoopInduction
<1>6. e = f
  BY <1>1, <1>2, <1>5
<1> QED
  BY <1>6 DEF e, f

\* FlattenSeq lays the lists out one after the other.
LEMMA FlattenLists ==
    ASSUME NEW T, NEW lists \in [Nodes -> Seq(T)]
    PROVE  /\ FlattenSeq(lists) \in Seq(T)
           /\ Len(FlattenSeq(lists)) = Ends(lists)[N]
           /\ \A n \in Nodes : \A k \in 1 .. Len(lists[n]) :
                FlattenSeq(lists)[Ends(lists)[n - 1] + k] = lists[n][k]
<1> DEFINE K == N
           ends == Ends(lists)
           After(v, i) == v \o lists[i]
           Flat(f) == f = [i \in 1 .. Len(lists) |-> IF i = 1 THEN lists[i] ELSE f[i - 1] \o lists[i]]
           D == Seq(T)
           step == [p \in D \X (1 .. K) |-> After(p[1], p[2])]
           Laid(v, i) == /\ Len(v) = ends[i]
                         /\ \A n \in 1 .. i : \A k \in 1 .. Len(lists[n]) :
                              v[ends[n - 1] + k] = lists[n][k]
           I == {p \in (0 .. K) \X D : Laid(p[2], p[1])}
           result == CHOOSE f : Flat(f)
           r == [i \in 0 .. K |-> IF i = 0 THEN <<>> ELSE result[i]]
<1>1. /\ K \in Nat /\ Len(lists) = N /\ N # 0 /\ N \in 1 .. N
      /\ \A n \in 1 .. K : lists[n] \in Seq(T) /\ Len(lists[n]) \in Nat
  BY NAssumption DEF Nodes
<1>2. /\ ends \in [0 .. N -> Nat] /\ ends[0] = 0
      /\ \A n \in 1 .. N : ends[n] = ends[n - 1] + Len(lists[n])
      /\ \A m, n \in 0 .. N : m <= n => ends[m] <= ends[n]
  BY <1>1, EndsSums, EndsIncrease DEF Nodes
<1> HIDE DEF ends
<1>3. ASSUME NEW n \in 1 .. K, NEW v \in D, <<n - 1, v>> \in I
      PROVE  <<n, After(v, n)>> \in I
  <2> DEFINE w == After(v, n)
  <2>1. Laid(v, n - 1) /\ v \in Seq(T) /\ n - 1 \in 0 .. N /\ n \in 0 .. N
    <3> HIDE DEF Laid
    <3> QED BY <1>1, <1>3
  <2>2. lists[n] \in Seq(T) /\ Len(lists[n]) \in Nat /\ ends[n] = ends[n - 1] + Len(lists[n])
    BY <1>1, <1>2
  <2>3. w \in Seq(T) /\ Len(w) = ends[n]
    <3>1. Len(v) = ends[n - 1]
      BY <2>1
    <3> HIDE DEF Laid
    <3>2. w \in Seq(T) /\ Len(w) = Len(v) + Len(lists[n])
      BY <2>1, <2>2
    <3> HIDE DEF w
    <3> QED BY <2>2, <3>1, <3>2
  <2>4. \A k \in 1 .. Len(v) : w[k] = v[k]
    BY <2>1, <2>2
  <2>5. \A k \in 1 .. Len(lists[n]) : w[Len(v) + k] = lists[n][k]
    BY <2>1, <2>2
  <2> HIDE DEF w
  <2>6. ASSUME NEW m \in 1 .. n, NEW k \in 1 .. Len(lists[m])
        PROVE  w[ends[m - 1] + k] = lists[m][k]
    <3>1. CASE m = n
      BY <2>1, <2>5, <3>1
    <3>2. CASE m # n
      <4>1. m \in 1 .. n - 1 /\ m \in 0 .. N /\ m - 1 \in 0 .. N /\ m <= n - 1 /\ m \in 1 .. N
        BY <1>1, <3>2
      <4>2. ends[m] = ends[m - 1] + Len(lists[m]) /\ ends[m] <= ends[n - 1] /\ ends[m - 1] \in Nat
            /\ Len(lists[m]) \in Nat /\ ends[m] \in Nat /\ ends[n - 1] \in Nat
        BY <1>1, <1>2, <2>1, <4>1
      <4>3. ends[m - 1] + k \in 1 .. Len(v)
        BY <2>1, <4>2, SMTT(30)
      <4>4. v[ends[m - 1] + k] = lists[m][k]
        BY <2>1, <4>1
      <4> QED BY <2>4, <4>3, <4>4
    <3> QED BY <3>1, <3>2
  <2>7. Laid(w, n) /\ w \in D
    BY <2>3, <2>6
  <2> QED BY <2>1, <2>7 DEF w
<1>4. <<0, <<>> >> \in I
  <2>1. Laid(<<>>, 0) /\ <<>> \in D /\ 0 \in 0 .. K
    BY <1>1, <1>2
  <2> HIDE DEF Laid, D, K
  <2> QED BY <2>1
<1>5. \A n \in 1 .. K : \A v \in D : step[<<v, n>>] = After(v, n)
  <2> HIDE DEF After, D, K
  <2> QED OBVIOUS
<1>6. LoopKeeps(K, D, I, <<>>, step)
  <2>1. I \subseteq (0 .. K) \X D
    OBVIOUS
  <2> HIDE DEF I, step, D, After
  <2> QED BY <1>3, <1>4, <1>5, <2>1 DEF LoopKeeps
<1>7. PICK g : LoopRun(g, K, D, I, <<>>, step)
  <2> HIDE DEF K, D, I, step
  <2> QED BY <1>1, <1>6, LoopRuns, SMTT(30)
<1>8. Flat(result)
  <2> DEFINE f == [i \in 1 .. N |-> g[i]]
  <2>1. \A n \in 1 .. N : n - 1 \in 0 .. N /\ g[n - 1] \in Seq(T)
    BY <1>1, <1>7 DEF LoopRun
  <2>2. \A n \in 1 .. N : g[n] = g[n - 1] \o lists[n]
    <3> HIDE DEF I, step
    <3> QED BY <1>5, <1>7, <2>1 DEF LoopRun
  <2>3. g[0] = <<>> /\ g[1] = lists[1]
    <3>1. g[0] = <<>> /\ 1 \in 1 .. N /\ 1 - 1 = 0
      BY <1>1, <1>7 DEF LoopRun
    <3>2. g[1] = <<>> \o lists[1]
      BY <2>2, <3>1
    <3> QED BY <1>1, <3>1, <3>2
  <2>4. \A n \in 1 .. N : n # 1 => n - 1 \in 1 .. N
    BY <1>1
  <2>5. Flat(f)
    BY <1>1, <2>2, <2>3, <2>4
  <2> HIDE DEF f
  <2> QED BY <2>5, Zenon
<1>9. FlattenSeq(lists) = result[N]
  BY <1>1 DEF FlattenSeq
<1>10. LoopRun(r, K, D, I, <<>>, step)
  <2> HIDE DEF result
  <2>1. r = [i \in 0 .. K |-> r[i]] /\ r[0] = <<>>
    BY <1>1
  <2>2. ASSUME NEW n \in 1 .. K, <<n - 1, r[n - 1]>> \in I
        PROVE  r[n] = step[<<r[n - 1], n>>]
    <3>1. n - 1 \in 0 .. K /\ n \in 0 .. K /\ n # 0 /\ (n # 1 => n - 1 # 0)
      BY <1>1
    <3>2. r[n] = result[n] /\ r[n - 1] = IF n = 1 THEN <<>> ELSE result[n - 1]
      BY <3>1
    <3>3. r[n - 1] \in D
      BY <2>2
    <3>4. result[n] = IF n = 1 THEN lists[n] ELSE result[n - 1] \o lists[n]
      BY <1>1, <1>8
    <3>5. result[n] = After(r[n - 1], n)
      <4>1. CASE n = 1
        BY <1>1, <3>2, <3>4, <4>1
      <4>2. CASE n # 1
        BY <3>2, <3>4, <4>2
      <4> QED BY <4>1, <4>2
    <3> HIDE DEF r, step, After
    <3> QED BY <1>5, <3>2, <3>3, <3>5
  <2> HIDE DEF I, D, step, r, K
  <2> QED BY <1>1, <1>6, <2>1, <2>2, LoopInvariant
<1>11. Laid(r[N], N) /\ r[N] \in D
  <2>1. <<N, r[N]>> \in I
    <3> HIDE DEF D, I, step, r
    <3> QED BY <1>1, <1>10 DEF LoopRun
  <2> HIDE DEF r
  <2> QED BY <2>1
<1>12. r[N] = FlattenSeq(lists)
  <2> HIDE DEF result
  <2> QED BY <1>1, <1>9
<1> QED
  <2> HIDE DEF r
  <2> QED BY <1>11, <1>12 DEF ends, Nodes

\* The edges of the lists laid out one after the other are those of the lists.
LEMMA FlattenElements ==
    ASSUME NEW T, NEW lists \in [Nodes -> Seq(T)]
    PROVE  \A x : x \in ToSet(FlattenSeq(lists)) <=> \E n \in Nodes : x \in ToSet(lists[n])
<1> DEFINE ends == Ends(lists)
           flat == FlattenSeq(lists)
<1>1. \A n \in Nodes : Len(lists[n]) \in Nat /\ lists[n] \in Seq(T) /\ DOMAIN lists[n] = 1 .. Len(lists[n])
  OBVIOUS
<1>2. /\ ends \in [0 .. N -> Nat] /\ ends[0] = 0
      /\ \A n \in Nodes : ends[n] = ends[n - 1] + Len(lists[n])
      /\ \A m, n \in 0 .. N : m <= n => ends[m] <= ends[n]
      /\ \A i \in 1 .. ends[N] : \E n \in Nodes : ends[n - 1] < i /\ i <= ends[n]
  BY <1>1, EndsSums, EndsIncrease
<1>3. /\ flat \in Seq(T) /\ Len(flat) = ends[N]
      /\ \A n \in Nodes : \A k \in 1 .. Len(lists[n]) : flat[ends[n - 1] + k] = lists[n][k]
  BY FlattenLists
<1> HIDE DEF ends, flat
<1>4. \A n \in Nodes : n - 1 \in 0 .. N /\ n \in 0 .. N /\ N \in 0 .. N /\ n <= N
  BY NAssumption DEF Nodes
<1>5. \A n \in Nodes : ends[n - 1] \in Nat /\ ends[n] \in Nat /\ ends[n] <= ends[N] /\ ends[N] \in Nat
  BY <1>2, <1>4
<1>6. DOMAIN flat = 1 .. ends[N]
  BY <1>3
<1>7. ASSUME NEW x \in ToSet(flat) PROVE \E n \in Nodes : x \in ToSet(lists[n])
  <2>1. PICK i \in 1 .. ends[N] : x = flat[i]
    BY <1>6, <1>7 DEF ToSet
  <2>2. PICK n \in Nodes : ends[n - 1] < i /\ i <= ends[n]
    BY <1>2, <2>1
  <2>3. i - ends[n - 1] \in 1 .. Len(lists[n]) /\ ends[n - 1] + (i - ends[n - 1]) = i
    BY <1>1, <1>2, <1>5, <2>2
  <2>4. x = lists[n][i - ends[n - 1]]
    BY <1>3, <2>1, <2>3
  <2>5. x \in ToSet(lists[n])
    BY <1>1, <2>3, <2>4 DEF ToSet
  <2> QED BY <2>5
<1>8. ASSUME NEW n \in Nodes, NEW x \in ToSet(lists[n]) PROVE x \in ToSet(flat)
  <2>1. PICK k \in 1 .. Len(lists[n]) : x = lists[n][k]
    BY <1>1, <1>8 DEF ToSet
  <2>2. ends[n - 1] + k \in 1 .. ends[N]
    BY <1>1, <1>2, <1>5, <2>1
  <2>3. x = flat[ends[n - 1] + k]
    BY <1>3, <2>1
  <2> QED BY <1>6, <2>2, <2>3 DEF ToSet
<1> QED
  BY <1>7, <1>8 DEF flat

-----------------------------------------------------------------------------
(***************************************************************************)
(* The array.                                                              *)
(***************************************************************************)
\* E is a set of edges.
LeadToNodes(E) == \A e \in E : e.to \in Nodes

\* The list of a node is a sequence of edges, those of its slots.
LEMMA AdjacentEdges ==
    ASSUME NEW E, LeadToNodes(E), NEW g, Consistent(g, E), NEW n \in Nodes
    PROVE  /\ Adjacent(g, n) \in Seq(E)
           /\ Len(Adjacent(g, n)) = g.node[n].edges
           /\ \A i \in 1 .. g.node[n].edges : Adjacent(g, n)[i] = g.list[g.node[n].first + i - 1]
           /\ \A i \in Slots(g, n) : g.list[i] \in E
<1> DEFINE first == g.node[n].first
           edges == g.node[n].edges
           a == Adjacent(g, n)
<1>1. first \in Nat \ {0} /\ edges \in Nat /\ Slots(g, n) = first .. first + edges - 1
  BY DEF Consistent, Arrays, Slots, BeginEdges, EndEdges
<1>2. g.list \in Seq(E \cup {Dummy}) /\ first + edges <= Len(g.list) + 1 /\ DOMAIN g.list = 1 .. Len(g.list)
      /\ Len(g.list) \in Nat
  BY DEF Consistent, Arrays, EndEdges
<1>3. ASSUME NEW i \in Slots(g, n) PROVE g.list[i] \in E
  <2>1. i \in DOMAIN g.list
    BY <1>1, <1>2, <1>3
  <2>2. g.list[i].to # 0
    BY <1>3, <2>1 DEF Consistent, WellFormed, isDummy
  <2>3. g.list[i] \in E \cup {Dummy}
    BY <1>2, <2>1
  <2> QED BY <2>2, <2>3 DEF Dummy
<1>4. a = SubSeq(g.list, first, (first + edges) - 1)
  BY Zenon DEF Adjacent, BeginEdges, EndEdges
<1> HIDE DEF a, first, edges
<1>5. /\ a \in Seq(E \cup {Dummy}) /\ Len(a) = edges
      /\ \A i \in 1 .. edges : a[i] = g.list[first + i - 1]
  <2> DEFINE l == g.list
             T == E \cup {Dummy}
  <2>1. l \in Seq(T) /\ a = SubSeq(l, first, (first + edges) - 1) /\ first + edges <= Len(l) + 1
    BY <1>2, <1>4
  <2> HIDE DEF l, T
  <2>2. a \in Seq(T) /\ Len(a) = edges /\ \A i \in 1 .. edges : a[i] = l[first + i - 1]
    BY <1>1, <2>1
  <2> QED BY <2>2 DEF l, T
<1>6. \A i \in 1 .. edges : first + i - 1 \in Slots(g, n)
  BY <1>1
<1>7. a \in Seq(E)
  BY <1>3, <1>5, <1>6
<1> QED
  BY <1>3, <1>5, <1>7 DEF a, first, edges

\* The constructor: a consistent array without dummies whose lists are those given.
LEMMA FromListsConsistent ==
    ASSUME NEW E, LeadToNodes(E), NEW lists \in [Nodes -> Seq(E)]
    PROVE  /\ Consistent(FromLists(lists), E)
           /\ FromLists(lists).list \in Seq(E)
           /\ \A n \in Nodes : Adjacent(FromLists(lists), n) = lists[n]
           /\ FromLists(lists).count = NumberOfEdges(FromLists(lists))
<1> DEFINE ends == Ends(lists)
           flat == FlattenSeq(lists)
           g == FromLists(lists)
<1>1. \A n \in Nodes : Len(lists[n]) \in Nat /\ lists[n] \in Seq(E)
  OBVIOUS
<1>2. /\ ends \in [0 .. N -> Nat] /\ ends[0] = 0
      /\ \A n \in Nodes : ends[n] = ends[n - 1] + Len(lists[n])
      /\ \A m, n \in 0 .. N : m <= n => ends[m] <= ends[n]
      /\ \A i \in 1 .. ends[N] : \E n \in Nodes : ends[n - 1] < i /\ i <= ends[n]
  BY <1>1, EndsSums, EndsIncrease
<1>3. /\ flat \in Seq(E) /\ Len(flat) = ends[N]
      /\ \A n \in Nodes : \A k \in 1 .. Len(lists[n]) : flat[ends[n - 1] + k] = lists[n][k]
  BY FlattenLists
<1>4. lists = [n \in Nodes |-> lists[n]]
  OBVIOUS
<1>5. g = [node  |-> [n \in Nodes |-> [first |-> ends[n - 1] + 1, edges |-> Len(lists[n])]],
           list  |-> flat, count |-> ends[N]]
  BY <1>4 DEF FromLists
<1> HIDE DEF ends, flat, g
<1>6. \A n \in Nodes : n - 1 \in 0 .. N /\ n \in 0 .. N /\ n \in Nat
  BY NAssumption DEF Nodes
<1>7. \A n \in Nodes : ends[n - 1] \in Nat /\ ends[n] \in Nat /\ ends[n] <= ends[N]
  BY <1>2, <1>6, NAssumption DEF Nodes
<1>8. ASSUME NEW n \in Nodes
      PROVE  /\ g.node[n].first = ends[n - 1] + 1 /\ g.node[n].edges = Len(lists[n])
             /\ Slots(g, n) = ends[n - 1] + 1 .. ends[n]
             /\ EndEdges(g, n) = ends[n] + 1
  <2>1. g.node[n].first = ends[n - 1] + 1 /\ g.node[n].edges = Len(lists[n])
    BY <1>5
  <2>2. ends[n] = ends[n - 1] + Len(lists[n])
    BY <1>2
  <2> QED BY <1>1, <1>7, <2>1, <2>2 DEF Slots, BeginEdges, EndEdges
<1>9. g.list = flat /\ g.count = ends[N] /\ DOMAIN g.list = 1 .. ends[N] /\ ends[N] \in Nat
  BY <1>2, <1>3, <1>5, NAssumption
<1>10. \A i \in 1 .. ends[N] : g.list[i] \in E
  BY <1>3, <1>9
<1>11. WellFormed(g)
  <2>1. \A n \in Nodes : Slots(g, n) \subseteq DOMAIN g.list
    BY <1>7, <1>8, <1>9
  <2>2. ASSUME NEW m \in Nodes, NEW n \in Nodes, m < n PROVE Slots(g, m) \cap Slots(g, n) = {}
    <3>1. m <= n - 1 /\ ends[m] <= ends[n - 1]
      BY <1>2, <1>6, <2>2
    <3> QED BY <1>7, <1>8, <3>1, SMTT(30)
  <2>3. ASSUME NEW m \in Nodes, NEW n \in Nodes, m # n PROVE Slots(g, m) \cap Slots(g, n) = {}
    <3>1. m < n \/ n < m
      BY <1>6, <2>3
    <3> QED BY <2>2, <3>1
  <2>4. ASSUME NEW i \in DOMAIN g.list PROVE \E n \in Nodes : i \in Slots(g, n)
    <3>1. PICK n \in Nodes : ends[n - 1] < i /\ i <= ends[n]
      BY <1>2, <1>9
    <3>2. i \in Slots(g, n)
      BY <1>7, <1>8, <1>9, <3>1
    <3> QED BY <3>2
  <2>5. \A i \in DOMAIN g.list : g.list[i].to # 0
    BY <1>9, <1>10, NAssumption DEF Nodes, LeadToNodes
  <2> QED BY <2>1, <2>3, <2>4, <2>5 DEF WellFormed, isDummy
<1>12. Consistent(g, E)
  <2>1. g.list \in Seq(E \cup {Dummy})
    BY <1>3, <1>9
  <2>2. g.node \in [Nodes -> [first : Nat \ {0}, edges : Nat]]
    BY <1>1, <1>5, <1>7
  <2>3. \A n \in Nodes : EndEdges(g, n) <= Len(g.list) + 1
    BY <1>3, <1>7, <1>8, <1>9
  <2>4. g \in Arrays(E)
    BY <1>5, <1>9, <2>1, <2>2 DEF Arrays
  <2> QED BY <1>11, <2>3, <2>4 DEF Consistent
<1>13. ASSUME NEW n \in Nodes PROVE Adjacent(g, n) = lists[n]
  <2>1. /\ Adjacent(g, n) \in Seq(E) /\ Len(Adjacent(g, n)) = Len(lists[n])
        /\ \A i \in 1 .. Len(lists[n]) : Adjacent(g, n)[i] = g.list[g.node[n].first + i - 1]
    <3>1. g.node[n].edges = Len(lists[n])
      BY <1>8
    <3>2. Adjacent(g, n) \in Seq(E) /\ Len(Adjacent(g, n)) = g.node[n].edges
      BY <1>12, AdjacentEdges
    <3>3. \A i \in 1 .. g.node[n].edges : Adjacent(g, n)[i] = g.list[g.node[n].first + i - 1]
      BY <1>12, AdjacentEdges
    <3> QED BY <3>1, <3>2, <3>3
  <2>2. \A i \in 1 .. Len(lists[n]) : g.node[n].first + i - 1 = ends[n - 1] + i
    BY <1>1, <1>7, <1>8
  <2>3. \A i \in 1 .. Len(lists[n]) : Adjacent(g, n)[i] = lists[n][i]
    BY <1>3, <1>9, <2>1, <2>2
  <2> QED BY <1>1, <2>1, <2>3
<1>14. g.count = NumberOfEdges(g)
  <2>1. [n \in Nodes |-> Adjacent(g, n)] = lists
    BY <1>4, <1>13
  <2> QED BY <1>9, <2>1 DEF NumberOfEdges, ends
<1> QED
  BY <1>3, <1>9, <1>12, <1>13, <1>14 DEF g

\* The elements of the list are those in the slots.
LEMMA AdjacentSlots ==
    ASSUME NEW E, LeadToNodes(E), NEW g, Consistent(g, E), NEW n \in Nodes
    PROVE  /\ \A x \in ToSet(Adjacent(g, n)) : \E i \in Slots(g, n) : x = g.list[i]
           /\ \A i \in Slots(g, n) : g.list[i] \in ToSet(Adjacent(g, n))
<1> DEFINE first == g.node[n].first
           edges == g.node[n].edges
           a == Adjacent(g, n)
<1>1. first \in Nat \ {0} /\ edges \in Nat /\ Slots(g, n) = first .. first + edges - 1
  BY DEF Consistent, Arrays, Slots, BeginEdges, EndEdges
<1>2. a \in Seq(E) /\ Len(a) = edges /\ \A i \in 1 .. edges : a[i] = g.list[first + i - 1]
  BY AdjacentEdges
<1> HIDE DEF a, first, edges
<1>3. \A i \in 1 .. edges : first + i - 1 \in Slots(g, n)
  BY <1>1
<1>4. \A i \in Slots(g, n) : i - first + 1 \in 1 .. edges /\ first + (i - first + 1) - 1 = i
  BY <1>1
<1>5. ToSet(a) = {a[i] : i \in 1 .. edges}
  BY <1>2 DEF ToSet
<1>6. ASSUME NEW x \in ToSet(a) PROVE \E i \in Slots(g, n) : x = g.list[i]
  BY <1>2, <1>3, <1>5, <1>6
<1>7. ASSUME NEW i \in Slots(g, n) PROVE g.list[i] \in ToSet(a)
  BY <1>2, <1>4, <1>5, <1>7
<1> QED
  BY <1>6, <1>7 DEF a

\* The edges of a node are those in its slots.
LEMMA EdgeSlots ==
    ASSUME NEW E, LeadToNodes(E), NEW g, Consistent(g, E), NEW n \in Nodes
    PROVE  /\ \A x : x \in EdgeSet(g, n) <=> \E i \in Slots(g, n) : x = g.list[i]
           /\ EdgeSet(g, n) \subseteq E
<1>1. \A x : x \in EdgeSet(g, n) <=> \E i \in Slots(g, n) : x = g.list[i]
  BY AdjacentSlots DEF EdgeSet
<1>2. \A i \in Slots(g, n) : g.list[i] \in E
  BY AdjacentEdges
<1> QED
  BY <1>1, <1>2

\* Slots of lists lie in the array and hold edges.
LEMMA SlotEdges ==
    ASSUME NEW E, LeadToNodes(E), NEW g, Consistent(g, E), NEW n \in Nodes,
           NEW i \in Slots(g, n)
    PROVE  g.list[i] \in E /\ i \in DOMAIN g.list
<1>1. g.list[i] \in E
  BY AdjacentEdges
<1>2. i \in DOMAIN g.list
  BY DEF Consistent, WellFormed
<1> QED
  BY <1>1, <1>2

\* The targets of a node are those of its slots.
LEMMA TargetSlots ==
    ASSUME NEW E, LeadToNodes(E), NEW g, Consistent(g, E), NEW n \in Nodes
    PROVE  \A v : v \in GetTargets(g, n) <=> \E i \in Slots(g, n) : v = g.list[i].to
<1>1. ASSUME NEW v \in GetTargets(g, n) PROVE \E i \in Slots(g, n) : v = g.list[i].to
  <2>1. PICK x \in ToSet(Adjacent(g, n)) : v = x.to
    BY <1>1 DEF GetTargets
  <2>2. PICK i \in Slots(g, n) : x = g.list[i]
    BY AdjacentSlots
  <2> QED BY <2>1, <2>2
<1>2. ASSUME NEW i \in Slots(g, n) PROVE g.list[i].to \in GetTargets(g, n)
  <2>1. g.list[i] \in ToSet(Adjacent(g, n))
    BY AdjacentSlots
  <2> QED BY <2>1 DEF GetTargets
<1> QED
  BY <1>1, <1>2

\* From g to h, one node gets a new list in slots that no other node has.
ListReplaced(g, h, from, E) ==
    /\ \A n \in Nodes \ {from} : h.node[n] = g.node[n]
    /\ Len(h.list) >= Len(g.list)
    /\ \A n \in Nodes \ {from} : \A i \in Slots(g, n) : h.list[i] = g.list[i]
    /\ EndEdges(h, from) <= Len(h.list) + 1
    /\ \A i \in Slots(h, from) : h.list[i] \in E /\ \A n \in Nodes \ {from} : i \notin Slots(g, n)
    /\ \A i \in DOMAIN h.list : i \notin Slots(h, from) /\ (\A n \in Nodes \ {from} : i \notin Slots(g, n))
                                   => h.list[i] = Dummy

\* This leaves the array consistent and the other lists alone.
LEMMA OneListChanged ==
    ASSUME NEW E, LeadToNodes(E), NEW g, Consistent(g, E), NEW from \in Nodes,
           NEW h \in Arrays(E), ListReplaced(g, h, from, E)
    PROVE  /\ Consistent(h, E)
           /\ \A n \in Nodes \ {from} : GetTargets(h, n) = GetTargets(g, n)
           /\ \A n \in Nodes \ {from} : EdgeSet(h, n) = EdgeSet(g, n)
<1>1. ASSUME NEW n \in Nodes \ {from}
      PROVE  /\ Slots(h, n) = Slots(g, n) /\ EndEdges(h, n) = EndEdges(g, n)
             /\ \A i \in Slots(g, n) : h.list[i] = g.list[i] /\ g.list[i] \in E
  <2>1. h.node[n] = g.node[n] /\ \A i \in Slots(g, n) : h.list[i] = g.list[i]
    BY DEF ListReplaced
  <2>2. \A i \in Slots(g, n) : g.list[i] \in E
    BY SlotEdges
  <2> QED BY <2>1, <2>2 DEF Slots, BeginEdges, EndEdges
<1>2. /\ Len(g.list) \in Nat /\ DOMAIN g.list = 1 .. Len(g.list)
      /\ Len(h.list) \in Nat /\ DOMAIN h.list = 1 .. Len(h.list)
      /\ DOMAIN g.list \subseteq DOMAIN h.list
  BY DEF Consistent, Arrays, ListReplaced
<1>3. \A n \in Nodes : EndEdges(h, n) \in Int /\ EndEdges(g, n) \in Int
  BY DEF Consistent, Arrays, EndEdges
<1>4. \A n \in Nodes : EndEdges(h, n) <= Len(h.list) + 1
  BY <1>1, <1>2, <1>3 DEF Consistent, ListReplaced
<1>5. WellFormed(h)
  <2>1. ASSUME NEW n \in Nodes PROVE Slots(h, n) \subseteq DOMAIN h.list
    <3>1. CASE n = from
      <4>1. BeginEdges(h, n) \in Nat \ {0} /\ Slots(h, n) = BeginEdges(h, n) .. EndEdges(h, n) - 1
        BY DEF Arrays, BeginEdges, Slots
      <4> QED BY <1>2, <1>3, <1>4, <4>1
    <3>2. CASE n # from
      BY <1>1, <1>2, <3>2 DEF Consistent, WellFormed
    <3> QED BY <3>1, <3>2
  <2>2. ASSUME NEW m \in Nodes, NEW n \in Nodes, m # n PROVE Slots(h, m) \cap Slots(h, n) = {}
    <3>1. CASE m = from
      BY <1>1, <2>2, <3>1 DEF ListReplaced
    <3>2. CASE n = from
      BY <1>1, <2>2, <3>2 DEF ListReplaced
    <3>3. CASE m # from /\ n # from
      BY <1>1, <2>2, <3>3 DEF Consistent, WellFormed
    <3> QED BY <3>1, <3>2, <3>3
  <2>3. ASSUME NEW i \in DOMAIN h.list PROVE h.list[i].to = 0 <=> \A n \in Nodes : i \notin Slots(h, n)
    <3>1. CASE i \in Slots(h, from)
      <4>1. h.list[i].to \in Nodes
        BY <3>1 DEF ListReplaced, LeadToNodes
      <4> QED BY <3>1, <4>1, NAssumption DEF Nodes
    <3>2. ASSUME NEW n \in Nodes \ {from}, i \in Slots(g, n)
          PROVE  h.list[i].to # 0 /\ i \in Slots(h, n)
      <4>1. h.list[i].to \in Nodes
        BY <1>1, <3>2 DEF LeadToNodes
      <4> QED BY <1>1, <3>2, <4>1, NAssumption DEF Nodes
    <3>3. CASE i \notin Slots(h, from) /\ \A n \in Nodes \ {from} : i \notin Slots(g, n)
      <4>1. h.list[i] = Dummy
        BY <3>3 DEF ListReplaced
      <4>2. h.list[i].to = 0
        BY <4>1 DEF Dummy
      <4> QED BY <1>1, <3>3, <4>2
    <3> QED BY <3>1, <3>2, <3>3
  <2> QED BY <2>1, <2>2, <2>3 DEF WellFormed, isDummy
<1>6. Consistent(h, E)
  BY <1>4, <1>5 DEF Consistent
<1>7. ASSUME NEW n \in Nodes \ {from} PROVE EdgeSet(h, n) = EdgeSet(g, n)
  <2>1. \A x : x \in EdgeSet(h, n) <=> \E i \in Slots(h, n) : x = h.list[i]
    BY <1>6, EdgeSlots
  <2>2. \A x : x \in EdgeSet(g, n) <=> \E i \in Slots(g, n) : x = g.list[i]
    BY EdgeSlots
  <2>3. Slots(h, n) = Slots(g, n) /\ \A i \in Slots(g, n) : h.list[i] = g.list[i]
    BY <1>1
  <2> QED BY ONLY <2>1, <2>2, <2>3
<1>8. \A n \in Nodes \ {from} : GetTargets(h, n) = GetTargets(g, n)
  BY <1>7 DEF GetTargets, EdgeSet
<1> QED
  BY <1>6, <1>7, <1>8

\* The slots of all nodes but one.
OtherSlots(g, from) == {i \in DOMAIN g.list : \E n \in Nodes \ {from} : i \in Slots(g, n)}

\* The array a seen from a node with a list of k edges from f on: a slot is its own,
\* another's or a dummy.
SlotView(E, a, f, k, others) ==
    /\ f \in Nat \ {0} /\ k \in Nat /\ a \in Seq(E \cup {Dummy}) /\ f + k <= Len(a) + 1
    /\ others \subseteq 1 .. Len(a)
    /\ \A i \in f .. f + k - 1 : a[i] \in E /\ i \notin others
    /\ \A i \in 1 .. Len(a) : i \notin f .. f + k - 1 /\ i \notin others => a[i] = Dummy
    /\ \A i \in 1 .. Len(a) : a[i].to = 0 => i \notin f .. f + k - 1 /\ i \notin others

\* The slots of the other lists are disjoint from those of `from`, and no dummies.
LEMMA SlotsApart ==
    ASSUME NEW E, LeadToNodes(E), NEW g, Consistent(g, E), NEW from \in Nodes
    PROVE  /\ SlotView(E, g.list, g.node[from].first, g.node[from].edges, OtherSlots(g, from))
           /\ Slots(g, from) = g.node[from].first .. g.node[from].first + g.node[from].edges - 1
<1>1. g.list \in Seq(E \cup {Dummy}) /\ DOMAIN g.list = 1 .. Len(g.list) /\ g.count \in Int
  BY DEF Consistent, Arrays
<1>2. g.node[from].first \in Nat \ {0} /\ g.node[from].edges \in Nat
      /\ Slots(g, from) = g.node[from].first .. g.node[from].first + g.node[from].edges - 1
  BY DEF Consistent, Arrays, Slots, BeginEdges, EndEdges
<1>3. g.node[from].first + g.node[from].edges <= Len(g.list) + 1
  BY DEF Consistent, EndEdges
<1>4. \A i \in Slots(g, from) : g.list[i] \in E /\ i \notin OtherSlots(g, from)
  <2>1. \A i \in Slots(g, from) : g.list[i] \in E
    BY SlotEdges
  <2>2. \A i \in Slots(g, from) : i \notin OtherSlots(g, from)
    BY DEF OtherSlots, Consistent, WellFormed
  <2> QED BY <2>1, <2>2
<1>5. ASSUME NEW i \in 1 .. Len(g.list), i \notin Slots(g, from), i \notin OtherSlots(g, from)
      PROVE  g.list[i] = Dummy
  <2>1. isDummy(g, i)
    BY <1>1, <1>5 DEF OtherSlots, Consistent, WellFormed
  <2>2. g.list[i] \in E \cup {Dummy}
    BY <1>1
  <2> QED BY <2>1, <2>2, NAssumption DEF isDummy, Nodes, LeadToNodes
<1>6. ASSUME NEW i \in 1 .. Len(g.list), isDummy(g, i)
      PROVE  i \notin Slots(g, from) /\ i \notin OtherSlots(g, from)
  BY <1>1, <1>6 DEF OtherSlots, Consistent, WellFormed
<1>7. OtherSlots(g, from) \subseteq 1 .. Len(g.list)
  BY <1>1 DEF OtherSlots
<1> QED
  BY <1>1, <1>2, <1>3, <1>4, <1>5, <1>6, <1>7 DEF SlotView, isDummy

\* The array l has the lists of others as in a, a list of K edges from F on, and dummies
\* elsewhere.
Placed(E, a, l, F, K, others) ==
    /\ F \in Nat \ {0} /\ K \in Nat /\ l \in Seq(E \cup {Dummy})
    /\ Len(l) >= Len(a) /\ F + K <= Len(l) + 1
    /\ \A i \in F .. F + K - 1 : l[i] \in E /\ i \notin others
    /\ \A i \in others : l[i] = a[i]
    /\ \A i \in 1 .. Len(l) : i \notin others /\ i \notin F .. F + K - 1 => l[i] = Dummy

\* The graph with such an array.
WithList(g, from, F, K, l, c) ==
    [node |-> [g.node EXCEPT ![from] = [first |-> F, edges |-> K]], list |-> l, count |-> c]

\* It is consistent, and one node has new edges.
ListBecomes(g, h, from, F, K, l, E) ==
    /\ Consistent(h, E)
    /\ \A n \in Nodes \ {from} : GetTargets(h, n) = GetTargets(g, n)
    /\ \A n \in Nodes \ {from} : EdgeSet(h, n) = EdgeSet(g, n)
    /\ \A v : v \in GetTargets(h, from) <=> \E i \in F .. F + K - 1 : v = l[i].to
    /\ \A x : x \in EdgeSet(h, from) <=> \E i \in F .. F + K - 1 : x = l[i]

\* A list that was placed elsewhere leaves the array consistent.
LEMMA NewList ==
    ASSUME NEW E, LeadToNodes(E), NEW g, Consistent(g, E), NEW from \in Nodes,
           NEW F, NEW K, NEW l, Placed(E, g.list, l, F, K, OtherSlots(g, from)), NEW c \in Int
    PROVE  ListBecomes(g, WithList(g, from, F, K, l, c), from, F, K, l, E)
<1> DEFINE h == WithList(g, from, F, K, l, c)
<1>1. g.node \in [Nodes -> [first : Nat \ {0}, edges : Nat]]
  BY DEF Consistent, Arrays
<1>2. h.list = l /\ h.count = c /\ h.node[from] = [first |-> F, edges |-> K]
      /\ h.node \in [Nodes -> [first : Nat \ {0}, edges : Nat]]
      /\ \A n \in Nodes \ {from} : h.node[n] = g.node[n]
  BY <1>1 DEF Placed, WithList
<1>3. h \in Arrays(E)
  BY <1>1 DEF Arrays, Placed, WithList
<1> HIDE DEF h
<1>4. Slots(h, from) = F .. F + K - 1 /\ EndEdges(h, from) = F + K /\ DOMAIN h.list = 1 .. Len(l)
  BY <1>2 DEF Slots, BeginEdges, EndEdges, Placed
<1>5. \A n \in Nodes \ {from} : \A i \in Slots(g, n) : i \in OtherSlots(g, from)
  BY SlotEdges DEF OtherSlots
<1>6. ListReplaced(g, h, from, E)
  <2>1. \A n \in Nodes \ {from} : \A i \in Slots(g, n) : h.list[i] = g.list[i]
    BY <1>2, <1>5 DEF Placed
  <2>2. \A i \in Slots(h, from) : h.list[i] \in E /\ \A n \in Nodes \ {from} : i \notin Slots(g, n)
    BY <1>2, <1>4, <1>5 DEF Placed
  <2>3. ASSUME NEW i \in DOMAIN h.list, i \notin Slots(h, from), \A n \in Nodes \ {from} : i \notin Slots(g, n)
        PROVE  h.list[i] = Dummy
    <3>1. i \notin OtherSlots(g, from)
      BY <2>3 DEF OtherSlots
    <3> QED BY <1>2, <1>4, <2>3, <3>1 DEF Placed
  <2> QED BY <1>2, <1>4, <2>1, <2>2, <2>3 DEF ListReplaced, Placed
<1>7. /\ Consistent(h, E) /\ \A n \in Nodes \ {from} : GetTargets(h, n) = GetTargets(g, n)
      /\ \A n \in Nodes \ {from} : EdgeSet(h, n) = EdgeSet(g, n)
  BY <1>3, <1>6, OneListChanged
<1>8. \A v : v \in GetTargets(h, from) <=> \E i \in Slots(h, from) : v = h.list[i].to
  BY <1>7, TargetSlots
<1>9. \A v : v \in GetTargets(h, from) <=> \E i \in F .. F + K - 1 : v = l[i].to
  BY ONLY <1>2, <1>4, <1>8
<1>10. \A x : x \in EdgeSet(h, from) <=> \E i \in F .. F + K - 1 : x = l[i]
  <2>1. \A x : x \in EdgeSet(h, from) <=> \E i \in Slots(h, from) : x = h.list[i]
    BY <1>7, EdgeSlots
  <2> QED BY ONLY <1>2, <1>4, <2>1
<1> QED
  BY ONLY <1>7, <1>9, <1>10 DEF h, ListBecomes

-----------------------------------------------------------------------------
(***************************************************************************)
(* The operations.                                                         *)
(***************************************************************************)
\* The edges from F on in l are the k from f on in a and the edge e.
OneMore(a, f, k, l, F, e) ==
    \A x : (\E i \in F .. F + (k + 1) - 1 : x = l[i]) <=> (\E i \in f .. f + k - 1 : x = a[i]) \/ x = e

\* l is a with x at one place.
IsUpdate(a, l, at, x) ==
    Len(l) = Len(a) /\ l[at] = x /\ \A i \in 1 .. Len(a) : i # at => l[i] = a[i]

\* Writing one slot changes that slot.
LEMMA UpdateOne ==
    ASSUME NEW E, NEW a \in Seq(E \cup {Dummy}), NEW i \in 1 .. Len(a), NEW x \in E \cup {Dummy}
    PROVE  /\ [a EXCEPT ![i] = x] \in Seq(E \cup {Dummy})
           /\ IsUpdate(a, [a EXCEPT ![i] = x], i, x)
BY DEF IsUpdate

\* There is room behind the list.
LEMMA RoomBehind ==
    ASSUME NEW E, NEW a, NEW f, NEW k, NEW others, SlotView(E, a, f, k, others), NEW e \in E,
           f + k # Len(a) + 1, a[f + k].to = 0,
           NEW l \in Seq(E \cup {Dummy}), IsUpdate(a, l, f + k, e)
    PROVE  Placed(E, a, l, f, k + 1, others) /\ OneMore(a, f, k, l, f, e)
<1>1. f \in Nat \ {0} /\ k \in Nat /\ Len(a) \in Nat /\ a \in Seq(E \cup {Dummy}) /\ f + k <= Len(a) + 1
      /\ others \subseteq 1 .. Len(a)
  BY DEF SlotView
<1>2. f + k \in 1 .. Len(a)
  BY <1>1
<1>3. f + k \notin others
  BY <1>2 DEF SlotView
<1>4. l \in Seq(E \cup {Dummy}) /\ Len(l) = Len(a)
  BY DEF IsUpdate
<1>5. l[f + k] = e /\ \A i \in 1 .. Len(a) : i # f + k => l[i] = a[i]
  BY DEF IsUpdate
<1>6. \A i \in f .. f + (k + 1) - 1 : (i = f + k \/ i \in f .. f + k - 1) /\ i \in 1 .. Len(a)
  BY <1>1, <1>2
<1>7. \A i \in f .. f + k - 1 : i # f + k /\ i \in 1 .. Len(a) /\ i \in f .. f + (k + 1) - 1
  BY <1>1, <1>2
<1>8. \A i \in f .. f + k - 1 : a[i] \in E /\ i \notin others
  BY DEF SlotView
<1>9. \A i \in f .. f + (k + 1) - 1 : l[i] \in E /\ i \notin others
  BY <1>3, <1>5, <1>6, <1>7, <1>8
<1>10. \A i \in others : l[i] = a[i]
  BY <1>1, <1>3, <1>5
<1>11. ASSUME NEW i \in 1 .. Len(l), i \notin others, i \notin f .. f + (k + 1) - 1 PROVE l[i] = Dummy
  <2>1. i \in 1 .. Len(a) /\ i # f + k /\ i \notin f .. f + k - 1
    BY <1>1, <1>4, <1>11
  <2> QED BY <1>5, <1>11, <2>1 DEF SlotView
<1>12. Placed(E, a, l, f, k + 1, others)
  <2>1. k + 1 \in Nat /\ f + (k + 1) <= Len(l) + 1 /\ Len(l) >= Len(a)
    BY <1>1, <1>2, <1>4
  <2> QED BY <1>1, <1>4, <1>9, <1>10, <1>11, <2>1 DEF Placed
<1>13. ASSUME NEW i \in f .. f + (k + 1) - 1
       PROVE  (\E j \in f .. f + k - 1 : l[i] = a[j]) \/ l[i] = e
  BY <1>5, <1>6, <1>7
<1>14. f + k \in f .. f + (k + 1) - 1
  BY <1>1
<1>15. \A i \in f .. f + k - 1 : i \in f .. f + (k + 1) - 1 /\ l[i] = a[i]
  BY <1>5, <1>7
<1>16. OneMore(a, f, k, l, f, e)
  BY <1>5, <1>13, <1>14, <1>15 DEF OneMore
<1> QED
  BY <1>12, <1>16

\* There is room in front of the list: its last edge goes there, e to the place of that one.
LEMMA RoomInFront ==
    ASSUME NEW E, NEW a, NEW f, NEW k, NEW others, SlotView(E, a, f, k, others), NEW e \in E,
           f # 1, a[f - 1].to = 0,
           NEW b \in Seq(E \cup {Dummy}), IsUpdate(a, b, f - 1, a[f - 1 + k]),
           NEW l \in Seq(E \cup {Dummy}), IsUpdate(b, l, f - 1 + k, e)
    PROVE  Placed(E, a, l, f - 1, k + 1, others) /\ OneMore(a, f, k, l, f - 1, e)
<1>1. f \in Nat \ {0} /\ k \in Nat /\ Len(a) \in Nat /\ a \in Seq(E \cup {Dummy}) /\ f + k <= Len(a) + 1
      /\ others \subseteq 1 .. Len(a)
  BY DEF SlotView
<1>2. f - 1 \in 1 .. Len(a) /\ f - 1 + k \in 1 .. Len(a) /\ f - 1 \in Nat \ {0}
  BY <1>1
<1>3. f - 1 \notin others
  BY <1>2 DEF SlotView
<1>5. l \in Seq(E \cup {Dummy}) /\ Len(l) = Len(a)
  BY DEF IsUpdate
<1>6. /\ l[f - 1 + k] = e
      /\ k # 0 => l[f - 1] = a[f - 1 + k]
      /\ \A i \in 1 .. Len(a) : i # f - 1 /\ i # f - 1 + k => l[i] = a[i]
  BY <1>1, <1>2 DEF IsUpdate
<1>7. \A i \in f .. f + k - 1 : a[i] \in E /\ i \notin others
  BY DEF SlotView
<1>8. \A i \in f - 1 .. (f - 1) + (k + 1) - 1 :
        \/ i = f - 1 + k
        \/ k # 0 /\ i = f - 1 /\ f - 1 + k \in f .. f + k - 1
        \/ i \in f .. f + k - 1 /\ i # f - 1 /\ i # f - 1 + k /\ i \in 1 .. Len(a)
  BY <1>1, <1>2
<1>9. k # 0 => f - 1 + k \in f .. f + k - 1
  BY <1>1
<1>10. f - 1 + k \notin others
  BY <1>1, <1>3, <1>7, <1>9
<1>11. \A i \in f - 1 .. (f - 1) + (k + 1) - 1 : l[i] \in E /\ i \notin others
  BY <1>3, <1>6, <1>7, <1>8, <1>10
<1>12. \A i \in others : l[i] = a[i]
  BY <1>1, <1>3, <1>6, <1>10
<1>13. ASSUME NEW i \in 1 .. Len(l), i \notin others, i \notin f - 1 .. (f - 1) + (k + 1) - 1 PROVE l[i] = Dummy
  <2>1. i \in 1 .. Len(a) /\ i # f - 1 /\ i # f - 1 + k /\ i \notin f .. f + k - 1
    BY <1>1, <1>5, <1>13
  <2> QED BY <1>6, <1>13, <2>1 DEF SlotView
<1>14. Placed(E, a, l, f - 1, k + 1, others)
  <2>1. k + 1 \in Nat /\ (f - 1) + (k + 1) <= Len(l) + 1 /\ Len(l) >= Len(a)
    BY <1>1, <1>5
  <2> QED BY <1>2, <1>5, <1>11, <1>12, <1>13, <2>1 DEF Placed
<1>15. ASSUME NEW i \in f - 1 .. (f - 1) + (k + 1) - 1
       PROVE  (\E j \in f .. f + k - 1 : l[i] = a[j]) \/ l[i] = e
  BY <1>6, <1>8
<1>16. f - 1 + k \in f - 1 .. (f - 1) + (k + 1) - 1 /\ f - 1 \in f - 1 .. (f - 1) + (k + 1) - 1
  BY <1>1
<1>17. ASSUME NEW i \in f .. f + k - 1
       PROVE  \E j \in f - 1 .. (f - 1) + (k + 1) - 1 : l[j] = a[i]
  <2>1. CASE i = f - 1 + k
    <3>1. l[f - 1] = a[i]
      BY <1>1, <1>6, <2>1
    <3> QED BY <1>16, <3>1
  <2>2. CASE i # f - 1 + k
    <3>1. i \in 1 .. Len(a) /\ i # f - 1 /\ i \in f - 1 .. (f - 1) + (k + 1) - 1
      BY <1>1
    <3> QED BY <1>6, <2>2, <3>1
  <2> QED BY <2>1, <2>2
<1>18. OneMore(a, f, k, l, f - 1, e)
  <2> DEFINE new == f - 1 .. (f - 1) + (k + 1) - 1
             old == f .. f + k - 1
             last == f - 1 + k
  <2>1. last \in new /\ l[last] = e
    BY <1>6, <1>16
  <2>2. \A i \in new : (\E j \in old : l[i] = a[j]) \/ l[i] = e
    BY <1>15
  <2>3. \A i \in old : \E j \in new : l[j] = a[i]
    BY <1>17
  <2> HIDE DEF new, old, last
  <2>4. \A x : (\E i \in new : x = l[i]) <=> (\E i \in old : x = a[i]) \/ x = e
    BY ONLY <2>1, <2>2, <2>3
  <2> QED BY <2>4 DEF OneMore, new, old
<1> QED
  BY <1>14, <1>18

\* The array with the list moved to its end, where spare slots follow it.
Moved(a, m, f, k, spare) ==
    /\ Len(m) = Len(a) + k + spare
    /\ \A i \in 1 .. Len(a) : m[i] = IF i \in f .. f + k - 1 THEN Dummy ELSE a[i]
    /\ \A i \in 1 .. k : m[Len(a) + i] = a[f + i - 1]
    /\ \A i \in 1 .. spare : m[Len(a) + k + i] = Dummy

\* The parts of the array after its list moved to the end.
LEMMA MovedParts ==
    ASSUME NEW T, Dummy \in T, NEW a \in Seq(T), NEW f \in Nat, NEW k \in Nat,
           NEW spare \in Nat, NEW list \in Seq(T), Len(list) = k,
           \A i \in 1 .. k : list[i] = a[f + i - 1], NEW m,
           m = [i \in DOMAIN a |-> IF i \in f .. f + k - 1 THEN Dummy ELSE a[i]]
                 \o list \o [i \in 1 .. spare |-> Dummy]
    PROVE  m \in Seq(T) /\ Moved(a, m, f, k, spare)
<1> DEFINE x == [i \in DOMAIN a |-> IF i \in f .. f + k - 1 THEN Dummy ELSE a[i]]
           y == [i \in 1 .. spare |-> Dummy]
           L == Len(a)
           z == x \o list
<1>1. DOMAIN a = 1 .. L /\ L \in Nat /\ \A i \in 1 .. L : a[i] \in T
  OBVIOUS
<1>2. x \in [1 .. L -> T] /\ \A i \in 1 .. L : x[i] = IF i \in f .. f + k - 1 THEN Dummy ELSE a[i]
  BY <1>1
<1>3. y \in [1 .. spare -> T] /\ \A i \in 1 .. spare : y[i] = Dummy
  OBVIOUS
<1>4. m = z \o y
  BY Zenon
<1>5. list \in Seq(T) /\ Len(list) = k
  OBVIOUS
<1> HIDE DEF x, y, L
<1>6. x \in Seq(T) /\ Len(x) = L
  BY ONLY <1>1, <1>2, SeqOfFunction
<1>7. y \in Seq(T) /\ Len(y) = spare
  BY <1>3, SeqOfFunction
<1>8. /\ z \in Seq(T) /\ Len(z) = L + k
      /\ \A i \in 1 .. L : z[i] = x[i]
      /\ \A i \in 1 .. k : z[L + i] = list[i]
  <2>1. /\ z \in Seq(T) /\ Len(z) = Len(x) + Len(list)
        /\ \A i \in 1 .. Len(x) : z[i] = x[i]
        /\ \A i \in 1 .. Len(list) : z[Len(x) + i] = list[i]
    BY ONLY <1>5, <1>6, SMTT(30)
  <2> HIDE DEF z
  <2> QED BY ONLY <1>5, <1>6, <2>1
<1> HIDE DEF z
<1>9. /\ m \in Seq(T) /\ Len(m) = (L + k) + spare
      /\ \A i \in 1 .. L + k : m[i] = z[i]
      /\ \A i \in 1 .. spare : m[(L + k) + i] = y[i]
  <2>0. z \in Seq(T) /\ y \in Seq(T)
    BY <1>7, <1>8
  <2>1. /\ z \o y \in Seq(T) /\ Len(z \o y) = Len(z) + Len(y)
        /\ \A i \in 1 .. Len(z) : (z \o y)[i] = z[i]
        /\ \A i \in 1 .. Len(y) : (z \o y)[Len(z) + i] = y[i]
    BY ONLY <2>0
  <2> QED BY ONLY <1>4, <1>7, <1>8, <2>1
<1>10. \A i \in 1 .. L : i \in 1 .. L + k
  BY ONLY <1>1, k \in Nat
<1>11. \A i \in 1 .. k : L + i \in 1 .. L + k
  BY ONLY <1>1, k \in Nat
<1>12. \A i \in 1 .. L : m[i] = IF i \in f .. f + k - 1 THEN Dummy ELSE a[i]
  BY ONLY <1>2, <1>8, <1>9, <1>10
<1>13. \A i \in 1 .. k : m[L + i] = a[f + i - 1]
  BY <1>8, <1>9, <1>11
<1>14. \A i \in 1 .. spare : m[L + k + i] = Dummy
  BY ONLY <1>3, <1>9
<1> QED
  BY ONLY <1>9, <1>12, <1>13, <1>14 DEF Moved, L

\* The list moves to the end of the array and e behind it.
LEMMA RoomAtEnd ==
    ASSUME NEW E, NEW a, NEW f, NEW k, NEW others, SlotView(E, a, f, k, others), NEW e \in E,
           NEW spare \in Nat, spare >= 2, NEW m \in Seq(E \cup {Dummy}), Moved(a, m, f, k, spare),
           NEW l \in Seq(E \cup {Dummy}), IsUpdate(m, l, Len(a) + 1 + k, e)
    PROVE  Placed(E, a, l, Len(a) + 1, k + 1, others) /\ OneMore(a, f, k, l, Len(a) + 1, e)
<1> DEFINE T == E \cup {Dummy}
           L == Len(a)
<1>1. f \in Nat \ {0} /\ k \in Nat /\ L \in Nat /\ f + k <= L + 1 /\ others \subseteq 1 .. L
  BY DEF SlotView
<1>2. m \in Seq(T) /\ l \in Seq(T) /\ Len(m) = L + k + spare /\ IsUpdate(m, l, L + 1 + k, e)
  BY DEF Moved
<1>3. \A i \in 1 .. L : m[i] = IF i \in f .. f + k - 1 THEN Dummy ELSE a[i]
  BY DEF Moved
<1>4. \A i \in 1 .. k : m[L + i] = a[f + i - 1]
  BY DEF Moved
<1>5. \A i \in 1 .. spare : m[L + k + i] = Dummy
  BY DEF Moved
<1> HIDE DEF L, T
<1>6. /\ l \in Seq(T) /\ Len(l) = L + k + spare /\ l[L + 1 + k] = e
       /\ \A i \in 1 .. L + k + spare : i # L + 1 + k => l[i] = m[i]
  BY ONLY <1>2 DEF IsUpdate
<1>7. \A i \in 1 .. k : L + i \in 1 .. L + k + spare /\ L + i # L + 1 + k /\ f + i - 1 \in f .. f + k - 1
                            /\ l[L + i] = a[f + i - 1]
  <2>1. \A i \in 1 .. k : L + i \in 1 .. L + k + spare /\ L + i # L + 1 + k /\ f + i - 1 \in f .. f + k - 1
    BY <1>1
  <2> QED BY <1>4, <1>6, <2>1
<1>8. \A i \in f .. f + k - 1 : a[i] \in E /\ i \notin others
  BY DEF SlotView
<1>9. \A i \in L + 1 .. (L + 1) + (k + 1) - 1 :
         i \notin others /\ (i = L + 1 + k \/ (i - L \in 1 .. k /\ L + (i - L) = i))
  BY <1>1
<1>10. ASSUME NEW i \in L + 1 .. (L + 1) + (k + 1) - 1 PROVE l[i] \in E /\ i \notin others
  <2>1. CASE i = L + 1 + k
    BY <1>6, <1>9, <2>1
  <2>2. CASE i - L \in 1 .. k /\ L + (i - L) = i
    <3>1. l[i] = a[f + (i - L) - 1] /\ f + (i - L) - 1 \in f .. f + k - 1
      BY <1>7, <2>2
    <3> QED BY <1>8, <1>9, <3>1
  <2> QED BY <1>9, <2>1, <2>2
<1>11. \A i \in others : l[i] = a[i]
  <2>1. \A i \in others : i \in 1 .. L /\ i \notin f .. f + k - 1 /\ i # L + 1 + k /\ i \in 1 .. L + k + spare
    BY <1>1, <1>8
  <2> QED BY <1>3, <1>6, <2>1
<1>12. ASSUME NEW i \in 1 .. Len(l), i \notin others, i \notin L + 1 .. (L + 1) + (k + 1) - 1 PROVE l[i] = Dummy
  <2>1. i \in 1 .. L + k + spare /\ i # L + 1 + k
        /\ (i \in 1 .. L \/ (i - (L + k) \in 1 .. spare /\ L + k + (i - (L + k)) = i))
    <3>1. i \in 1 .. L + k + spare /\ spare \in Nat /\ i \notin L + 1 .. (L + 1) + (k + 1) - 1
      BY <1>6, <1>12
    <3> QED BY ONLY <1>1, <3>1
  <2>2. l[i] = m[i]
    BY <1>6, <2>1
  <2>3. CASE i \in 1 .. L
    <3>1. i \notin f .. f + k - 1 => a[i] = Dummy
      BY <1>12, <2>3 DEF SlotView, L
    <3> QED BY <1>3, <2>2, <2>3, <3>1
  <2>4. CASE i - (L + k) \in 1 .. spare /\ L + k + (i - (L + k)) = i
    <3>1. m[L + k + (i - (L + k))] = Dummy
      BY <1>5, <2>4
    <3> QED BY <2>2, <2>4, <3>1
  <2> QED BY <2>1, <2>3, <2>4
<1>13. Placed(E, a, l, L + 1, k + 1, others)
  <2>1. k + 1 \in Nat /\ L + 1 \in Nat \ {0} /\ (L + 1) + (k + 1) <= Len(l) + 1 /\ Len(l) >= L
    BY <1>1, <1>6
  <2> QED BY <1>6, <1>10, <1>11, <1>12, <2>1 DEF Placed, L, T
<1>14. OneMore(a, f, k, l, L + 1, e)
  <2> DEFINE new == L + 1 .. (L + 1) + (k + 1) - 1
             old == f .. f + k - 1
             last == L + 1 + k
  <2>1. last \in new /\ l[last] = e
    BY <1>1, <1>6
  <2>2. ASSUME NEW i \in new PROVE (\E j \in old : l[i] = a[j]) \/ l[i] = e
    <3>1. i = L + 1 + k \/ (i - L \in 1 .. k /\ L + (i - L) = i)
      BY <1>9
    <3>2. CASE i - L \in 1 .. k /\ L + (i - L) = i
      BY <1>7, <3>2
    <3> QED BY <1>6, <3>1, <3>2
  <2>3. ASSUME NEW i \in old PROVE \E j \in new : l[j] = a[i]
    <3>1. i - f + 1 \in 1 .. k /\ f + (i - f + 1) - 1 = i /\ L + (i - f + 1) \in new
      BY <1>1
    <3>2. l[L + (i - f + 1)] = a[f + (i - f + 1) - 1]
      BY <1>7, <3>1
    <3> QED BY <3>1, <3>2
  <2> HIDE DEF new, old, last
  <2>4. \A x : (\E i \in new : x = l[i]) <=> (\E i \in old : x = a[i]) \/ x = e
    BY ONLY <2>1, <2>2, <2>3
  <2> QED BY <2>4 DEF OneMore, new, old
<1> QED
  BY <1>13, <1>14 DEF L

\* InsertEdge adds one edge to one list, wherever it finds room.
THEOREM InsertEdgeConsistent ==
    ASSUME NEW E, LeadToNodes(E), NEW g, Consistent(g, E), NEW from \in Nodes, NEW edge \in E
    PROVE  /\ Consistent(InsertEdge(g, from, edge), E)
           /\ \A n \in Nodes \ {from} : GetTargets(InsertEdge(g, from, edge), n) = GetTargets(g, n)
           /\ GetTargets(InsertEdge(g, from, edge), from) = GetTargets(g, from) \cup {edge.to}
           /\ \A n \in Nodes \ {from} : EdgeSet(InsertEdge(g, from, edge), n) = EdgeSet(g, n)
           /\ EdgeSet(InsertEdge(g, from, edge), from) = EdgeSet(g, from) \cup {edge}
<1> DEFINE h == InsertEdge(g, from, edge)
           f == g.node[from].first
           k == g.node[from].edges
           a == g.list
           others == OtherSlots(g, from)
           spare == ((k * 11) \div 10 + 2) - k
           behind == f + k # Len(a) + 1 /\ a[f + k].to = 0
           before == f # 1 /\ a[f - 1].to = 0
           Result(F, l) == WithList(g, from, F, k + 1, l, g.count + 1)
           list1 == [a EXCEPT ![f + k] = edge]
           list2 == [[a EXCEPT ![f - 1] = a[f - 1 + k]] EXCEPT ![f - 1 + k] = edge]
           m == [i \in DOMAIN a |-> IF i \in Slots(g, from) THEN Dummy ELSE a[i]]
                  \o Adjacent(g, from) \o [i \in 1 .. spare |-> Dummy]
           list3 == [m EXCEPT ![Len(a) + 1 + k] = edge]
           Good(F, l) == Placed(E, a, l, F, k + 1, others) /\ OneMore(a, f, k, l, F, edge)
           Goal == /\ Consistent(h, E)
                   /\ \A n \in Nodes \ {from} : GetTargets(h, n) = GetTargets(g, n)
                   /\ GetTargets(h, from) = GetTargets(g, from) \cup {edge.to}
                   /\ \A n \in Nodes \ {from} : EdgeSet(h, n) = EdgeSet(g, n)
                   /\ EdgeSet(h, from) = EdgeSet(g, from) \cup {edge}
<1>1. SlotView(E, a, f, k, others) /\ Slots(g, from) = f .. f + k - 1
  BY SlotsApart, SMTT(30)
<1>2. h = Result(CASE behind -> f [] ~behind /\ before -> f - 1 [] OTHER -> Len(a) + 1,
                 CASE behind -> list1 [] ~behind /\ before -> list2 [] OTHER -> list3)
  BY Zenon DEF InsertEdge, EndEdges, isDummy, WithList
<1>3. \A x : x \in EdgeSet(g, from) <=> \E i \in f .. f + k - 1 : x = a[i]
  <2>1. \A x : x \in EdgeSet(g, from) <=> \E i \in Slots(g, from) : x = a[i]
    BY EdgeSlots
  <2> QED BY ONLY <1>1, <2>1
<1>4. g.count + 1 \in Int
  BY DEF Consistent, Arrays
<1>5. k \in Nat /\ f \in Nat \ {0} /\ a \in Seq(E \cup {Dummy})
  BY <1>1 DEF SlotView
<1>6. ASSUME NEW F, NEW l, h = Result(F, l), Good(F, l)
      PROVE  Goal
  <2>1. /\ Consistent(h, E) /\ \A n \in Nodes \ {from} : GetTargets(h, n) = GetTargets(g, n)
        /\ \A n \in Nodes \ {from} : EdgeSet(h, n) = EdgeSet(g, n)
        /\ \A x : x \in EdgeSet(h, from) <=> \E i \in F .. F + (k + 1) - 1 : x = l[i]
    <3> DEFINE r == WithList(g, from, F, k + 1, l, g.count + 1)
    <3> HIDE DEF h, k
    <3>1. h = r /\ Placed(E, g.list, l, F, k + 1, OtherSlots(g, from))
      BY <1>6
    <3>2. ListBecomes(g, r, from, F, k + 1, l, E)
      BY <1>4, <3>1, NewList
    <3> HIDE DEF r
    <3> QED BY ONLY <3>1, <3>2 DEF ListBecomes
  <2> HIDE DEF h, f, k, a
  <2>2. EdgeSet(h, from) = EdgeSet(g, from) \cup {edge}
    <3>1. \A x : x \in EdgeSet(h, from) <=> x \in EdgeSet(g, from) \cup {edge}
      BY ONLY <1>3, <1>6, <2>1 DEF OneMore
    <3> QED BY ONLY <3>1
  <2>3. GetTargets(h, from) = GetTargets(g, from) \cup {edge.to}
    <3>1. GetTargets(h, from) = {x.to : x \in EdgeSet(h, from)} /\ GetTargets(g, from) = {x.to : x \in EdgeSet(g, from)}
      BY DEF GetTargets, EdgeSet
    <3> QED BY ONLY <2>2, <3>1
  <2> QED BY <2>1, <2>2, <2>3
<1> SUFFICES Goal
  BY DEF Goal, h
<1> HIDE DEF Goal, h
<1>7. CASE behind
  <2>1. h = Result(f, list1)
    BY <1>2, <1>7
  <2>2. Good(f, list1)
    <3>0. f + k \in 1 .. Len(a)
      <4> HIDE DEF f, k, a
      <4> QED BY <1>1, <1>7 DEF SlotView
    <3>1. list1 \in Seq(E \cup {Dummy}) /\ IsUpdate(a, list1, f + k, edge) /\ edge \in E
      <4> HIDE DEF f, k, a
      <4> QED BY <1>5, <3>0, UpdateOne
    <3> HIDE DEF f, k, a, others, list1
    <3> QED BY ONLY <1>1, <1>7, <3>1, RoomBehind
  <2> HIDE DEF Good, Result
  <2> QED BY ONLY <1>6, <2>1, <2>2, SMTT(30)
<1>8. CASE ~behind /\ before
  <2>1. h = Result(f - 1, list2)
    BY <1>2, <1>8, Zenon
  <2>2. Good(f - 1, list2)
    <3> DEFINE b == [a EXCEPT ![f - 1] = a[f - 1 + k]]
    <3>1. f - 1 \in 1 .. Len(a) /\ f - 1 + k \in 1 .. Len(a)
      <4> HIDE DEF f, k, a
      <4> QED BY <1>1, <1>8, SMTT(30) DEF SlotView
    <3>2. b \in Seq(E \cup {Dummy}) /\ IsUpdate(a, b, f - 1, a[f - 1 + k])
      <4> HIDE DEF f, k, a
      <4>1. a[f - 1 + k] \in E \cup {Dummy}
        BY <1>5, <3>1
      <4> QED BY <1>5, <3>1, <4>1, UpdateOne
    <3>3. list2 = [b EXCEPT ![f - 1 + k] = edge] /\ edge \in E /\ f - 1 + k \in 1 .. Len(b)
      BY <3>1, <3>2 DEF IsUpdate
    <3> HIDE DEF f, k, a, others, b, list2
    <3>4. list2 \in Seq(E \cup {Dummy}) /\ IsUpdate(b, list2, f - 1 + k, edge)
      BY ONLY <3>2, <3>3, UpdateOne
    <3> QED BY ONLY <1>1, <1>8, <3>2, <3>3, <3>4, RoomInFront
  <2> HIDE DEF Good, Result
  <2> QED BY ONLY <1>6, <2>1, <2>2, SMTT(30)
<1>9. CASE ~behind /\ ~before
  <2>1. h = Result(Len(a) + 1, list3)
    BY <1>2, <1>9, Zenon
  <2>2. Adjacent(g, from) \in Seq(E) /\ Len(Adjacent(g, from)) = k
    BY AdjacentEdges
  <2>3. \A i \in 1 .. k : Adjacent(g, from)[i] = a[f + i - 1]
    BY AdjacentEdges
  <2>4. spare \in Nat /\ spare >= 2
    <3> HIDE DEF k
    <3> QED BY <1>5
  <2>5. m \in Seq(E \cup {Dummy}) /\ Moved(a, m, f, k, spare)
    <3> DEFINE T == E \cup {Dummy}
               list == Adjacent(g, from)
    <3>1. Dummy \in T /\ a \in Seq(T) /\ list \in Seq(T) /\ Len(list) = k
      BY <1>5, <2>2
    <3>2. m = [i \in DOMAIN a |-> IF i \in f .. f + k - 1 THEN Dummy ELSE a[i]]
                 \o list \o [i \in 1 .. spare |-> Dummy]
      BY <1>1
    <3> HIDE DEF T, list, f, k, a, m, spare
    <3>3. \A i \in 1 .. k : list[i] = a[f + i - 1]
      BY <2>3 DEF list
    <3>4. m \in Seq(T) /\ Moved(a, m, f, k, spare)
      BY ONLY <1>5, <2>4, <3>1, <3>2, <3>3, MovedParts
    <3> QED BY <3>4 DEF T
  <2>6. Good(Len(a) + 1, list3)
    <3> HIDE DEF f, k, a, others, spare, m
    <3>0. Len(a) + 1 + k \in 1 .. Len(m)
      BY <1>5, <2>4, <2>5 DEF Moved
    <3>1. list3 \in Seq(E \cup {Dummy}) /\ IsUpdate(m, list3, Len(a) + 1 + k, edge) /\ edge \in E
      BY <2>5, <3>0, UpdateOne
    <3> HIDE DEF list3
    <3> QED BY ONLY <1>1, <2>4, <2>5, <3>1, RoomAtEnd
  <2> HIDE DEF Good, Result
  <2> QED BY ONLY <1>6, <2>1, <2>6, Zenon
<1> QED
  BY <1>7, <1>8, <1>9

\* Other data at the same targets changes nothing in the structure of the array.
SameTargets(g, h) ==
    /\ h.node = g.node
    /\ Len(h.list) = Len(g.list)
    /\ \A i \in 1 .. Len(g.list) : h.list[i].to = g.list[i].to

\* Where all targets stay, the array stays consistent.
LEMMA SameTargetsConsistent ==
    ASSUME NEW E, LeadToNodes(E), NEW g, Consistent(g, E), NEW h \in Arrays(E), SameTargets(g, h)
    PROVE  /\ Consistent(h, E)
           /\ \A n \in Nodes : GetTargets(h, n) = GetTargets(g, n)
           /\ NumberOfEdges(h) = NumberOfEdges(g)
<1>1. /\ DOMAIN g.list = 1 .. Len(g.list) /\ DOMAIN h.list = 1 .. Len(g.list)
      /\ \A i \in 1 .. Len(g.list) : h.list[i].to = g.list[i].to
  BY DEF SameTargets, Consistent, Arrays
<1>2. \A n \in Nodes : Slots(h, n) = Slots(g, n) /\ EndEdges(h, n) = EndEdges(g, n)
  BY DEF SameTargets, Slots, BeginEdges, EndEdges
<1>3. WellFormed(h)
  <2>1. WellFormed(g)
    BY DEF Consistent
  <2> QED BY <1>1, <1>2, <2>1 DEF WellFormed, isDummy
<1>4. Consistent(h, E)
  BY <1>2, <1>3 DEF Consistent, SameTargets
<1>5. ASSUME NEW n \in Nodes PROVE GetTargets(h, n) = GetTargets(g, n)
  <2>1. \A v : v \in GetTargets(h, n) <=> \E i \in Slots(h, n) : v = h.list[i].to
    BY <1>4, TargetSlots
  <2>2. \A v : v \in GetTargets(g, n) <=> \E i \in Slots(g, n) : v = g.list[i].to
    BY TargetSlots
  <2>3. Slots(h, n) = Slots(g, n) /\ \A i \in Slots(g, n) : h.list[i].to = g.list[i].to
    BY <1>1, <1>2, SlotEdges
  <2> QED BY ONLY <2>1, <2>2, <2>3
<1>6. NumberOfEdges(h) = NumberOfEdges(g)
  <2> DEFINE old == [n \in Nodes |-> Adjacent(g, n)]
             new == [n \in Nodes |-> Adjacent(h, n)]
  <2>1. ASSUME NEW n \in Nodes PROVE Len(old[n]) \in Nat /\ Len(new[n]) = Len(old[n])
    <3>1. Adjacent(g, n) \in Seq(E) /\ Len(Adjacent(g, n)) = g.node[n].edges
      BY AdjacentEdges
    <3>2. Len(Adjacent(h, n)) = h.node[n].edges
      BY <1>4, AdjacentEdges
    <3>3. Len(Adjacent(g, n)) \in Nat
      BY <3>1
    <3>4. old[n] = Adjacent(g, n) /\ new[n] = Adjacent(h, n)
      OBVIOUS
    <3> HIDE DEF old, new
    <3> QED BY ONLY <3>1, <3>2, <3>3, <3>4, SameTargets(g, h) DEF SameTargets
  <2> HIDE DEF old, new
  <2>2. Ends(old) = Ends(new)
    BY <2>1, EndsOfSameLengths
  <2> QED BY <2>2 DEF NumberOfEdges, old, new
<1> QED
  BY <1>4, <1>5, <1>6

\* The graph without edges.
LEMMA EmptyGraphConsistent ==
    ASSUME NEW E
    PROVE  /\ Consistent(EmptyGraph, E)
           /\ \A n \in Nodes : GetTargets(EmptyGraph, n) = {}
<1>1. EmptyGraph \in Arrays(E) /\ EmptyGraph.list = <<>>
  BY DEF EmptyGraph, Arrays
<1>2. \A n \in Nodes : EndEdges(EmptyGraph, n) = 1 /\ BeginEdges(EmptyGraph, n) = 1
  BY DEF EmptyGraph, EndEdges, BeginEdges
<1>3. \A n \in Nodes : Slots(EmptyGraph, n) = {}
  BY <1>2 DEF Slots
<1>4. Consistent(EmptyGraph, E)
  BY <1>1, <1>2, <1>3 DEF Consistent, WellFormed
<1>5. ASSUME NEW n \in Nodes PROVE GetTargets(EmptyGraph, n) = {}
  <2>1. Adjacent(EmptyGraph, n) = SubSeq(<<>>, 1, 0)
    BY <1>1, <1>2 DEF Adjacent
  <2>2. Adjacent(EmptyGraph, n) = <<>>
    BY <2>1
  <2>3. ToSet(Adjacent(EmptyGraph, n)) = {}
    BY <2>2 DEF ToSet
  <2> QED BY <2>3 DEF GetTargets
<1> QED
  BY <1>4, <1>5

EdgeReplaced(g, slot, edge) == [g EXCEPT !.list[slot] = edge]

\* An edge that is replaced by one to the same target.
LEMMA ReplaceEdge ==
    ASSUME NEW E, LeadToNodes(E), NEW g, Consistent(g, E), NEW n \in Nodes,
           NEW slot \in Slots(g, n), NEW edge \in E, edge.to = g.list[slot].to
    PROVE  /\ Consistent(EdgeReplaced(g, slot, edge), E)
           /\ \A m \in Nodes : GetTargets(EdgeReplaced(g, slot, edge), m) = GetTargets(g, m)
           /\ \A m \in Nodes \ {n} : EdgeSet(EdgeReplaced(g, slot, edge), m) = EdgeSet(g, m)
           /\ edge \in EdgeSet(EdgeReplaced(g, slot, edge), n)
           /\ \A x \in EdgeSet(EdgeReplaced(g, slot, edge), n) : x \in EdgeSet(g, n) \/ x = edge
           /\ \A x \in EdgeSet(g, n) : x \in EdgeSet(EdgeReplaced(g, slot, edge), n) \/ x = g.list[slot]
<1> DEFINE h == EdgeReplaced(g, slot, edge)
<1>1. g \in Arrays(E) /\ slot \in 1 .. Len(g.list) /\ g.list \in Seq(E \cup {Dummy})
  <2>1. slot \in DOMAIN g.list
    BY SlotEdges
  <2> QED BY <2>1 DEF Consistent, Arrays
<1>2. h.list = [g.list EXCEPT ![slot] = edge] /\ h.node = g.node /\ h.count = g.count
      /\ h = [node |-> h.node, list |-> h.list, count |-> h.count]
  BY <1>1 DEF Arrays, EdgeReplaced
<1> HIDE DEF h
<1>3. h.list \in Seq(E \cup {Dummy}) /\ IsUpdate(g.list, h.list, slot, edge)
  BY <1>1, <1>2, UpdateOne
<1>4. h \in Arrays(E)
  BY <1>1, <1>2, <1>3 DEF Arrays
<1>5. SameTargets(g, h)
  BY <1>2, <1>3 DEF SameTargets, IsUpdate
<1>6. Consistent(h, E) /\ \A m \in Nodes : GetTargets(h, m) = GetTargets(g, m)
  BY <1>4, <1>5, SameTargetsConsistent
<1>7. h.list[slot] = edge /\ \A i \in 1 .. Len(g.list) : i # slot => h.list[i] = g.list[i]
  BY <1>3 DEF IsUpdate
<1>8. \A m \in Nodes : Slots(h, m) = Slots(g, m) /\ \A i \in Slots(g, m) : i \in 1 .. Len(g.list)
  BY <1>1, <1>2, SlotEdges DEF Slots, BeginEdges, EndEdges
<1>9. \A m \in Nodes : \A x : x \in EdgeSet(h, m) <=> \E i \in Slots(g, m) : x = h.list[i]
  BY <1>6, <1>8, EdgeSlots
<1>10. \A m \in Nodes : \A x : x \in EdgeSet(g, m) <=> \E i \in Slots(g, m) : x = g.list[i]
  BY EdgeSlots
<1>11. ASSUME NEW m \in Nodes \ {n} PROVE EdgeSet(h, m) = EdgeSet(g, m)
  <2>1. slot \notin Slots(g, m)
    BY DEF Consistent, WellFormed
  <2>2. \A i \in Slots(g, m) : h.list[i] = g.list[i]
    BY <1>7, <1>8, <2>1
  <2>3. \A x : x \in EdgeSet(h, m) <=> x \in EdgeSet(g, m)
    BY ONLY <1>9, <1>10, <2>2, m \in Nodes
  <2> QED BY ONLY <2>3
<1>12. /\ edge \in EdgeSet(h, n)
       /\ \A x \in EdgeSet(h, n) : x \in EdgeSet(g, n) \/ x = edge
       /\ \A x \in EdgeSet(g, n) : x \in EdgeSet(h, n) \/ x = g.list[slot]
  BY <1>7, <1>8, <1>9, <1>10
<1> QED
  BY <1>6, <1>11, <1>12 DEF h

\* FindEdge returns a slot of the list with the target.
LEMMA FindEdgeSlot ==
    ASSUME NEW g, NEW from, NEW to, FindEdge(g, from, to) # 0,
           BeginEdges(g, from) \in Nat, EndEdges(g, from) \in Nat
    PROVE  /\ FindEdge(g, from, to) \in Slots(g, from)
           /\ g.list[FindEdge(g, from, to)].to = to
<1> DEFINE found == {i \in Slots(g, from) : g.list[i].to = to}
<1>1. found # {} /\ FindEdge(g, from, to) = CHOOSE i \in found : \A j \in found : i <= j
  BY DEF FindEdge
<1>2. found \subseteq Nat
  BY DEF Slots
<1>3. \E i \in found : \A j \in found : i <= j
  <2> HIDE DEF found
  <2> QED BY <1>1, <1>2, LeastNatural
<1>4. FindEdge(g, from, to) \in found
  <2> HIDE DEF found
  <2> QED BY <1>1, <1>3
<1> QED
  BY <1>4

\* Filter keeps the edges between the nodes that are kept.
THEOREM FilterConsistent ==
    ASSUME NEW E, LeadToNodes(E), NEW g, Consistent(g, E), NEW keep
    PROVE  /\ Consistent(Filter(g, keep), E)
           /\ \A n \in Nodes : \A v : v \in GetTargets(Filter(g, keep), n)
                                        <=> v \in GetTargets(g, n) /\ n \in keep /\ v \in keep
<1> DEFINE kept(n) == {e \in ToSet(Adjacent(g, n)) : n \in keep /\ e.to \in keep}
           lists == [n \in Nodes |-> Only(Adjacent(g, n), kept(n))]
           f == FromLists(lists)
           h == Filter(g, keep)
<1>1. h = [f EXCEPT !.count = g.count]
  BY DEF Filter
<1>2. ASSUME NEW n \in Nodes
      PROVE  lists[n] \in Seq(E) /\ ToSet(lists[n]) = ToSet(Adjacent(g, n)) \cap kept(n)
  <2>1. Adjacent(g, n) \in Seq(E)
    BY AdjacentEdges
  <2> HIDE DEF kept
  <2>2. lists[n] = Only(Adjacent(g, n), kept(n))
    OBVIOUS
  <2> HIDE DEF lists
  <2> QED BY <2>1, <2>2, OnlyElements
<1>3. lists \in [Nodes -> Seq(E)]
  <2>1. lists = [n \in Nodes |-> lists[n]]
    OBVIOUS
  <2> HIDE DEF lists
  <2> QED BY <1>2, <2>1
<1>4. Consistent(f, E) /\ \A n \in Nodes : Adjacent(f, n) = lists[n]
  <2> HIDE DEF lists
  <2> QED BY <1>3, FromListsConsistent
<1> HIDE DEF f, h
<1>5. f \in Arrays(E) /\ g.count \in Int
  BY <1>4 DEF Consistent, Arrays
<1>6. h.node = f.node /\ h.list = f.list /\ h \in Arrays(E)
  BY <1>1, <1>5 DEF Arrays
<1>7. SameTargets(f, h)
  BY <1>6 DEF SameTargets
<1>8. Consistent(h, E) /\ \A n \in Nodes : GetTargets(h, n) = GetTargets(f, n)
  BY <1>4, <1>6, <1>7, SameTargetsConsistent
<1>9. ASSUME NEW n \in Nodes, NEW v
      PROVE  v \in GetTargets(h, n) <=> v \in GetTargets(g, n) /\ n \in keep /\ v \in keep
  <2>1. GetTargets(h, n) = {e.to : e \in ToSet(lists[n])}
    <3> HIDE DEF lists
    <3> QED BY <1>4, <1>8 DEF GetTargets
  <2>2. ToSet(lists[n]) = kept(n)
    BY <1>2
  <2> HIDE DEF lists
  <2> QED BY <2>1, <2>2 DEF GetTargets
<1> QED
  BY <1>8, <1>9 DEF h

\* Edges may be given other targets.
CanBeRetargeted(E) == \A e \in E : \A v \in Nodes : [e EXCEPT !.to = v] \in E /\ [e EXCEPT !.to = v].to = v

\* The list of n in g is that of perm[n] in h, with its targets renamed.
Renamed(g, h, perm) ==
    \A n \in Nodes : \A v : v \in GetTargets(h, perm[n]) <=> \E w \in GetTargets(g, n) : v = perm[w]

\* The same of the edges.
RenamedEdges(g, h, perm) ==
    \A n \in Nodes : \A x : x \in EdgeSet(h, perm[n])
                             <=> \E e \in EdgeSet(g, n) : x = [e EXCEPT !.to = perm[e.to]]

\* Renumber moves the list of n to perm[n] and renames its targets.
THEOREM RenumberConsistent ==
    ASSUME NEW E, LeadToNodes(E), CanBeRetargeted(E), NEW g, Consistent(g, E),
           NEW perm, IsNumbering(perm)
    PROVE  /\ Consistent(Renumber(g, perm), E)
           /\ Renumber(g, perm).list \in Seq(E)
           /\ Renumber(g, perm).count = NumberOfEdges(Renumber(g, perm))
           /\ Renamed(g, Renumber(g, perm), perm)
           /\ RenamedEdges(g, Renumber(g, perm), perm)
<1> DEFINE old(n) == CHOOSE o \in Nodes : perm[o] = n
           renamed(o) == [i \in 1 .. g.node[o].edges |-> [Adjacent(g, o)[i] EXCEPT !.to = perm[@]]]
           lists == [n \in Nodes |-> renamed(old(n))]
           h == Renumber(g, perm)
<1>1. h = FromLists(lists)
  BY DEF Renumber
<1>2. \A n \in Nodes : old(n) \in Nodes /\ perm[old(n)] = n /\ perm[n] \in Nodes
  BY DEF IsNumbering
<1>3. \A n \in Nodes : old(perm[n]) = n
  <2> HIDE DEF old
  <2> QED BY <1>2 DEF IsNumbering
<1>4. ASSUME NEW o \in Nodes
      PROVE  /\ renamed(o) \in Seq(E) /\ Len(renamed(o)) = g.node[o].edges
             /\ g.node[o].edges \in Nat
             /\ \A i \in 1 .. g.node[o].edges : renamed(o)[i].to = perm[Adjacent(g, o)[i].to]
             /\ \A i \in 1 .. g.node[o].edges :
                  renamed(o)[i] = [Adjacent(g, o)[i] EXCEPT !.to = perm[Adjacent(g, o)[i].to]]
  <2>1. /\ Adjacent(g, o) \in Seq(E) /\ Len(Adjacent(g, o)) = g.node[o].edges
        /\ g.node[o].edges \in Nat
    BY AdjacentEdges DEF Consistent, Arrays
  <2>2. \A i \in 1 .. g.node[o].edges : Adjacent(g, o)[i] \in E
    BY <2>1
  <2> DEFINE a == Adjacent(g, o)
             k == g.node[o].edges
  <2>3. ASSUME NEW i \in 1 .. k
        PROVE  /\ renamed(o)[i] \in E /\ renamed(o)[i].to = perm[a[i].to]
               /\ renamed(o)[i] = [a[i] EXCEPT !.to = perm[a[i].to]]
    <3>1. renamed(o)[i] = [a[i] EXCEPT !.to = perm[a[i].to]]
      OBVIOUS
    <3>2. a[i] \in E /\ a[i].to \in Nodes /\ perm[a[i].to] \in Nodes
      BY <1>2, <2>2 DEF LeadToNodes
    <3> HIDE DEF renamed, a
    <3> QED BY <3>1, <3>2 DEF CanBeRetargeted
  <2>4. renamed(o) = [i \in 1 .. k |-> renamed(o)[i]]
    OBVIOUS
  <2> HIDE DEF renamed, a, k
  <2>5. renamed(o) \in [1 .. k -> E]
    BY <2>3, <2>4
  <2> QED BY <2>1, <2>3, <2>5, SeqOfFunction DEF a, k
<1>5. ASSUME NEW n \in Nodes PROVE lists[n] = renamed(old(n))
  <2> HIDE DEF renamed, old
  <2> QED OBVIOUS
<1>6. lists \in [Nodes -> Seq(E)]
  <2>1. lists = [n \in Nodes |-> lists[n]]
    OBVIOUS
  <2> HIDE DEF lists, renamed, old
  <2> QED BY <1>2, <1>4, <1>5, <2>1
<1> HIDE DEF lists, h, renamed, old
<1>7. /\ Consistent(h, E) /\ h.list \in Seq(E) /\ h.count = NumberOfEdges(h)
      /\ \A n \in Nodes : Adjacent(h, n) = lists[n]
  BY <1>1, <1>6, FromListsConsistent
<1>8. ASSUME NEW n \in Nodes, NEW v
      PROVE  v \in GetTargets(h, perm[n]) <=> \E w \in GetTargets(g, n) : v = perm[w]
  <2> DEFINE a == Adjacent(g, n)
             b == Adjacent(h, perm[n])
             k == g.node[n].edges
  <2>1. b = renamed(n)
    BY <1>2, <1>3, <1>5, <1>7
  <2>2. a \in Seq(E) /\ Len(a) = k
    BY AdjacentEdges
  <2>3. b \in Seq(E) /\ Len(b) = k /\ \A i \in 1 .. k : b[i].to = perm[a[i].to]
    BY <1>4, <2>1
  <2>4. GetTargets(h, perm[n]) = {e.to : e \in ToSet(b)} /\ GetTargets(g, n) = {e.to : e \in ToSet(a)}
    BY DEF GetTargets
  <2> HIDE DEF a, b, k
  <2>5. ToSet(b) = {b[i] : i \in 1 .. k} /\ ToSet(a) = {a[i] : i \in 1 .. k}
    BY <2>2, <2>3 DEF ToSet
  <2>6. \A x : x \in GetTargets(h, perm[n]) <=> \E i \in 1 .. k : x = b[i].to
    BY ONLY <2>4, <2>5
  <2>7. \A x : x \in GetTargets(g, n) <=> \E i \in 1 .. k : x = a[i].to
    BY ONLY <2>4, <2>5
  <2> QED BY ONLY <2>3, <2>6, <2>7
<1>9. ASSUME NEW n \in Nodes, NEW x
      PROVE  x \in EdgeSet(h, perm[n]) <=> \E e \in EdgeSet(g, n) : x = [e EXCEPT !.to = perm[e.to]]
  <2> DEFINE a == Adjacent(g, n)
             b == Adjacent(h, perm[n])
             k == g.node[n].edges
             new(e) == [e EXCEPT !.to = perm[e.to]]
  <2>1. b = renamed(n)
    BY <1>2, <1>3, <1>5, <1>7
  <2>2. a \in Seq(E) /\ Len(a) = k
    BY AdjacentEdges
  <2>3. b \in Seq(E) /\ Len(b) = k /\ \A i \in 1 .. k : b[i] = new(a[i])
    BY <1>4, <2>1
  <2>4. EdgeSet(h, perm[n]) = ToSet(b) /\ EdgeSet(g, n) = ToSet(a)
    BY DEF EdgeSet
  <2> HIDE DEF a, b, k, new
  <2>5. ToSet(b) = {b[i] : i \in 1 .. k} /\ ToSet(a) = {a[i] : i \in 1 .. k}
    BY <2>2, <2>3 DEF ToSet
  <2>6. x \in EdgeSet(h, perm[n]) <=> \E e \in EdgeSet(g, n) : x = new(e)
    BY ONLY <2>3, <2>4, <2>5
  <2> QED BY <2>6 DEF new
<1> QED
  BY <1>7, <1>8, <1>9 DEF h, Renamed, RenamedEdges

\* The array c.list, in which of the list of k edges from f on in a the edges to the target
\* are deleted up to c.at, the list now ending before c.end: the invariant of the loop.
CutInv(E, a, f, k, target, i, c) ==
    /\ c.at \in Nat /\ c.end \in Nat /\ f <= c.at /\ c.at <= c.end /\ c.end <= f + k
    /\ (c.at - f) + ((f + k) - c.end) = i
    /\ Len(c.list) = Len(a)
    /\ \A j \in f .. c.end - 1 : \E p \in f .. f + k - 1 : c.list[j] = a[p]
    /\ \A j \in c.end .. f + k - 1 : c.list[j] = Dummy
    /\ \A j \in f .. c.at - 1 : c.list[j].to # target
    /\ \A j \in 1 .. Len(a) : j \notin f .. f + k - 1 => c.list[j] = a[j]
    /\ \A p \in f .. f + k - 1 : a[p].to # target => \E j \in f .. c.end - 1 : c.list[j] = a[p]

Cuts(E) == [list : Seq(E \cup {Dummy}), at : Nat, end : Nat]

\* A step that passes an edge.
LEMMA PassStep ==
    ASSUME NEW E, NEW a \in Seq(E \cup {Dummy}), NEW f \in Nat \ {0}, NEW k \in Nat, f + k <= Len(a) + 1,
           NEW target, NEW n \in 1 .. k, NEW c \in Cuts(E), CutInv(E, a, f, k, target, n - 1, c),
           c.list[c.at].to # target
    PROVE  CutInv(E, a, f, k, target, n, DeleteStep(c, target)) /\ DeleteStep(c, target) \in Cuts(E)
<1> DEFINE d == DeleteStep(c, target)
           l == c.list
           at == c.at
           end == c.end
<1>1. d = [list |-> l, at |-> at + 1, end |-> end] /\ l \in Seq(E \cup {Dummy}) /\ at \in Nat /\ end \in Nat
  BY DEF DeleteStep, Cuts
<1>2. d.list = l /\ d.at = at + 1 /\ d.end = end /\ d \in Cuts(E)
  BY <1>1 DEF Cuts
<1>3. /\ f <= at /\ at <= end /\ end <= f + k /\ (at - f) + ((f + k) - end) = n - 1
      /\ Len(l) = Len(a)
  BY DEF CutInv
<1>4. at < end
  <2> HIDE DEF at, end
  <2> QED BY <1>1, <1>3
<1>5. ASSUME NEW j \in f .. (at + 1) - 1 PROVE l[j].to # target
  <2>1. j = at \/ j \in f .. at - 1
    <3> HIDE DEF at
    <3> QED BY <1>1
  <2> QED BY <2>1 DEF CutInv
<1>6. ((at + 1) - f) + ((f + k) - end) = n /\ f <= at + 1 /\ at + 1 <= end
  <2> HIDE DEF at, end
  <2> QED BY <1>1, <1>3, <1>4
<1>7. /\ \A j \in f .. end - 1 : \E p \in f .. f + k - 1 : l[j] = a[p]
      /\ \A j \in end .. f + k - 1 : l[j] = Dummy
      /\ \A j \in 1 .. Len(a) : j \notin f .. f + k - 1 => l[j] = a[j]
      /\ \A p \in f .. f + k - 1 : a[p].to # target => \E j \in f .. end - 1 : l[j] = a[p]
  BY DEF CutInv
<1>8. at + 1 \in Nat
  BY <1>1
<1> HIDE DEF d, at, end, l
<1>9. CutInv(E, a, f, k, target, n, d)
  BY ONLY <1>1, <1>2, <1>3, <1>5, <1>6, <1>7, <1>8 DEF CutInv
<1> QED
  BY <1>2, <1>9 DEF d

\* A step that deletes an edge: the last of the list takes its place.
LEMMA CutStep ==
    ASSUME NEW E, NEW a \in Seq(E \cup {Dummy}), NEW f \in Nat \ {0}, NEW k \in Nat, f + k <= Len(a) + 1,
           NEW target, NEW n \in 1 .. k, NEW c \in Cuts(E), CutInv(E, a, f, k, target, n - 1, c),
           c.list[c.at].to = target
    PROVE  CutInv(E, a, f, k, target, n, DeleteStep(c, target)) /\ DeleteStep(c, target) \in Cuts(E)
<1> DEFINE T == E \cup {Dummy}
           d == DeleteStep(c, target)
           l == c.list
           at == c.at
           end == c.end
           b == [l EXCEPT ![at] = l[end - 1]]
           m == [b EXCEPT ![end - 1] = Dummy]
<1>0. d = [list |-> m, at |-> at, end |-> end - 1]
  BY DEF DeleteStep, Cuts
<1>1. l \in Seq(T) /\ at \in Nat /\ end \in Nat
  BY DEF Cuts
<1>2. /\ f <= at /\ at <= end /\ end <= f + k /\ (at - f) + ((f + k) - end) = n - 1
      /\ Len(l) = Len(a)
  BY DEF CutInv
<1>3. \A j \in f .. end - 1 : \E p \in f .. f + k - 1 : l[j] = a[p]
  BY DEF CutInv
<1>4. /\ \A j \in end .. f + k - 1 : l[j] = Dummy
      /\ \A j \in f .. at - 1 : l[j].to # target
      /\ \A j \in 1 .. Len(a) : j \notin f .. f + k - 1 => l[j] = a[j]
      /\ l[at].to = target
  BY DEF CutInv
<1>5. \A p \in f .. f + k - 1 : a[p].to # target => \E j \in f .. end - 1 : l[j] = a[p]
  BY DEF CutInv
<1> HIDE DEF at, end, l
<1>6. /\ at < end /\ end - 1 \in Nat /\ at \in 1 .. Len(l) /\ end - 1 \in 1 .. Len(l) /\ Len(a) \in Nat
      /\ at \in f .. end - 1 /\ end - 1 \in f .. end - 1
      /\ (at - f) + ((f + k) - (end - 1)) = n /\ at <= end - 1 /\ end - 1 <= f + k
  <2>1. Len(a) \in Nat /\ f \in Nat \ {0} /\ k \in Nat /\ n \in 1 .. k /\ f + k <= Len(a) + 1
    OBVIOUS
  <2>2. at < end
    BY ONLY <1>1, <1>2, <2>1
  <2>3. (at - f) + ((f + k) - (end - 1)) = n
    BY ONLY <1>1, <1>2, <2>1
  <2> QED BY ONLY <1>1, <1>2, <2>1, <2>2, <2>3
<1>7. b \in Seq(T) /\ IsUpdate(l, b, at, l[end - 1])
  <2>1. l[end - 1] \in T
    BY <1>1, <1>6
  <2> QED BY <1>1, <1>6, <2>1, UpdateOne
<1>8. m \in Seq(T) /\ IsUpdate(b, m, end - 1, Dummy)
  <2>1. end - 1 \in 1 .. Len(b) /\ Dummy \in T
    BY <1>6, <1>7 DEF IsUpdate
  <2> HIDE DEF b
  <2> QED BY <1>7, <2>1, UpdateOne
<1>9. /\ d \in Cuts(E) /\ d.list = m /\ d.at = at /\ d.end = end - 1
  BY <1>0, <1>1, <1>6, <1>8 DEF Cuts
<1> HIDE DEF m, b, d, T
<1>10. /\ Len(m) = Len(a) /\ m[end - 1] = Dummy
       /\ at # end - 1 => m[at] = l[end - 1]
       /\ \A j \in 1 .. Len(a) : j # at /\ j # end - 1 => m[j] = l[j]
  BY <1>2, <1>6, <1>7, <1>8 DEF IsUpdate
<1>11. ASSUME NEW j \in f .. (end - 1) - 1
       PROVE  /\ j \in f .. end - 1 /\ j \in 1 .. Len(a) /\ j # end - 1
              /\ m[j] = IF j = at THEN l[end - 1] ELSE l[j]
  <2>1. j \in f .. end - 1 /\ j \in 1 .. Len(a) /\ j # end - 1
    BY <1>1, <1>2, <1>6
  <2> QED BY <1>10, <2>1
<1>12. \A j \in f .. (end - 1) - 1 : \E p \in f .. f + k - 1 : m[j] = a[p]
  BY <1>3, <1>6, <1>11
<1>13. ASSUME NEW j \in end - 1 .. f + k - 1 PROVE m[j] = Dummy
  <2>1. j = end - 1 \/ (j \in end .. f + k - 1 /\ j # at /\ j # end - 1 /\ j \in 1 .. Len(a))
    BY <1>1, <1>2, <1>6
  <2> QED BY <1>4, <1>10, <2>1
<1>14. ASSUME NEW j \in f .. at - 1 PROVE m[j].to # target
  <2>1. j \in 1 .. Len(a) /\ j # at /\ j # end - 1
    BY <1>1, <1>2, <1>6
  <2> QED BY <1>4, <1>10, <2>1
<1>15. ASSUME NEW j \in 1 .. Len(a), j \notin f .. f + k - 1 PROVE m[j] = a[j]
  <2>1. j # at /\ j # end - 1
    BY <1>1, <1>2, <1>6, <1>15
  <2> QED BY <1>4, <1>10, <1>15, <2>1
<1>16. ASSUME NEW p \in f .. f + k - 1, a[p].to # target
       PROVE  \E j \in f .. (end - 1) - 1 : m[j] = a[p]
  <2>1. PICK j \in f .. end - 1 : l[j] = a[p]
    BY <1>5, <1>16
  <2>2. j # at
    BY <1>4, <1>16, <2>1
  <2>3. CASE j = end - 1
    <3>1. at \in f .. (end - 1) - 1 /\ at # end - 1
      BY ONLY <1>1, <1>6, <2>2, <2>3, f \in Nat \ {0}
    <3> QED BY <1>10, <2>1, <2>3, <3>1
  <2>4. CASE j # end - 1
    <3>1. j \in f .. (end - 1) - 1
      BY ONLY <1>1, <2>4, f \in Nat \ {0}, j \in f .. end - 1
    <3> QED BY <1>11, <2>1, <2>2, <3>1
  <2> QED BY <2>3, <2>4
<1> QED
  BY <1>2, <1>6, <1>9, <1>10, <1>12, <1>13, <1>14, <1>15, <1>16 DEF CutInv, d

\* The loop over the list of the source.
LEMMA DeleteLoopCuts ==
    ASSUME NEW E, NEW g, NEW source, NEW target,
           NEW a \in Seq(E \cup {Dummy}), NEW f \in Nat \ {0}, NEW k \in Nat, f + k <= Len(a) + 1,
           a = g.list, f = g.node[source].first, k = g.node[source].edges,
           NEW cut, cut = DeleteLoop(g, source, target)[k]
    PROVE  CutInv(E, a, f, k, target, k, cut) /\ cut \in Cuts(E)
<1> DEFINE base == [list |-> g.list, at |-> BeginEdges(g, source), end |-> EndEdges(g, source)]
           K == g.node[source].edges
           After(v, i) == DeleteStep(v, target)
           Loop(x) == x = [i \in 0 .. K |-> IF i = 0 THEN base ELSE After(x[i - 1], i)]
           Runs(x) == /\ x = [i \in 0 .. K |-> x[i]] /\ x[0] = base
                      /\ \A n \in 1 .. K : x[n] = After(x[n - 1], n)
           D == Cuts(E)
           step == [p \in D \X (1 .. K) |-> After(p[1], p[2])]
           I == {p \in (0 .. K) \X D : CutInv(E, a, f, k, target, p[1], p[2])}
           result == CHOOSE x : Loop(x)
<1>1. K \in Nat /\ K = k
  OBVIOUS
<1>2. ASSUME NEW n \in 1 .. K, NEW v \in D, <<n - 1, v>> \in I
      PROVE  <<n, After(v, n)>> \in I
  <2>1. CutInv(E, a, f, k, target, n - 1, v) /\ n \in 1 .. k /\ n \in 0 .. K
    BY <1>1, <1>2
  <2>2. CutInv(E, a, f, k, target, n, DeleteStep(v, target)) /\ DeleteStep(v, target) \in Cuts(E)
    BY <2>1, PassStep, CutStep
  <2> QED BY <2>1, <2>2
<1>3. <<0, base>> \in I
  <2>1. base \in Cuts(E) /\ base.list = a /\ base.at = f /\ base.end = f + k
    BY DEF Cuts, BeginEdges, EndEdges
  <2> HIDE DEF base
  <2>2. CutInv(E, a, f, k, target, 0, base)
    <3>1. f \in Nat /\ k \in Nat /\ f + k \in Nat
      OBVIOUS
    <3>2. /\ f <= f + k /\ f + k <= f + k /\ f <= f
          /\ f - f = 0 /\ (f + k) - (f + k) = 0
      BY ONLY <3>1
    <3>3. /\ \A j \in f + k .. f + k - 1 : FALSE
          /\ \A j \in f .. f - 1 : FALSE
      BY ONLY <3>1
    <3>4. /\ base.at \in Nat /\ base.end \in Nat /\ f <= base.at /\ base.at <= base.end /\ base.end <= f + k
          /\ (base.at - f) + ((f + k) - base.end) = 0
      BY ONLY <2>1, <3>1, <3>2
    <3>5. /\ \A j \in base.end .. f + k - 1 : base.list[j] = Dummy
          /\ \A j \in f .. base.at - 1 : base.list[j].to # target
      BY <2>1, <3>3
    <3>6. /\ Len(base.list) = Len(a)
          /\ \A j \in f .. base.end - 1 : \E p \in f .. f + k - 1 : base.list[j] = a[p]
          /\ \A j \in 1 .. Len(a) : j \notin f .. f + k - 1 => base.list[j] = a[j]
          /\ \A p \in f .. f + k - 1 : a[p].to # target => \E j \in f .. base.end - 1 : base.list[j] = a[p]
      BY <2>1, SMTT(30)
    <3> QED BY ONLY <3>4, <3>5, <3>6, Zenon DEF CutInv
  <2> QED BY <1>1, <2>1, <2>2
<1>4. \A n \in 1 .. K : \A v \in D : step[<<v, n>>] = After(v, n)
  <2> HIDE DEF After, D, K
  <2> QED OBVIOUS
<1>5. LoopKeeps(K, D, I, base, step)
  <2>1. I \subseteq (0 .. K) \X D
    OBVIOUS
  <2> HIDE DEF I, step, D, After, base
  <2> QED BY <1>2, <1>3, <1>4, <2>1 DEF LoopKeeps
<1>6. PICK run : LoopRun(run, K, D, I, base, step)
  <2> HIDE DEF K, D, I, step, base
  <2> QED BY <1>1, <1>5, LoopRuns
<1>7. ASSUME NEW x PROVE Loop(x) <=> Runs(x)
  <2> HIDE DEF After, K, base
  <2> QED BY <1>1
<1>8. Loop(result)
  <2> HIDE DEF Loop, K, After, D, I, step, base
  <2>1. \A n \in 1 .. K : n - 1 \in 0 .. K
    BY <1>1
  <2>2. Runs(run)
    BY <1>4, <1>6, <2>1 DEF LoopRun
  <2> HIDE DEF Runs
  <2> QED BY <1>7, <2>2
<1>9. DeleteLoop(g, source, target) = result
  BY DEF DeleteLoop
<1>10. LoopRun(result, K, D, I, base, step)
  <2> HIDE DEF result, Loop, D, After, step, K, base
  <2>1. Runs(result)
    BY <1>7, <1>8
  <2>2. \A n \in 1 .. K : <<n - 1, result[n - 1]>> \in I => result[n] = step[<<result[n - 1], n>>]
    BY <1>1, <1>4, <2>1
  <2> HIDE DEF I
  <2> QED BY <1>1, <1>5, <2>1, <2>2, LoopInvariant
<1>11. <<K, result[K]>> \in I
  <2> HIDE DEF K, D, I, step, result, base
  <2> QED BY <1>1, <1>10 DEF LoopRun
<1>12. cut = result[K]
  <2> HIDE DEF result
  <2> QED BY <1>9
<1> QED
  <2> HIDE DEF result
  <2> QED BY <1>1, <1>11, <1>12

\* DeleteEdgesTo takes one target away from one list.
THEOREM DeleteConsistent ==
    ASSUME NEW E, LeadToNodes(E), NEW g, Consistent(g, E), NEW source \in Nodes, NEW target
    PROVE  /\ Consistent(DeleteEdgesTo(g, source, target), E)
           /\ \A n \in Nodes \ {source} : GetTargets(DeleteEdgesTo(g, source, target), n) = GetTargets(g, n)
           /\ \A v : v \in GetTargets(DeleteEdgesTo(g, source, target), source)
                       <=> v \in GetTargets(g, source) /\ v # target
           /\ \A n \in Nodes \ {source} : EdgeSet(DeleteEdgesTo(g, source, target), n) = EdgeSet(g, n)
           /\ \A x : x \in EdgeSet(DeleteEdgesTo(g, source, target), source)
                       <=> x \in EdgeSet(g, source) /\ x.to # target
<1> DEFINE h == DeleteEdgesTo(g, source, target)
           f == g.node[source].first
           k == g.node[source].edges
           a == g.list
           others == OtherSlots(g, source)
           cut == DeleteLoop(g, source, target)[g.node[source].edges]
           deleted == EndEdges(g, source) - cut.end
           count == g.count - deleted
           K == cut.end - f
           l == cut.list
<1>1. SlotView(E, a, f, k, others) /\ Slots(g, source) = f .. f + k - 1
  BY SlotsApart
<1>2. f \in Nat \ {0} /\ k \in Nat /\ a \in Seq(E \cup {Dummy}) /\ f + k <= Len(a) + 1 /\ g.count \in Int
      /\ g.node \in [Nodes -> [first : Nat \ {0}, edges : Nat]] /\ EndEdges(g, source) = f + k
  BY DEF Consistent, Arrays, EndEdges
<1>3. CutInv(E, a, f, k, target, k, cut) /\ cut \in Cuts(E)
  <2> DEFINE c == cut
  <2>1. c = DeleteLoop(g, source, target)[k]
    OBVIOUS
  <2> HIDE DEF c
  <2>2. CutInv(E, a, f, k, target, k, c) /\ c \in Cuts(E)
    BY <1>2, <2>1, DeleteLoopCuts
  <2> QED BY <2>2 DEF c
<1>4. h = [node |-> [g.node EXCEPT ![source].edges = @ - deleted], list |-> l, count |-> count]
  BY DEF DeleteEdgesTo
<1> HIDE DEF h, cut
<1>5. /\ cut.end \in Nat /\ cut.at = cut.end /\ f <= cut.end /\ cut.end <= f + k
      /\ l \in Seq(E \cup {Dummy}) /\ Len(l) = Len(a)
  <2>1. /\ cut.at \in Nat /\ cut.end \in Nat /\ f <= cut.at /\ cut.at <= cut.end /\ cut.end <= f + k
        /\ (cut.at - f) + ((f + k) - cut.end) = k /\ Len(l) = Len(a)
    BY <1>3 DEF CutInv
  <2>2. l \in Seq(E \cup {Dummy})
    BY <1>3 DEF Cuts
  <2> HIDE DEF f, k, a, l
  <2> QED BY <1>2, <2>1, <2>2
<1>6. /\ \A j \in f .. cut.end - 1 : l[j].to # target /\ \E p \in f .. f + k - 1 : l[j] = a[p]
      /\ \A j \in cut.end .. f + k - 1 : l[j] = Dummy
      /\ \A j \in 1 .. Len(a) : j \notin f .. f + k - 1 => l[j] = a[j]
      /\ \A p \in f .. f + k - 1 : a[p].to # target => \E j \in f .. cut.end - 1 : l[j] = a[p]
  BY <1>3, <1>5 DEF CutInv
<1>7. h = WithList(g, source, f, K, l, count) /\ count \in Int
  <2>1. deleted \in Int /\ k - deleted = K
    <3> HIDE DEF f, k
    <3> QED BY <1>2, <1>5
  <2>2. g.node[source] = [first |-> f, edges |-> k]
    BY <1>2
  <2> DEFINE node == g.node
  <2>3. [node EXCEPT ![source].edges = @ - deleted] = [node EXCEPT ![source] = [first |-> f, edges |-> k - deleted]]
    <3>1. node[source].edges = k /\ node \in [Nodes -> [first : Nat \ {0}, edges : Nat]]
      BY <1>2
    <3>2. [node[source] EXCEPT !.edges = node[source].edges - deleted] = [first |-> f, edges |-> k - deleted]
      <4> HIDE DEF deleted, f, k
      <4> QED BY <2>2, <3>1
    <3> HIDE DEF node, deleted, f, k
    <3> QED BY <3>2
  <2>4. count \in Int
    <3> HIDE DEF deleted
    <3> QED BY <1>2, <2>1
  <2> HIDE DEF deleted, f, k, K, l
  <2> QED BY <1>4, <2>1, <2>3, <2>4 DEF WithList
<1> HIDE DEF f, k, a, l, others, deleted, count
<1>8. K \in Nat /\ f + K = cut.end /\ f + K - 1 = cut.end - 1
  BY <1>2, <1>5
<1> HIDE DEF K
<1>9. Placed(E, a, l, f, K, others)
  <2>1. ASSUME NEW i \in f .. f + K - 1 PROVE l[i] \in E /\ i \notin others
    <3>1. i \in f .. f + k - 1 /\ i \in f .. cut.end - 1
      BY <1>2, <1>5, <1>8
    <3> QED BY <1>1, <1>6, <3>1 DEF SlotView
  <2>2. ASSUME NEW i \in others PROVE l[i] = a[i]
    <3>1. i \in 1 .. Len(a) /\ i \notin f .. f + k - 1
      BY <1>1 DEF SlotView
    <3> QED BY <1>6, <3>1
  <2>3. ASSUME NEW i \in 1 .. Len(l), i \notin others, i \notin f .. f + K - 1 PROVE l[i] = Dummy
    <3>1. CASE i \in f .. f + k - 1
      <4>1. i \in cut.end .. f + k - 1
        BY <1>2, <1>5, <1>8, <2>3, <3>1
      <4> QED BY <1>6, <4>1
    <3>2. CASE i \notin f .. f + k - 1
      BY <1>1, <1>5, <1>6, <2>3, <3>2 DEF SlotView
    <3> QED BY <3>1, <3>2
  <2>4. f + K <= Len(l) + 1 /\ Len(l) >= Len(a)
    BY <1>2, <1>5, <1>8
  <2> QED BY <1>2, <1>5, <1>8, <2>1, <2>2, <2>3, <2>4 DEF Placed
<1>10. /\ Consistent(h, E) /\ \A n \in Nodes \ {source} : GetTargets(h, n) = GetTargets(g, n)
       /\ \A n \in Nodes \ {source} : EdgeSet(h, n) = EdgeSet(g, n)
       /\ \A v : v \in GetTargets(h, source) <=> \E i \in f .. f + K - 1 : v = l[i].to
       /\ \A x : x \in EdgeSet(h, source) <=> \E i \in f .. f + K - 1 : x = l[i]
  <2>1. Placed(E, g.list, l, f, K, OtherSlots(g, source))
    BY <1>9 DEF a, others
  <2> DEFINE r == WithList(g, source, f, K, l, count)
  <2>2. ListBecomes(g, r, source, f, K, l, E)
    BY <1>7, <2>1, NewList
  <2> HIDE DEF r
  <2>3. h = r
    BY <1>7 DEF r
  <2> QED BY ONLY <2>2, <2>3 DEF ListBecomes
<1>11. \A v : v \in GetTargets(g, source) <=> \E i \in f .. f + k - 1 : v = a[i].to
  <2>1. \A v : v \in GetTargets(g, source) <=> \E i \in Slots(g, source) : v = a[i].to
    BY TargetSlots DEF a
  <2> QED BY ONLY <1>1, <2>1
<1>12. ASSUME NEW v PROVE v \in GetTargets(h, source) <=> v \in GetTargets(g, source) /\ v # target
  <2>1. v \in GetTargets(h, source) <=> \E i \in f .. cut.end - 1 : v = l[i].to
    BY ONLY <1>8, <1>10
  <2> QED BY ONLY <1>6, <1>11, <2>1
<1>13. ASSUME NEW x PROVE x \in EdgeSet(h, source) <=> x \in EdgeSet(g, source) /\ x.to # target
  <2>1. x \in EdgeSet(h, source) <=> \E i \in f .. cut.end - 1 : x = l[i]
    BY ONLY <1>8, <1>10
  <2>2. x \in EdgeSet(g, source) <=> \E i \in Slots(g, source) : x = a[i]
    BY EdgeSlots DEF a
  <2>3. x \in EdgeSet(g, source) <=> \E i \in f .. f + k - 1 : x = a[i]
    BY ONLY <1>1, <2>2
  <2> QED BY ONLY <1>6, <2>1, <2>3
<1> QED
  BY <1>10, <1>12, <1>13 DEF h

-----------------------------------------------------------------------------
(***************************************************************************)
(* The reference: distances are the greatest feasible potential.           *)
(***************************************************************************)
\* Arcs between nodes, none of them free of charge.
IsArcSet(arcs) == \A a \in arcs : a.from \in Nodes /\ a.to \in Nodes /\ a.weight \in Nat \ {0}

\* The weight that stands for no way.
LEMMA InvalidWeight == INVALID_EDGE_WEIGHT \in Nat \ {0}
BY SMT DEF INVALID_EDGE_WEIGHT

\* The least element of a set of numbers.
LEMMA LeastElement ==
    ASSUME NEW S, S \subseteq Nat, S # {}
    PROVE  Least(S) \in S /\ \A x \in S : Least(S) <= x
<1>1. \E w \in S : \A v \in S : w <= v
  BY LeastNatural
<1> QED BY <1>1 DEF Least

\* What a round of relaxing does to one node.
Relaxed(arcs, d, r) ==
    /\ \A v \in Nodes : r[v] <= d[v]
    /\ \A a \in arcs : r[a.to] <= d[a.from] + a.weight
    /\ \A v \in Nodes : r[v] = d[v] \/ \E a \in arcs : a.to = v /\ r[v] = d[a.from] + a.weight

\* A round of relaxing lowers a potential to what some arc allows.
LEMMA RelaxRound ==
    ASSUME NEW arcs, IsArcSet(arcs), NEW d \in Potentials
    PROVE  RelaxAll(arcs, d) \in Potentials /\ Relaxed(arcs, d, RelaxAll(arcs, d))
<1> DEFINE INF == INVALID_EDGE_WEIGHT
           from(v) == {b \in arcs : b.to = v /\ d[b.from] # INF}
           ways(v) == {d[v]} \cup {d[a.from] + a.weight : a \in from(v)}
           r == RelaxAll(arcs, d)
<1>1. r = [v \in Nodes |-> Least(ways(v))]
  BY DEF RelaxAll
<1>2. INF \in Nat /\ \A v \in Nodes : d[v] \in Nat /\ d[v] <= INF
  BY InvalidWeight DEF Potentials
<1> HIDE DEF INF
<1>3. ASSUME NEW v \in Nodes
      PROVE  /\ ways(v) \subseteq Nat /\ d[v] \in ways(v)
             /\ \A x \in ways(v) : x = d[v] \/ \E a \in arcs : a.to = v /\ x = d[a.from] + a.weight
  BY <1>2 DEF IsArcSet
<1>4. ASSUME NEW v \in Nodes
      PROVE  r[v] \in ways(v) /\ r[v] \in Nat /\ \A x \in ways(v) : r[v] <= x
  <2> HIDE DEF ways
  <2>1. Least(ways(v)) \in ways(v) /\ \A x \in ways(v) : Least(ways(v)) <= x
    BY <1>3, LeastElement
  <2>2. r[v] = Least(ways(v))
    BY <1>1
  <2> QED BY <1>3, <2>1, <2>2
<1>5. ASSUME NEW v \in Nodes PROVE r[v] \in 0 .. INF /\ r[v] <= d[v]
  <2> HIDE DEF ways, r
  <2>1. r[v] <= d[v] /\ r[v] \in Nat /\ d[v] \in Nat /\ d[v] <= INF
    BY <1>2, <1>3, <1>4
  <2> QED BY <1>2, <2>1
<1>6. r \in Potentials
  <2> HIDE DEF ways
  <2> QED BY <1>1, <1>5 DEF Potentials, INF
<1>7. ASSUME NEW a \in arcs PROVE r[a.to] <= d[a.from] + a.weight
  <2>1. a.from \in Nodes /\ a.to \in Nodes /\ a.weight \in Nat
    BY DEF IsArcSet
  <2>2. CASE d[a.from] = INF
    <3>1. r[a.to] \in 0 .. INF /\ d[a.from] \in Nat
      BY <1>2, <1>5, <2>1
    <3> HIDE DEF r
    <3> QED BY <1>2, <2>1, <2>2, <3>1
  <2>3. CASE d[a.from] # INF
    <3>1. d[a.from] + a.weight \in ways(a.to)
      BY <2>3
    <3> HIDE DEF ways, r
    <3> QED BY <1>4, <2>1, <3>1
  <2> QED BY <2>2, <2>3
<1>8. ASSUME NEW v \in Nodes
      PROVE  r[v] = d[v] \/ \E a \in arcs : a.to = v /\ r[v] = d[a.from] + a.weight
  <2> HIDE DEF ways, r
  <2> QED BY <1>3, <1>4
<1> HIDE DEF ways, r
<1> QED BY <1>5, <1>6, <1>7, <1>8 DEF Relaxed, r

\* Where the rounds start: at s, every other node out of reach.
Start(s) == [v \in Nodes |-> IF v = s THEN 0 ELSE INVALID_EDGE_WEIGHT]

\* d holds the potentials after each round.
AreRounds(d, arcs, s) ==
    /\ d \in [0 .. N - 1 -> Potentials]
    /\ d[0] = Start(s)
    /\ \A i \in 1 .. N - 1 : d[i] = RelaxAll(arcs, d[i - 1])

\* DistancesFrom is what the last of N - 1 rounds leaves.
LEMMA Rounds ==
    ASSUME NEW arcs, IsArcSet(arcs), NEW s \in Nodes
    PROVE  \E d : AreRounds(d, arcs, s) /\ DistancesFrom(arcs, s) = d[N - 1]
<1> DEFINE K == N - 1
           base == Start(s)
           After(v, i) == RelaxAll(arcs, v)
           Loop(x) == x = [i \in 0 .. K |-> IF i = 0 THEN base ELSE After(x[i - 1], i)]
           Runs(x) == /\ x = [i \in 0 .. K |-> x[i]] /\ x[0] = base
                      /\ \A n \in 1 .. K : x[n] = After(x[n - 1], n)
           D == Potentials
           step == [p \in D \X (1 .. K) |-> After(p[1], p[2])]
           I == (0 .. K) \X D
           result == CHOOSE x : Loop(x)
<1>1. K \in Nat
  BY NAssumption
<1>2. ASSUME NEW n \in 1 .. K, NEW v \in D, <<n - 1, v>> \in I
      PROVE  <<n, After(v, n)>> \in I
  BY <1>1, RelaxRound
<1>3. <<0, base>> \in I
  BY <1>1, InvalidWeight DEF Start, Potentials
<1>4. \A n \in 1 .. K : \A v \in D : step[<<v, n>>] = After(v, n)
  <2> HIDE DEF After, D, K
  <2> QED OBVIOUS
<1>5. LoopKeeps(K, D, I, base, step)
  <2>1. I \subseteq (0 .. K) \X D
    OBVIOUS
  <2> HIDE DEF I, step, D, After, base
  <2> QED BY <1>2, <1>3, <1>4, <2>1 DEF LoopKeeps
<1>6. PICK run : LoopRun(run, K, D, I, base, step)
  <2> HIDE DEF K, D, I, step, base
  <2> QED BY <1>1, <1>5, LoopRuns
<1>7. ASSUME NEW x PROVE Loop(x) <=> Runs(x)
  <2> HIDE DEF After, K, base
  <2> QED BY <1>1
<1>8. Loop(result)
  <2> HIDE DEF Loop, K, After, D, I, step, base
  <2>1. \A n \in 1 .. K : n - 1 \in 0 .. K
    BY <1>1
  <2>2. Runs(run)
    BY <1>4, <1>6, <2>1 DEF LoopRun
  <2> HIDE DEF Runs
  <2> QED BY <1>7, <2>2
<1>9. DistancesFrom(arcs, s) = result[K]
  BY DEF DistancesFrom, Start
<1>10. LoopRun(result, K, D, I, base, step)
  <2> HIDE DEF result, Loop, D, After, step, K, base
  <2>1. Runs(result)
    BY <1>7, <1>8
  <2>2. \A n \in 1 .. K : <<n - 1, result[n - 1]>> \in I => result[n] = step[<<result[n - 1], n>>]
    BY <1>1, <1>4, <2>1
  <2> HIDE DEF I
  <2> QED BY <1>1, <1>5, <2>1, <2>2, LoopInvariant
<1> HIDE DEF result, I, Loop, step, base
<1>11. Runs(result) /\ result \in [0 .. K -> D]
  BY <1>7, <1>8, <1>10 DEF LoopRun
<1>12. AreRounds(result, arcs, s)
  BY <1>11 DEF AreRounds, base
<1> QED BY <1>9, <1>12

\* No feasible potential that is 0 at the source exceeds a round.
LEMMA RoundsStayAbove ==
    ASSUME NEW arcs, IsArcSet(arcs), NEW s \in Nodes, NEW d, AreRounds(d, arcs, s),
           NEW p \in Potentials, Feasible(p, arcs), p[s] = 0
    PROVE  \A i \in 0 .. N - 1 : \A v \in Nodes : p[v] <= d[i][v]
<1> DEFINE K == N - 1
           S == {i \in 0 .. K : \A v \in Nodes : p[v] <= d[i][v]}
<1>1. K \in Nat /\ \A v \in Nodes : p[v] \in 0 .. INVALID_EDGE_WEIGHT
  BY NAssumption DEF Potentials
<1>2. 0 \in S
  <2>1. d[0] = Start(s)
    BY DEF AreRounds
  <2>2. \A v \in Nodes : p[v] <= Start(s)[v]
    BY <1>1, InvalidWeight DEF Start
  <2> QED BY <1>1, <2>1, <2>2
<1>3. ASSUME NEW i \in 0 .. K, i < K, i \in S PROVE i + 1 \in S
  <2> DEFINE e == d[i]
             r == RelaxAll(arcs, e)
  <2>1. i + 1 \in 0 .. K /\ i + 1 \in 1 .. K /\ (i + 1) - 1 = i
    BY <1>1, <1>3
  <2>2. d[i + 1] = r /\ e \in Potentials
    BY <2>1 DEF AreRounds
  <2>3. Relaxed(arcs, e, r) /\ \A v \in Nodes : p[v] <= e[v]
    BY <1>3, <2>2, RelaxRound
  <2>4. \A v \in Nodes : e[v] \in Nat
    BY <2>2, InvalidWeight DEF Potentials
  <2> HIDE DEF e, r
  <2>5. ASSUME NEW v \in Nodes PROVE p[v] <= r[v]
    <3>1. CASE r[v] = e[v]
      BY <2>3, <3>1
    <3>2. CASE r[v] # e[v]
      <4>1. PICK a \in arcs : a.to = v /\ r[v] = e[a.from] + a.weight
        BY <2>3, <3>2 DEF Relaxed
      <4>2. a.from \in Nodes /\ a.weight \in Nat /\ p[v] <= p[a.from] + a.weight
        BY <4>1 DEF IsArcSet, Feasible
      <4>3. p[a.from] <= e[a.from] /\ p[a.from] \in Nat /\ e[a.from] \in Nat /\ p[v] \in Nat
        BY <1>1, <2>3, <2>4, <4>2, InvalidWeight
      <4> QED BY ONLY <4>1, <4>2, <4>3
    <3> QED BY <3>1, <3>2
  <2> QED BY <2>1, <2>2, <2>5
<1>4. 0 .. K \subseteq S
  <2> HIDE DEF S, K
  <2> QED BY <1>1, <1>2, <1>3, LoopInduction
<1> QED BY <1>4

\* The potentials that are 0 at s and feasible, and the greatest among them.
Reaching(arcs, s) == {p \in Potentials : Feasible(p, arcs) /\ p[s] = 0}

IsGreatest(q, arcs, s) ==
    q \in Reaching(arcs, s) /\ \A p \in Reaching(arcs, s) : \A v \in Nodes : p[v] <= q[v]

\* There is a greatest one: the pointwise maximum.
LEMMA GreatestExists ==
    ASSUME NEW arcs, IsArcSet(arcs), NEW s \in Nodes
    PROVE  \E q : IsGreatest(q, arcs, s)
<1> DEFINE INF == INVALID_EDGE_WEIGHT
           F == Reaching(arcs, s)
           below(v) == {INF - p[v] : p \in F}
           q == [v \in Nodes |-> INF - Least(below(v))]
           zero == [v \in Nodes |-> 0]
<1>1. INF \in Nat /\ \A p \in F : \A v \in Nodes : p[v] \in Nat /\ p[v] <= INF
  <2>1. \A p \in F : p \in [Nodes -> 0 .. INF]
    BY DEF Reaching, Potentials
  <2> QED BY <2>1, InvalidWeight
<1>2. zero \in F
  BY InvalidWeight DEF Reaching, Potentials, Feasible, IsArcSet
<1> HIDE DEF INF, zero
<1>3. ASSUME NEW v \in Nodes
      PROVE  /\ q[v] \in 0 .. INF
             /\ \E p \in F : q[v] = p[v]
             /\ \A p \in F : p[v] <= q[v]
  <2>1. below(v) \subseteq Nat /\ below(v) # {}
    <3> HIDE DEF F
    <3> QED BY <1>1, <1>2
  <2>2. Least(below(v)) \in below(v) /\ \A x \in below(v) : Least(below(v)) <= x
    <3> HIDE DEF below
    <3> QED BY <2>1, LeastElement
  <2> DEFINE m == Least(below(v))
  <2>3. q[v] = INF - m
    OBVIOUS
  <2> HIDE DEF m, q, F
  <2>4. PICK p \in F : m = INF - p[v]
    BY <2>2 DEF m
  <2>5. q[v] = p[v]
    BY <1>1, <2>3, <2>4
  <2>6. ASSUME NEW r \in F PROVE r[v] <= q[v]
    <3>1. INF - r[v] \in below(v)
      OBVIOUS
    <3>2. m <= INF - r[v]
      BY <2>2, <3>1 DEF m
    <3>3. r[v] \in Nat /\ p[v] \in Nat
      BY <1>1
    <3> HIDE DEF below
    <3> QED BY <1>1, <2>4, <2>5, <3>2, <3>3
  <2>7. q[v] \in 0 .. INF
    BY <1>1, <2>5
  <2> QED BY <2>5, <2>6, <2>7
<1>4. q = [v \in Nodes |-> q[v]]
  OBVIOUS
<1> HIDE DEF q, F
<1>5. q \in Potentials
  BY <1>3, <1>4 DEF Potentials, INF
<1>6. q[s] = 0
  BY <1>3 DEF F, Reaching
<1>7. ASSUME NEW a \in arcs PROVE q[a.to] <= q[a.from] + a.weight
  <2>1. a.from \in Nodes /\ a.to \in Nodes /\ a.weight \in Nat
    BY DEF IsArcSet
  <2>2. PICK p \in F : q[a.to] = p[a.to]
    BY <1>3, <2>1
  <2>3. p[a.to] <= p[a.from] + a.weight
    BY DEF F, Reaching, Feasible
  <2>4. p[a.from] <= q[a.from] /\ p[a.from] \in Nat /\ q[a.from] \in Nat /\ p[a.to] \in Nat
    BY <1>1, <1>3, <2>1
  <2> QED BY ONLY <2>1, <2>2, <2>3, <2>4
<1>8. q \in F
  BY <1>5, <1>6, <1>7 DEF F, Reaching, Feasible
<1> QED BY <1>3, <1>8 DEF IsGreatest, F

\* A node that is in reach of the source has an arc that takes the potential all the way up:
\* without one it could be raised.
LEMMA TightArc ==
    ASSUME NEW arcs, IsArcSet(arcs), NEW s \in Nodes, NEW q, IsGreatest(q, arcs, s),
           NEW v \in Nodes, v # s, q[v] # INVALID_EDGE_WEIGHT
    PROVE  \E a \in arcs : a.to = v /\ q[v] = q[a.from] + a.weight
<1> DEFINE INF == INVALID_EDGE_WEIGHT
           p == [q EXCEPT ![v] = @ + 1]
<1>1. INF \in Nat /\ q \in [Nodes -> 0 .. INF] /\ q[s] = 0 /\ Feasible(q, arcs)
  BY InvalidWeight DEF IsGreatest, Reaching, Potentials
<1> SUFFICES ASSUME \A a \in arcs : a.to = v => q[v] # q[a.from] + a.weight PROVE FALSE
  OBVIOUS
<1>2. q[v] # INF
  OBVIOUS
<1> HIDE DEF INF
<1>3. q[v] + 1 \in 0 .. INF
  BY <1>1, <1>2
<1>4. /\ p \in [Nodes -> 0 .. INF] /\ p[s] = 0 /\ p[v] = q[v] + 1
      /\ \A u \in Nodes : u # v => p[u] = q[u]
  BY <1>1, <1>3
<1> HIDE DEF p
<1>5. ASSUME NEW a \in arcs PROVE p[a.to] <= p[a.from] + a.weight
  <2>1. a.from \in Nodes /\ a.to \in Nodes /\ a.weight \in Nat /\ a.weight > 0
    BY DEF IsArcSet
  <2>2. q[a.to] <= q[a.from] + a.weight /\ (a.to = v => q[v] # q[a.from] + a.weight)
    BY <1>1 DEF Feasible
  <2>3. q[a.to] \in Nat /\ q[a.from] \in Nat
    BY <1>1, <2>1
  <2>4. p[a.from] = q[a.from] \/ p[a.from] = q[a.from] + 1
    BY <1>4, <2>1
  <2>5. p[a.to] = q[a.to] \/ (a.to = v /\ p[a.to] = q[a.to] + 1)
    BY <1>4, <2>1
  <2> QED BY ONLY <2>1, <2>2, <2>3, <2>4, <2>5
<1>6. p \in Reaching(arcs, s)
  BY <1>4, <1>5 DEF Reaching, Potentials, Feasible, INF
<1>7. p[v] <= q[v] /\ q[v] \in Nat
  BY <1>1, <1>6 DEF IsGreatest
<1> QED BY <1>4, <1>7

\* The nodes nearer than v.
Nearer(q, v) == {u \in Nodes : q[u] < q[v]}

\* There are fewer than N of them, and fewer yet for a nearer node.
LEMMA NearerCount ==
    ASSUME NEW q \in Potentials, NEW v \in Nodes
    PROVE  /\ Cardinality(Nearer(q, v)) \in 0 .. N - 1
           /\ \A u \in Nodes : q[u] < q[v] => Cardinality(Nearer(q, u)) < Cardinality(Nearer(q, v))
<1>1. IsFiniteSet(Nodes) /\ Cardinality(Nodes) = N
  BY NAssumption, FS_Interval DEF Nodes
<1>2. \A u \in Nodes : q[u] \in Int
  BY InvalidWeight DEF Potentials
<1>3. \A u \in Nodes : IsFiniteSet(Nearer(q, u)) /\ Cardinality(Nearer(q, u)) \in Nat
  BY <1>1, FS_Subset, FS_CardinalityType DEF Nearer
<1>4. Nearer(q, v) \subseteq Nodes /\ Nearer(q, v) # Nodes
  BY <1>2 DEF Nearer
<1>5. Cardinality(Nearer(q, v)) < N
  BY <1>1, <1>3, <1>4, NAssumption, FS_Subset
<1>6. ASSUME NEW u \in Nodes, q[u] < q[v]
      PROVE  Cardinality(Nearer(q, u)) < Cardinality(Nearer(q, v))
  <2>1. Nearer(q, u) \subseteq Nearer(q, v) /\ Nearer(q, u) # Nearer(q, v)
    BY <1>2, <1>6 DEF Nearer
  <2> QED BY <1>3, <2>1, FS_Subset
<1> QED BY <1>3, <1>5, <1>6, NAssumption

\* After as many rounds as nodes are nearer, a node has its distance.
LEMMA RoundsReach ==
    ASSUME NEW arcs, IsArcSet(arcs), NEW s \in Nodes, NEW d, AreRounds(d, arcs, s),
           NEW q, IsGreatest(q, arcs, s)
    PROVE  \A i \in 0 .. N - 1 : \A v \in Nodes : Cardinality(Nearer(q, v)) <= i => d[i][v] = q[v]
<1> DEFINE INF == INVALID_EDGE_WEIGHT
           K == N - 1
           S == {i \in 0 .. K : \A v \in Nodes : Cardinality(Nearer(q, v)) <= i => d[i][v] = q[v]}
<1>1. /\ K \in Nat /\ INF \in Nat \ {0} /\ q \in Potentials /\ q \in [Nodes -> 0 .. INF] /\ q[s] = 0
      /\ Feasible(q, arcs)
  BY NAssumption, InvalidWeight DEF IsGreatest, Reaching, Potentials
<1>2. \A i \in 0 .. K : \A v \in Nodes : q[v] <= d[i][v] /\ d[i][v] \in 0 .. INF
  <2>1. \A i \in 0 .. K : \A v \in Nodes : q[v] <= d[i][v]
    BY <1>1, RoundsStayAbove
  <2>2. \A i \in 0 .. K : d[i] \in [Nodes -> 0 .. INF]
    BY DEF AreRounds, Potentials
  <2> QED BY <2>1, <2>2
<1> HIDE DEF INF
<1>3. \A v \in Nodes : q[v] = INF => \A i \in 0 .. K : d[i][v] = q[v]
  BY <1>1, <1>2
<1>4. \A i \in 0 .. K : d[i][s] = 0
  <2> DEFINE T == {i \in 0 .. K : d[i][s] = 0}
  <2>1. 0 \in T
    BY <1>1 DEF AreRounds, Start
  <2>2. ASSUME NEW i \in 0 .. K, i < K, i \in T PROVE i + 1 \in T
    <3>1. i + 1 \in 0 .. K /\ i + 1 \in 1 .. K /\ (i + 1) - 1 = i
      BY <1>1, <2>2
    <3>2. d[i + 1] = RelaxAll(arcs, d[i]) /\ d[i] \in Potentials
      BY <3>1 DEF AreRounds
    <3>3. d[i + 1][s] <= d[i][s] /\ d[i][s] = 0
      BY <2>2, <3>2, RelaxRound DEF Relaxed
    <3>4. d[i + 1][s] \in 0 .. INF
      BY <1>2, <3>1
    <3> QED BY <1>1, <3>1, <3>3, <3>4
  <2>3. 0 .. K \subseteq T
    <3> HIDE DEF T, K
    <3> QED BY <1>1, <2>1, <2>2, LoopInduction
  <2> QED BY <2>3
<1>5. \A v \in Nodes : Cardinality(Nearer(q, v)) \in Nat
  BY <1>1, NearerCount
<1>6. ASSUME NEW v \in Nodes, v # s, q[v] # INF
      PROVE  \E a \in arcs : /\ a.to = v /\ q[v] = q[a.from] + a.weight /\ a.from \in Nodes
                             /\ q[a.from] < q[v]
                             /\ Cardinality(Nearer(q, a.from)) < Cardinality(Nearer(q, v))
  <2>1. PICK a \in arcs : a.to = v /\ q[v] = q[a.from] + a.weight
    BY <1>6, TightArc DEF INF
  <2>2. a.from \in Nodes /\ a.weight \in Nat \ {0}
    BY DEF IsArcSet
  <2>3. q[a.from] < q[v]
    BY <1>1, <2>1, <2>2
  <2> QED BY <1>1, <2>1, <2>2, <2>3, NearerCount
<1>7. 0 \in S
  <2> SUFFICES ASSUME NEW v \in Nodes, Cardinality(Nearer(q, v)) <= 0 PROVE d[0][v] = q[v]
    BY <1>1
  <2>1. CASE v = s
    BY <1>1, <1>4, <2>1
  <2>2. CASE v # s
    <3>1. q[v] = INF
      BY <1>5, <1>6, <2>2
    <3> QED BY <1>1, <1>3, <3>1
  <2> QED BY <2>1, <2>2
<1>8. ASSUME NEW i \in 0 .. K, i < K, i \in S PROVE i + 1 \in S
  <2>1. i + 1 \in 0 .. K /\ i + 1 \in 1 .. K /\ (i + 1) - 1 = i
    BY <1>1, <1>8
  <2> SUFFICES ASSUME NEW v \in Nodes, Cardinality(Nearer(q, v)) <= i + 1 PROVE d[i + 1][v] = q[v]
    BY <2>1
  <2>2. CASE v = s
    BY <1>1, <1>4, <2>1, <2>2
  <2>3. CASE q[v] = INF
    BY <1>3, <2>1, <2>3
  <2>4. CASE v # s /\ q[v] # INF
    <3>1. PICK a \in arcs : /\ a.to = v /\ q[v] = q[a.from] + a.weight /\ a.from \in Nodes
                            /\ Cardinality(Nearer(q, a.from)) < Cardinality(Nearer(q, v))
      BY <1>6, <2>4
    <3>2. Cardinality(Nearer(q, a.from)) <= i
      BY <1>5, <3>1
    <3>3. d[i][a.from] = q[a.from]
      BY <1>8, <3>1, <3>2
    <3>4. d[i + 1] = RelaxAll(arcs, d[i]) /\ d[i] \in Potentials
      BY <2>1 DEF AreRounds
    <3>5. d[i + 1][v] <= d[i][a.from] + a.weight
      BY <3>1, <3>4, RelaxRound DEF Relaxed
    <3>6. d[i + 1][v] <= q[v] /\ q[v] <= d[i + 1][v] /\ q[v] \in Nat /\ d[i + 1][v] \in Nat
      BY <1>1, <1>2, <2>1, <3>1, <3>3, <3>5
    <3> QED BY ONLY <3>6
  <2> QED BY <2>2, <2>3, <2>4
<1>9. 0 .. K \subseteq S
  <2> HIDE DEF S, K
  <2> QED BY <1>1, <1>7, <1>8, LoopInduction
<1> QED BY <1>9

\* DistancesFrom, the reference of all properties about routes, is right: N - 1 rounds of
\* relaxing all arcs end with the greatest potential that is 0 at the source and rises along
\* no arc by more than its weight.
THEOREM DistancesAreGreatest ==
    ASSUME NEW arcs, IsArcSet(arcs), NEW s \in Nodes
    PROVE  IsGreatest(DistancesFrom(arcs, s), arcs, s)
<1>1. PICK d : AreRounds(d, arcs, s) /\ DistancesFrom(arcs, s) = d[N - 1]
  BY Rounds
<1>2. PICK q : IsGreatest(q, arcs, s)
  BY GreatestExists
<1>3. N - 1 \in 0 .. N - 1
  BY NAssumption
<1>4. ASSUME NEW v \in Nodes PROVE d[N - 1][v] = q[v]
  <2>1. q \in Potentials
    BY <1>2 DEF IsGreatest, Reaching
  <2>2. Cardinality(Nearer(q, v)) <= N - 1
    BY <2>1, NAssumption, NearerCount
  <2> QED BY <1>1, <1>2, <1>3, <2>2, RoundsReach
<1>5. d[N - 1] = q
  <2>1. q \in [Nodes -> 0 .. INVALID_EDGE_WEIGHT]
    BY <1>2 DEF IsGreatest, Reaching, Potentials
  <2>2. d[N - 1] \in [Nodes -> 0 .. INVALID_EDGE_WEIGHT]
    BY <1>1, <1>3 DEF AreRounds, Potentials
  <2> DEFINE e == d[N - 1]
  <2>3. \A v \in Nodes : e[v] = q[v]
    BY <1>4
  <2> HIDE DEF e
  <2>4. e = q
    BY <2>1, <2>2, <2>3 DEF e
  <2> QED BY <2>4 DEF e
<1> QED BY <1>1, <1>2, <1>5

\* Two sets of arcs have the same distances between nodes of K if what is feasible for one
\* is feasible for the other, and what is feasible for that one can be changed outside K
\* to be feasible for the first.
THEOREM SameDistances ==
    ASSUME NEW A, IsArcSet(A), NEW B, IsArcSet(B), NEW K, K \subseteq Nodes,
           \A p \in Potentials : Feasible(p, A) => Feasible(p, B),
           \A p \in Potentials : Feasible(p, B) => \E q \in Potentials : Feasible(q, A) /\ \A x \in K : q[x] = p[x],
           NEW s \in K, NEW t \in K
    PROVE  DistancesFrom(B, s)[t] = DistancesFrom(A, s)[t]
<1> DEFINE a == DistancesFrom(A, s)
           b == DistancesFrom(B, s)
<1>1. s \in Nodes /\ t \in Nodes
  OBVIOUS
<1>2. IsGreatest(a, A, s) /\ IsGreatest(b, B, s)
  BY <1>1, DistancesAreGreatest
<1> HIDE DEF a, b
<1>3. a \in Potentials /\ Feasible(a, A) /\ a[s] = 0 /\ b \in Potentials /\ Feasible(b, B) /\ b[s] = 0
  BY <1>2 DEF IsGreatest, Reaching
<1>4. a[t] <= b[t]
  <2>1. a \in Reaching(B, s)
    BY <1>3 DEF Reaching
  <2> QED BY <1>1, <1>2, <2>1 DEF IsGreatest
<1>5. b[t] <= a[t]
  <2>1. PICK q \in Potentials : Feasible(q, A) /\ \A x \in K : q[x] = b[x]
    BY <1>3
  <2>2. q \in Reaching(A, s) /\ q[t] = b[t]
    BY <1>3, <2>1 DEF Reaching
  <2> QED BY <1>1, <1>2, <2>2 DEF IsGreatest
<1>6. a[t] \in Int /\ b[t] \in Int
  BY <1>1, <1>3, InvalidWeight DEF Potentials
<1>7. a[t] = b[t]
  BY ONLY <1>4, <1>5, <1>6
<1> QED BY <1>7 DEF a, b
=============================================================================

---------------------------- MODULE SetInduction ----------------------------
(***************************************************************************)
(* Induction over the natural numbers and over what is counted with them,  *)
(* stated with sets and functions in place of operators.                   *)
(***************************************************************************)
EXTENDS Naturals, TLAPS
LOCAL INSTANCE WellFoundedInduction

\* A non-empty set of natural numbers has a least element.
LEMMA LeastNatural ==
    ASSUME NEW T, T \subseteq Nat, T # {}
    PROVE  \E x \in T : \A y \in T : x <= y
<1> DEFINE R == OpToRel(<, Nat)
<1>1. IsWellFoundedOn(R, Nat)
  BY NatLessThanWellFounded
<1>2. PICK x \in T : \A y \in T : ~ (<<y, x>> \in R)
  <2> HIDE DEF R
  <2> QED BY <1>1, WFMin, Zenon
<1>3. \A y \in Nat : y < x => <<y, x>> \in R
  BY <1>2 DEF OpToRel
<1> HIDE DEF R
<1>4. \A y \in T : ~ (y < x)
  BY <1>2, <1>3
<1> QED
  BY <1>2, <1>4

\* Induction: a set that holds 0, and with each number the next, holds them all.
LEMMA SetInduction ==
    ASSUME NEW S, 0 \in S, \A n \in Nat : n \in S => n + 1 \in S
    PROVE  Nat \subseteq S
<1>1. SUFFICES ASSUME Nat \ S # {} PROVE FALSE
  OBVIOUS
<1>2. PICK x \in Nat \ S : \A y \in Nat \ S : x <= y
  BY <1>1, LeastNatural
<1>3. x # 0 /\ x - 1 \in Nat /\ ~ (x <= x - 1)
  BY <1>2
<1>4. x - 1 \in S
  BY <1>2, <1>3
<1> QED
  BY <1>3, <1>4

\* Induction along the steps of a loop of N steps.
LEMMA LoopInduction ==
    ASSUME NEW N \in Nat, NEW S, 0 \in S,
           \A n \in 0 .. N : n < N /\ n \in S => n + 1 \in S
    PROVE  0 .. N \subseteq S
<1> DEFINE U == {n \in Nat : n <= N => n \in S}
<1>1. 0 \in U
  OBVIOUS
<1>2. \A n \in Nat : n \in U => n + 1 \in U
  OBVIOUS
<1>3. Nat \subseteq U
  <2> HIDE DEF U
  <2> QED BY <1>1, <1>2, SetInduction
<1> QED
  BY <1>3

\* The bodies of a loop of N steps over the values of D, and the values g that it
\* takes from a value on, one after each step.
LoopBody(D, N) == [D \X (1 .. N) -> D]

LoopValues(g, D, N, base, step) ==
    /\ g \in [0 .. N -> D]
    /\ g[0] = base
    /\ \A n \in 1 .. N : g[n] = step[<<g[n - 1], n>>]

\* A loop of N steps has a value after each of them.
LEMMA LoopDefined ==
    ASSUME NEW D, NEW N \in Nat, NEW base \in D, NEW step \in LoopBody(D, N)
    PROVE  \E g : LoopValues(g, D, N, base, step)
<1> USE DEF LoopBody
<1> DEFINE Defined(m) == \E g \in [0 .. m -> D] :
               /\ g[0] = base
               /\ \A n \in 1 .. m : g[n] = step[<<g[n - 1], n>>]
           S == {m \in 0 .. N : Defined(m)}
<1>1. 0 \in S
  <2> DEFINE g == [i \in 0 .. 0 |-> base]
  <2>1. g \in [0 .. 0 -> D] /\ g[0] = base
    OBVIOUS
  <2>2. \A n \in 1 .. 0 : g[n] = step[<<g[n - 1], n>>]
    OBVIOUS
  <2>3. Defined(0)
    <3> HIDE DEF g
    <3> QED BY <2>1, <2>2
  <2> QED
    BY <2>3
<1>2. ASSUME NEW m \in 0 .. N, m < N, m \in S
      PROVE  m + 1 \in S
  <2>1. PICK g \in [0 .. m -> D] :
               /\ g[0] = base
               /\ \A n \in 1 .. m : g[n] = step[<<g[n - 1], n>>]
    BY <1>2
  <2> DEFINE h == [i \in 0 .. m + 1 |-> IF i <= m THEN g[i] ELSE step[<<g[m], m + 1>>]]
  <2>2. g[m] \in D /\ m + 1 \in 1 .. N
    BY <1>2, <2>1
  <2>3. step[<<g[m], m + 1>>] \in D
    BY <2>2
  <2>4. h \in [0 .. m + 1 -> D]
    BY <2>1, <2>3
  <2>5. h[0] = base
    BY <2>1
  <2>6. ASSUME NEW n \in 1 .. m + 1 PROVE h[n] = step[<<h[n - 1], n>>]
    <3>1. CASE n <= m
      <4>1. n \in 1 .. m /\ n \in 0 .. m + 1 /\ n - 1 \in 0 .. m + 1 /\ n - 1 <= m
        BY <3>1, <1>2
      <4>2. h[n] = g[n] /\ h[n - 1] = g[n - 1]
        BY <4>1, <3>1
      <4> HIDE DEF h
      <4> QED BY <2>1, <4>1, <4>2
    <3>2. CASE ~ (n <= m)
      <4>1. n = m + 1 /\ m \in 0 .. m + 1 /\ n \in 0 .. m + 1 /\ n - 1 = m
        BY <3>2, <1>2
      <4>2. h[n] = step[<<g[m], m + 1>>] /\ h[m] = g[m]
        BY <4>1, <3>2
      <4> HIDE DEF h
      <4> QED BY <4>1, <4>2
    <3> QED
      BY <3>1, <3>2
  <2>7. Defined(m + 1)
    <3> HIDE DEF h
    <3> QED BY <2>4, <2>5, <2>6
  <2> QED
    BY <2>2, <2>7
<1>3. 0 .. N \subseteq S
  <2> HIDE DEF S
  <2> QED BY <1>1, <1>2, LoopInduction
<1>4. Defined(N)
  BY <1>3
<1> QED
  BY <1>4 DEF LoopValues

\* A run of a loop of N steps: g[n] is the value after step n, and stands to n in the
\* relation I, the loop invariant.
LoopRun(g, N, D, I, base, step) ==
    /\ g \in [0 .. N -> D]
    /\ g[0] = base
    /\ \A n \in 1 .. N : g[n] = step[<<g[n - 1], n>>]
    /\ \A n \in 0 .. N : <<n, g[n]>> \in I

\* The steps of a loop keep its invariant.
LoopKeeps(N, D, I, base, step) ==
    /\ I \subseteq (0 .. N) \X D
    /\ <<0, base>> \in I
    /\ \A n \in 1 .. N : \A v \in D : <<n - 1, v>> \in I => <<n, step[<<v, n>>]>> \in I

\* What satisfies the equations of a loop whose steps keep an invariant is a run of it.
LEMMA LoopInvariant ==
    ASSUME NEW N \in Nat, NEW D, NEW I, NEW base, NEW step, LoopKeeps(N, D, I, base, step),
           NEW g, g = [n \in 0 .. N |-> g[n]], g[0] = base,
           \A n \in 1 .. N : <<n - 1, g[n - 1]>> \in I => g[n] = step[<<g[n - 1], n>>]
    PROVE  LoopRun(g, N, D, I, base, step)
<1> DEFINE S == {n \in 0 .. N : <<n, g[n]>> \in I}
<1>1. 0 \in S
  BY DEF LoopKeeps
<1>2. ASSUME NEW n \in 0 .. N, n < N, n \in S
      PROVE  n + 1 \in S
  <2>1. n + 1 \in 1 .. N /\ (n + 1) - 1 = n /\ n + 1 \in 0 .. N
    BY <1>2
  <2>2. <<n, g[n]>> \in I /\ g[n] \in D
    BY <1>2 DEF LoopKeeps
  <2>3. g[n + 1] = step[<<g[n], n + 1>>]
    BY <2>1, <2>2
  <2>4. <<n + 1, step[<<g[n], n + 1>>]>> \in I
    BY <2>1, <2>2 DEF LoopKeeps
  <2> QED
    BY <2>1, <2>3, <2>4
<1>3. 0 .. N \subseteq S
  <2> HIDE DEF S
  <2> QED BY <1>1, <1>2, LoopInduction
<1>4. \A n \in 0 .. N : <<n, g[n]>> \in I /\ g[n] \in D
  BY <1>3 DEF LoopKeeps
<1>5. g \in [0 .. N -> D]
  BY <1>4
<1>6. \A n \in 1 .. N : n - 1 \in 0 .. N
  OBVIOUS
<1> QED
  BY <1>4, <1>5, <1>6 DEF LoopRun

\* Such a loop has a run.
LEMMA LoopRuns ==
    ASSUME NEW N \in Nat, NEW D, NEW I, NEW base, NEW step, LoopKeeps(N, D, I, base, step)
    PROVE  \E g : LoopRun(g, N, D, I, base, step)
<1> DEFINE body == [p \in D \X (1 .. N) |-> IF step[p] \in D THEN step[p] ELSE p[1]]
<1>1. base \in D /\ body \in LoopBody(D, N)
  BY DEF LoopKeeps, LoopBody
<1>2. PICK g : LoopValues(g, D, N, base, body)
  <2> HIDE DEF body
  <2> QED BY <1>1, LoopDefined
<1>3. g = [n \in 0 .. N |-> g[n]] /\ g[0] = base
  BY <1>2 DEF LoopValues
<1>4. ASSUME NEW n \in 1 .. N, <<n - 1, g[n - 1]>> \in I
      PROVE  g[n] = step[<<g[n - 1], n>>]
  <2>1. g[n - 1] \in D
    BY <1>4 DEF LoopKeeps
  <2>2. <<n, step[<<g[n - 1], n>>]>> \in I
    BY <1>4, <2>1 DEF LoopKeeps
  <2>3. step[<<g[n - 1], n>>] \in D
    BY <2>2 DEF LoopKeeps
  <2>4. body[<<g[n - 1], n>>] = step[<<g[n - 1], n>>]
    BY <2>1, <2>3
  <2> HIDE DEF body
  <2> QED BY <1>2, <2>4 DEF LoopValues
<1> QED
  BY <1>3, <1>4, LoopInvariant
=============================================================================

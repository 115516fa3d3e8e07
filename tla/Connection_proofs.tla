------------------------- MODULE Connection_proofs -------------------------
(***************************************************************************)
(* Proofs about one HTTP connection of osrm-routed, for every limit on the *)
(* requests and every number of pieces that the client sends.              *)
(*                                                                         *)
(* The parser is a loop over the pieces of a read; what it returns is      *)
(* shown by induction along that loop.  The queue of completions enters    *)
(* the other proofs only through Done, the set of completions of socket    *)
(* operations: each action leaves it alone, fills it with one completion   *)
(* or empties it.                                                          *)
(***************************************************************************)
EXTENDS Connection, SetInduction, SequenceTheorems, FiniteSetTheorems

-----------------------------------------------------------------------------
(* The parser                                                              *)

\* The states of the parser.
States == {"start", "partial"} \cup Verdicts

\* consume stays among the parser's states.
LEMMA ConsumeType ==
    ASSUME NEW state \in States, NEW piece \in Pieces
    PROVE  consume(state, piece) \in States
BY DEF consume, States, Verdicts, Pieces

\* scan is defined by its loop: it starts with the state given and every piece is
\* consumed once.
LEMMA ScanSteps ==
    ASSUME NEW state \in States, NEW data \in Seq(Pieces)
    PROVE  /\ scan(state, data) \in [0 .. Len(data) -> States]
           /\ scan(state, data)[0] = state
           /\ \A n \in 1 .. Len(data) :
                scan(state, data)[n] = consume(scan(state, data)[n - 1], data[n])
<1> DEFINE N == Len(data)
           Scans(f) == f = [n \in 0 .. N |-> IF n = 0 THEN state
                                             ELSE consume(f[n - 1], data[n])]
           step == [p \in States \X (1 .. N) |-> consume(p[1], data[p[2]])]
<1>1. N \in Nat /\ \A n \in 1 .. N : data[n] \in Pieces
  OBVIOUS
<1>2. step \in LoopBody(States, N)
  BY <1>1, ConsumeType DEF LoopBody
<1>3. PICK g : LoopValues(g, States, N, state, step)
  <2> HIDE DEF N, step
  <2> QED BY <1>1, <1>2, LoopDefined
<1>4. \A n \in 1 .. N : g[n] = consume(g[n - 1], data[n])
  BY <1>1, <1>3 DEF LoopValues
<1>5. Scans(g)
  BY <1>1, <1>3, <1>4 DEF LoopValues
<1>6. scan(state, data) = CHOOSE f : Scans(f)
  BY DEF scan
<1> DEFINE s == scan(state, data)
<1>7. Scans(s)
  BY <1>5, <1>6
<1> HIDE DEF N, s
<1>8. s[0] = state /\ \A n \in 1 .. N : s[n] = consume(s[n - 1], data[n])
  BY <1>1, <1>7
<1>9. 0 .. N \subseteq {n \in 0 .. N : s[n] \in States}
  <2> DEFINE S == {n \in 0 .. N : s[n] \in States}
  <2>1. 0 \in S
    BY <1>1, <1>8
  <2>2. ASSUME NEW n \in 0 .. N, n < N, n \in S PROVE n + 1 \in S
    <3>1. n + 1 \in 1 .. N /\ (n + 1) - 1 = n
      BY <1>1, <2>2
    <3>2. s[n + 1] = consume(s[n], data[n + 1])
      BY <1>8, <3>1
    <3> QED
      BY <1>1, <2>2, <3>1, <3>2, ConsumeType
  <2> HIDE DEF S
  <2>3. 0 .. N \subseteq S
    BY <1>1, <2>1, <2>2, LoopInduction
  <2> QED
    BY <2>3 DEF S
<1>10. s \in [0 .. N -> States]
  BY <1>7, <1>9
<1> QED
  BY <1>8, <1>10 DEF N, s

\* parse returns a state of the parser, whatever it is given.
LEMMA ParseType ==
    ASSUME NEW state \in States, NEW data \in Seq(Pieces)
    PROVE  parse(state, data) \in States
<1>1. Len(data) \in 0 .. Len(data)
  OBVIOUS
<1>2. scan(state, data)[Len(data)] \in States
  BY <1>1, ScanSteps
<1> QED
  BY <1>2 DEF parse, States, Verdicts

\* When parse returns a verdict, there is a piece that made it stop.
LEMMA DecisiveType ==
    ASSUME NEW state \in States, NEW data \in Seq(Pieces), data # <<>>,
           parse(state, data) \in Verdicts
    PROVE  Decisive(state, data) \in Pieces
<1> DEFINE Stops(i) == parse(state, SubSeq(data, 1, i)) \in Verdicts
           T == {i \in 1 .. Len(data) : Stops(i)}
<1>1. SubSeq(data, 1, Len(data)) = data /\ Len(data) \in 1 .. Len(data)
  BY SubSeqFull, EmptySeq
<1>2. T \subseteq Nat /\ T # {}
  <2>1. Stops(Len(data))
    BY <1>1
  <2> HIDE DEF Stops
  <2> QED BY <1>1, <2>1
<1>3. PICK i \in T : \A j \in T : i <= j
  <2> HIDE DEF T
  <2> QED BY <1>2, LeastNatural
<1>4. i \in 1 .. Len(data) /\ Stops(i) /\ \A j \in 1 .. i - 1 : ~ Stops(j)
  BY <1>3
<1> HIDE DEF Stops, T
<1>5. \E k \in 1 .. Len(data) : Stops(k) /\ \A j \in 1 .. k - 1 : ~ Stops(j)
  BY <1>4
<1>6. PICK k \in 1 .. Len(data) :
          k = CHOOSE n \in 1 .. Len(data) : Stops(n) /\ \A j \in 1 .. n - 1 : ~ Stops(j)
  BY <1>5
<1>7. Decisive(state, data) = data[k]
  BY <1>6 DEF Decisive, Stops
<1> QED
  BY <1>7

\* The parser's verdict on the pieces of one request, of which it has seen k before.
LEMMA ParseRequest ==
    ASSUME NEW k \in {0, 1}, NEW state, state = IF k = 1 THEN "partial" ELSE "start",
           NEW data \in Seq(Pieces), data # <<>>, k + Len(data) <= 2,
           \A i \in 1 .. Len(data) : data[i] = "head" <=> k + i = 1
    PROVE  /\ k + Len(data) = 1 => parse(state, data) = "partial"
           /\ k + Len(data) = 2 => /\ parse(state, data) \in Verdicts
                                   /\ parse(state, data) = "invalid" => Decisive(state, data) = "bad"
<1>1. state \in States /\ state \notin Verdicts
  BY DEF States, Verdicts
<1>2. Len(data) \in {1, 2} /\ 1 \in 1 .. Len(data)
  <2>1. Len(data) \in Nat \ {0}
    BY EmptySeq
  <2>2. k = 0 \/ k = 1
    OBVIOUS
  <2>3. Len(data) <= 2
    BY <2>1, <2>2
  <2> DEFINE n == Len(data)
  <2> HIDE DEF n
  <2>4. n \in Nat \ {0} /\ n <= 2
    BY <2>1, <2>3 DEF n
  <2>5. n \in {1, 2} /\ 1 \in 1 .. n
    BY <2>4
  <2> QED BY <2>5 DEF n
<1>3. \A d \in Seq(Pieces) : Len(d) >= 1 => scan(state, d)[1] = consume(state, d[1])
  <2> SUFFICES ASSUME NEW d \in Seq(Pieces), Len(d) >= 1
               PROVE  scan(state, d)[1] = consume(state, d[1])
    OBVIOUS
  <2>1. 1 \in 1 .. Len(d) /\ 1 - 1 = 0
    OBVIOUS
  <2> QED
    BY <1>1, <2>1, ScanSteps
<1>4. CASE Len(data) = 1
  <2>1. parse(state, data) = consume(state, data[1])
    BY <1>1, <1>3, <1>4 DEF parse
  <2>2. k = 0 => parse(state, data) = "partial"
    BY <1>1, <1>2, <2>1 DEF consume
  <2>3. ASSUME k = 1 PROVE /\ parse(state, data) \in Verdicts
                           /\ parse(state, data) = "invalid" => data[1] = "bad"
    <3>1. data[1] \in Pieces \ {"head"}
      BY <1>2, <2>3
    <3> QED
      BY <1>1, <2>1, <2>3, <3>1 DEF consume, Verdicts, Pieces
  <2>4. k = 1 => Decisive(state, data) = data[1]
    <3> SUFFICES ASSUME k = 1 PROVE Decisive(state, data) = data[1]
      OBVIOUS
    <3> DEFINE First(i) == /\ parse(state, SubSeq(data, 1, i)) \in Verdicts
                           /\ \A j \in 1 .. i - 1 : parse(state, SubSeq(data, 1, j)) \notin Verdicts
    <3>1. SubSeq(data, 1, 1) = data
      BY <1>4, SubSeqFull
    <3>2. First(1)
      <4>1. \A j \in 1 .. 1 - 1 : FALSE
        OBVIOUS
      <4> QED BY <2>3, <3>1, <4>1
    <3>3. Decisive(state, data) = data[CHOOSE i \in 1 .. 1 : First(i)]
      BY <1>4 DEF Decisive
    <3> HIDE DEF First
    <3>4. (CHOOSE i \in 1 .. 1 : First(i)) = 1
      BY <3>2
    <3> QED
      BY <3>3, <3>4
  <2> QED
    BY <1>4, <2>2, <2>3, <2>4
<1>5. CASE Len(data) = 2
  <2>1. k = 0 /\ state = "start" /\ data[1] = "head" /\ data[2] \in Pieces \ {"head"}
    BY <1>5
  <2>2. scan(state, data)[2] = consume(scan(state, data)[1], data[2])
    <3>1. 2 \in 1 .. Len(data) /\ 2 - 1 = 1
      BY <1>5
    <3> QED
      BY <1>1, <3>1, ScanSteps
  <2>3. scan(state, data)[1] = "partial"
    BY <1>1, <1>3, <1>5, <2>1 DEF consume
  <2>4. parse(state, data) = consume("partial", data[2])
    BY <1>1, <1>5, <2>2, <2>3 DEF parse
  <2>5. parse(state, data) \in Verdicts /\ (parse(state, data) = "invalid" => data[2] = "bad")
    BY <2>1, <2>4 DEF consume, Verdicts, Pieces
  <2>6. parse(state, SubSeq(data, 1, 1)) \notin Verdicts
    <3> DEFINE d == SubSeq(data, 1, 1)
    <3>1. d \in Seq(Pieces) /\ Len(d) = 1 /\ d[1] = "head"
      BY <1>5, <2>1
    <3> HIDE DEF d
    <3>2. scan(state, d)[1] = consume(state, "head")
      BY <1>3, <3>1
    <3>3. parse(state, d) = "partial"
      BY <1>1, <3>1, <3>2 DEF parse, consume
    <3> QED
      BY <3>3 DEF d, Verdicts
  <2>7. SubSeq(data, 1, 2) = data
    BY <1>5, SubSeqFull
  <2>8. Decisive(state, data) = data[2]
    <3> DEFINE Stops(i) == parse(state, SubSeq(data, 1, i)) \in Verdicts
               First(i) == Stops(i) /\ \A j \in 1 .. i - 1 : ~ Stops(j)
    <3>1. First(2)
      <4>1. Stops(2) /\ ~ Stops(1)
        <5>1. Stops(2)
          BY <2>5, <2>7
        <5> QED BY <5>1, <2>6
      <4>2. \A j \in 1 .. 2 - 1 : j = 1
        OBVIOUS
      <4> HIDE DEF Stops
      <4> QED BY <4>1, <4>2
    <3>2. ~ First(1)
      BY <2>6
    <3>3. Decisive(state, data) = data[CHOOSE i \in 1 .. 2 : First(i)]
      BY <1>5 DEF Decisive
    <3> HIDE DEF First
    <3>4. (CHOOSE i \in 1 .. 2 : First(i)) = 2
      BY <3>1, <3>2
    <3> QED
      BY <3>3, <3>4
  <2> QED
    BY <2>1, <1>5, <2>5, <2>8
<1> QED
  BY <1>2, <1>4, <1>5

-----------------------------------------------------------------------------
(* The queue of completions                                                *)

\* RemoveAt leaves the other elements in their order.
LEMMA RemoveAtElements ==
    ASSUME NEW S, NEW q \in Seq(S), NEW i \in DOMAIN q
    PROVE  /\ RemoveAt(q, i) \in Seq(S)
           /\ DOMAIN RemoveAt(q, i) = 1 .. Len(q) - 1
           /\ \A k \in 1 .. Len(q) - 1 :
                RemoveAt(q, i)[k] = q[IF k < i THEN k ELSE k + 1]
<1> DEFINE a == SubSeq(q, 1, i - 1)
           b == SubSeq(q, i + 1, Len(q))
<1>1. Len(q) \in Nat /\ i \in 1 .. Len(q)
  BY LenProperties
<1>2. a \in Seq(S) /\ Len(a) = i - 1 /\ \A k \in 1 .. i - 1 : a[k] = q[k]
  BY <1>1
<1>3. b \in Seq(S) /\ Len(b) = Len(q) - i /\ \A k \in 1 .. Len(q) - i : b[k] = q[i + k]
  BY <1>1
<1> HIDE DEF a, b
<1>4. a \o b \in Seq(S) /\ Len(a \o b) = Len(q) - 1
  BY <1>1, <1>2, <1>3
<1>5. ASSUME NEW k \in 1 .. Len(q) - 1
      PROVE  (a \o b)[k] = q[IF k < i THEN k ELSE k + 1]
  <2>1. CASE k < i
    BY <1>1, <1>2, <1>3, <2>1
  <2>2. CASE ~ (k < i)
    <3>1. (a \o b)[k] = b[k - (i - 1)]
      BY <1>1, <1>2, <1>3, <2>2
    <3>2. k - (i - 1) \in 1 .. Len(q) - i /\ i + (k - (i - 1)) = k + 1
      BY <1>1, <2>2
    <3> QED
      BY <1>3, <2>2, <3>1, <3>2
  <2> QED
    BY <2>1, <2>2
<1>6. RemoveAt(q, i) = a \o b
  BY DEF RemoveAt, a, b
<1>7. DOMAIN (a \o b) = 1 .. Len(q) - 1
  BY <1>4, LenProperties
<1> QED
  BY ONLY <1>4, <1>5, <1>6, <1>7

\* What the queue of completions may hold.
Queues == Seq(Completions)

\* At most one operation on the socket waits for its handler.
Unique(q) == \A i, j \in Finished(q) : i = j

\* A completion of the timer at the end of the queue changes no socket operation.
LEMMA AppendTimer ==
    ASSUME NEW q \in Queues, NEW c \in Completions, c.op = "timer"
    PROVE  /\ Append(q, c) \in Queues
           /\ Finished(Append(q, c)) = Finished(q)
           /\ Done(Append(q, c)) = Done(q)
<1>1. Append(q, c) \in Queues /\ DOMAIN Append(q, c) = 1 .. Len(q) + 1
  BY DEF Queues
<1>2. DOMAIN q = 1 .. Len(q) /\ \A i \in 1 .. Len(q) : Append(q, c)[i] = q[i]
  BY DEF Queues
<1>3. Append(q, c)[Len(q) + 1] = c /\ Len(q) \in Nat
  BY DEF Queues
<1>4. Finished(Append(q, c)) = Finished(q)
  BY <1>1, <1>2, <1>3 DEF Finished
<1>5. \A i \in Finished(q) : Append(q, c)[i] = q[i]
  BY <1>2 DEF Finished
<1> QED
  BY <1>1, <1>4, <1>5 DEF Done

\* The completion of the only operation on the socket.
LEMMA AppendSocket ==
    ASSUME NEW q \in Queues, NEW c \in Completions, c.op # "timer", Done(q) = {}
    PROVE  /\ Append(q, c) \in Queues
           /\ Unique(Append(q, c))
           /\ Done(Append(q, c)) = {c}
<1>1. Append(q, c) \in Queues /\ DOMAIN Append(q, c) = 1 .. Len(q) + 1
  BY DEF Queues
<1>2. DOMAIN q = 1 .. Len(q) /\ \A i \in 1 .. Len(q) : Append(q, c)[i] = q[i]
  BY DEF Queues
<1>3. Append(q, c)[Len(q) + 1] = c /\ Len(q) \in Nat
  BY DEF Queues
<1>4. Finished(q) = {}
  BY DEF Done
<1>5. Finished(Append(q, c)) = {Len(q) + 1}
  BY <1>1, <1>2, <1>3, <1>4 DEF Finished
<1> QED
  BY <1>1, <1>3, <1>5 DEF Done, Unique

\* A handler of a socket operation leaves none behind.
LEMMA RemoveSocket ==
    ASSUME NEW q \in Queues, Unique(q), NEW i \in Finished(q)
    PROVE  /\ RemoveAt(q, i) \in Queues
           /\ Finished(RemoveAt(q, i)) = {}
           /\ Done(RemoveAt(q, i)) = {}
<1> DEFINE r == RemoveAt(q, i)
<1>1. Len(q) \in Nat /\ DOMAIN q = 1 .. Len(q) /\ i \in 1 .. Len(q)
  BY DEF Queues, Finished
<1>2. /\ r \in Queues
      /\ DOMAIN r = 1 .. Len(q) - 1
      /\ \A k \in 1 .. Len(q) - 1 : r[k] = q[IF k < i THEN k ELSE k + 1]
  BY <1>1, RemoveAtElements DEF Queues
<1> HIDE DEF r
<1>3. ASSUME NEW k \in Finished(r) PROVE FALSE
  <2>1. k \in 1 .. Len(q) - 1 /\ r[k].op # "timer"
    BY <1>2 DEF Finished
  <2> DEFINE j == IF k < i THEN k ELSE k + 1
  <2>2. j \in 1 .. Len(q) /\ j # i /\ r[k] = q[j]
    BY <1>1, <1>2, <2>1
  <2> HIDE DEF j
  <2>3. j \in Finished(q)
    BY <1>1, <2>1, <2>2 DEF Finished
  <2> QED
    BY <2>2, <2>3 DEF Unique
<1> QED
  BY <1>2, <1>3 DEF Done, r

\* A handler of the timer leaves the socket operations in the queue.
LEMMA RemoveTimer ==
    ASSUME NEW q \in Queues, Unique(q), NEW i \in DOMAIN q, q[i].op = "timer"
    PROVE  /\ RemoveAt(q, i) \in Queues
           /\ Unique(RemoveAt(q, i))
           /\ Done(RemoveAt(q, i)) = Done(q)
<1> DEFINE r == RemoveAt(q, i)
           at(k) == IF k < i THEN k ELSE k + 1
<1>1. Len(q) \in Nat /\ DOMAIN q = 1 .. Len(q) /\ i \in 1 .. Len(q)
  BY DEF Queues
<1>2. /\ r \in Queues
      /\ DOMAIN r = 1 .. Len(q) - 1
      /\ \A k \in 1 .. Len(q) - 1 : r[k] = q[at(k)]
  BY <1>1, RemoveAtElements DEF Queues
<1> HIDE DEF r
<1>3. \A k \in 1 .. Len(q) - 1 : at(k) \in 1 .. Len(q) /\ at(k) # i
  BY <1>1
<1>4. \A k, l \in 1 .. Len(q) - 1 : at(k) = at(l) => k = l
  BY <1>1
<1>5. \A j \in 1 .. Len(q) : j # i => \E k \in 1 .. Len(q) - 1 : at(k) = j
  <2> TAKE j \in 1 .. Len(q)
  <2> HAVE j # i
  <2>1. CASE j < i
    <3>1. j \in 1 .. Len(q) - 1 /\ at(j) = j
      BY <1>1, <2>1
    <3> QED BY <3>1
  <2>2. CASE ~ (j < i)
    <3>1. j - 1 \in 1 .. Len(q) - 1 /\ at(j - 1) = j
      BY <1>1, <2>2
    <3> QED BY <3>1
  <2> QED BY <2>1, <2>2
<1> HIDE DEF at
<1>6. \A k \in Finished(r) : k \in 1 .. Len(q) - 1 /\ at(k) \in Finished(q) /\ r[k] = q[at(k)]
  BY <1>1, <1>2, <1>3 DEF Finished
<1>7. \A j \in Finished(q) : \E k \in Finished(r) : at(k) = j
  BY <1>1, <1>2, <1>5 DEF Finished
<1>8. Unique(r)
  BY <1>4, <1>6 DEF Unique
<1>9. Done(r) = Done(q)
  BY <1>6, <1>7 DEF Done
<1> QED
  BY <1>2, <1>8, <1>9 DEF r

\* timer.cancel() changes no socket operation.
LEMMA CancelTimerQueue ==
    ASSUME NEW q \in Queues
    PROVE  /\ CancelTimer(q) \in Queues
           /\ Finished(CancelTimer(q)) = Finished(q)
           /\ Done(CancelTimer(q)) = Done(q)
<1> DEFINE c == Completion("timer", "aborted", <<>>)
<1>1. c \in Completions /\ c.op = "timer"
  BY DEF Completion, Completions
<1>2. CancelTimer(q) \in {q, Append(q, c)}
  BY DEF CancelTimer
<1> QED
  BY <1>1, <1>2, AppendTimer

\* TCP_socket.cancel() aborts the operation under way, and there is at most one.
LEMMA CancelSocketQueue ==
    ASSUME NEW q \in Queues, Unique(q), TypeOK, reading + writing <= 1,
           Done(q) # {} => reading = 0 /\ writing = 0
    PROVE  /\ CancelSocket(q) \in Queues
           /\ Unique(CancelSocket(q))
           /\ \/ Done(CancelSocket(q)) = Done(q)
              \/ \E c : Done(CancelSocket(q)) = {c} /\ c.result = "aborted"
<1> DEFINE r == Completion("read", "aborted", <<>>)
           w == Completion("write", "aborted", <<>>)
<1>1. /\ r \in Completions /\ r.op # "timer" /\ r.result = "aborted"
      /\ w \in Completions /\ w.op # "timer" /\ w.result = "aborted"
  BY DEF Completion, Completions
<1> HIDE DEF r, w
<1>2. q \o <<>> = q /\ q \o <<r>> = Append(q, r) /\ q \o <<w>> = Append(q, w)
  BY <1>1, ConcatEmptySeq, AppendIsConcat DEF Queues
<1>3. reading \in Nat /\ writing \in Nat
  BY DEF TypeOK
<1>4. CASE reading > 0
  <2>1. Done(q) = {} /\ ~ (writing > 0)
    BY <1>3, <1>4
  <2>2. Append(q, r) \o <<>> = Append(q, r)
    <3>1. Append(q, r) \in Seq(Completions)
      BY <1>1 DEF Queues
    <3> QED
      BY <3>1, ConcatEmptySeq
  <2>3. CancelSocket(q) = Append(q, r)
    BY <1>2, <1>4, <2>1, <2>2 DEF CancelSocket, r, w
  <2> QED
    BY <1>1, <2>1, <2>3, AppendSocket
<1>5. CASE ~ (reading > 0) /\ writing > 0
  <2>1. Done(q) = {}
    BY <1>3, <1>5
  <2>2. CancelSocket(q) = Append(q, w)
    BY <1>2, <1>5 DEF CancelSocket, r, w
  <2> QED
    BY <1>1, <2>1, <2>2, AppendSocket
<1>6. CASE ~ (reading > 0) /\ ~ (writing > 0)
  BY <1>2, <1>6 DEF CancelSocket
<1> QED
  BY <1>4, <1>5, <1>6

-----------------------------------------------------------------------------
(* The stream of pieces                                                    *)

\* OneRequest, with last, ended and the number of replies as parameters.
Fits(k, stream, lst, end, n) ==
    /\ k + Len(stream) <= 2
    /\ \A i \in DOMAIN stream : stream[i] = "head" <=> k + i = 1
    /\ lst = "head" <=> k + Len(stream) = 1
    /\ end = n + (IF k + Len(stream) = 2 THEN 1 ELSE 0)

\* A client that waits for its answer adds the next piece of the one request.
LEMMA FitsSend ==
    ASSUME NEW k \in 0 .. 2, NEW stream \in Seq(Pieces), NEW piece \in Pieces, NEW lst,
           NEW end \in Nat, NEW n \in Nat,
           Fits(k, stream, lst, end, n),
           piece = "head" <=> lst # "head",
           piece = "head" => n = end
    PROVE  Fits(k, Append(stream, piece), piece,
                IF piece = "head" THEN end ELSE end + 1, n)
<1>1. /\ Len(Append(stream, piece)) = Len(stream) + 1
      /\ Len(stream) \in Nat
      /\ DOMAIN stream = 1 .. Len(stream)
      /\ DOMAIN Append(stream, piece) = 1 .. Len(stream) + 1
      /\ \A i \in 1 .. Len(stream) : Append(stream, piece)[i] = stream[i]
      /\ Append(stream, piece)[Len(stream) + 1] = piece
  OBVIOUS
<1> DEFINE a == Append(stream, piece)
           m == Len(stream)
<1> HIDE DEF a, m
<1>2. k + m <= 2 /\ (lst = "head" <=> k + m = 1) /\ end = n + (IF k + m = 2 THEN 1 ELSE 0)
  BY DEF Fits, m
<1>3. piece = "head" => k + m = 0
  BY <1>1, <1>2 DEF m
<1>4. piece # "head" => k + m = 1 /\ end = n
  BY <1>1, <1>2 DEF m
<1>5. \A i \in 1 .. m + 1 : a[i] = "head" <=> k + i = 1
  <2> TAKE i \in 1 .. m + 1
  <2>1. CASE i <= m
    BY <1>1, <2>1 DEF Fits, m, a
  <2>2. CASE i = m + 1
    BY <1>1, <1>3, <1>4, <2>2 DEF m, a
  <2> QED
    BY <1>1, <2>1, <2>2 DEF m
<1>6. Len(a) = m + 1 /\ DOMAIN a = 1 .. m + 1 /\ m \in Nat
  BY <1>1 DEF a, m
<1> QED
  BY <1>3, <1>4, <1>5, <1>6 DEF Fits, a

\* The parser on the part of the one request that has been read: it wants more after
\* the head, has its verdict at the end, and finds only a bad piece invalid.
LEMMA FitsParse ==
    ASSUME NEW state \in {"start", "partial"}, NEW k, k = IF state = "partial" THEN 1 ELSE 0,
           NEW data \in Seq(Pieces), data # <<>>, NEW rest \in Seq(Pieces),
           NEW lst, NEW end, NEW n,
           Fits(k, data \o rest, lst, end, n)
    PROVE  /\ parse(state, data) \in Verdicts => Fits(2, rest, lst, end, n)
           /\ parse(state, data) = "invalid" => Decisive(state, data) = "bad"
           /\ parse(state, data) \notin Verdicts =>
                 parse(state, data) = "partial" /\ Fits(1, rest, lst, end, n)
<1> DEFINE all == data \o rest
           d == Len(data)
           r == Len(rest)
<1>1. d \in Nat \ {0} /\ r \in Nat /\ DOMAIN data = 1 .. d /\ DOMAIN rest = 1 .. r
  BY EmptySeq, LenProperties
<1>2. Len(all) = d + r /\ DOMAIN all = 1 .. d + r
  OBVIOUS
<1>3. \A i \in 1 .. d : data[i] = all[i]
  OBVIOUS
<1>4. \A i \in 1 .. r : rest[i] = all[d + i]
  OBVIOUS
<1> HIDE DEF all, d, r
<1>5. k \in {0, 1} /\ state = IF k = 1 THEN "partial" ELSE "start"
  OBVIOUS
<1>6. /\ k + d + r <= 2
      /\ \A i \in 1 .. d + r : all[i] = "head" <=> k + i = 1
      /\ lst = "head" <=> k + d + r = 1
      /\ end = n + (IF k + d + r = 2 THEN 1 ELSE 0)
  BY <1>1, <1>2, <1>5 DEF Fits, all
<1>7. \A i \in 1 .. d : data[i] = "head" <=> k + i = 1
  BY <1>1, <1>3, <1>6
<1>8. k + d <= 2
  BY <1>1, <1>5, <1>6
<1>9. /\ k + d = 1 => parse(state, data) = "partial"
      /\ k + d = 2 => /\ parse(state, data) \in Verdicts
                      /\ parse(state, data) = "invalid" => Decisive(state, data) = "bad"
  <2>1. k + Len(data) <= 2 /\ \A i \in 1 .. Len(data) : data[i] = "head" <=> k + i = 1
    BY <1>7, <1>8 DEF d
  <2>2. /\ k + Len(data) = 1 => parse(state, data) = "partial"
        /\ k + Len(data) = 2 => /\ parse(state, data) \in Verdicts
                                /\ parse(state, data) = "invalid" => Decisive(state, data) = "bad"
    BY <1>5, <2>1, ParseRequest, Zenon
  <2> QED
    BY <2>2 DEF d
<1>10. CASE k + d = 1
  <2>1. \A i \in 1 .. r : rest[i] = "head" <=> 1 + i = 1
    BY <1>1, <1>4, <1>5, <1>6, <1>10
  <2>2. Fits(1, rest, lst, end, n)
    BY <1>1, <1>6, <1>10, <2>1 DEF Fits, r
  <2> QED
    BY <1>9, <1>10, <2>2 DEF Verdicts
<1>11. CASE k + d = 2
  <2>1. r = 0
    BY <1>1, <1>5, <1>6, <1>11
  <2>2. Fits(2, rest, lst, end, n)
    BY <1>1, <1>6, <1>11, <2>1 DEF Fits, r
  <2> QED
    BY <1>9, <1>11, <2>2
<1> QED
  BY <1>1, <1>5, <1>8, <1>10, <1>11

-----------------------------------------------------------------------------
(* The steps of the client and of the reactor                              *)

\* The invariant on the stream, with its dependence on the state made explicit.
LEMMA StreamFits ==
    /\ StreamInv <=>
         (~ pipelined =>
            /\ reading > 0 => Fits(Seen, inbound, last, ended, Len(replies))
            /\ \A c \in Arrived : Fits(Seen, c.data \o inbound, last, ended, Len(replies))
            /\ writing > 0 => Fits(2, inbound, last, ended, Len(replies))
            /\ Written # {} => Fits(0, inbound, last, ended, Len(replies))
            /\ writing > 0 /\ reply.answer = "bad_request" => reply.request = "bad")
BY DEF StreamInv, OneRequest, Fits

\* The same in the next state.
LEMMA StreamFitsNext ==
    /\ StreamInv' <=>
         (~ pipelined' =>
            /\ reading' > 0 => Fits(Seen', inbound', last', ended', Len(replies'))
            /\ \A c \in Arrived' : Fits(Seen', c.data \o inbound', last', ended', Len(replies'))
            /\ writing' > 0 => Fits(2, inbound', last', ended', Len(replies'))
            /\ Written' # {} => Fits(0, inbound', last', ended', Len(replies'))
            /\ writing' > 0 /\ reply'.answer = "bad_request" => reply'.request = "bad")
BY DEF StreamInv, OneRequest, Fits

\* What arrives is appended to what has not been parsed yet.
LEMMA AppendToConcat ==
    ASSUME NEW S, NEW s \in Seq(S), NEW t \in Seq(S), NEW e \in S
    PROVE  s \o Append(t, e) = Append(s \o t, e)
<1>1. Append(t, e) = t \o <<e>> /\ <<e>> \in Seq(S)
  BY AppendIsConcat
<1>2. s \o t \in Seq(S) /\ Append(s \o t, e) = (s \o t) \o <<e>>
  BY AppendIsConcat
<1>3. (s \o t) \o <<e>> = s \o (t \o <<e>>)
  BY <1>1, ConcatAssociative
<1> QED
  BY <1>1, <1>2, <1>3

\* What the invariant says of the queue.
LEMMA QueueInv ==
    ASSUME ConnectionInv
    PROVE  /\ completions \in Queues
           /\ Unique(completions)
           /\ Done(completions) \subseteq Completions
           /\ \A c, d \in Done(completions) : c = d
<1>1. completions \in Queues /\ Unique(completions)
  BY DEF ConnectionInv, TypeOK, SocketInv, Queues, Unique
<1> QED
  BY <1>1 DEF Queues, Unique, Done, Finished

\* The client sends a piece.
LEMMA SendKeeps ==
    ASSUME ConnectionInv, NEW piece \in Pieces, Send(piece)
    PROVE  ConnectionInv'
<1> USE DEF Send, connVars, ioVars
<1>1. TypeOK'
  BY ConnectionAssumption DEF ConnectionInv, TypeOK
<1>2. SocketInv' /\ ParserInv' /\ TimerInv' /\ LimitInv' /\ WellFormedAccepted'
  BY DEF ConnectionInv, SocketInv, ParserInv, TimerInv, LimitInv, WellFormedAccepted,
         Arrived, Unanswered
<1>3. StreamInv'
  <2> SUFFICES ASSUME ~ pipelined' PROVE StreamInv'
    BY DEF StreamInv
  <2>1. ~ pipelined /\ (piece = "head" => Len(replies) = ended)
    OBVIOUS
  <2>2. /\ Len(replies) \in Nat /\ ended \in Nat /\ Seen \in 0 .. 2
        /\ inbound \in Seq(Pieces)
        /\ \A c \in Arrived : c.data \in Seq(Pieces)
    BY QueueInv DEF ConnectionInv, TypeOK, Seen, Arrived, Completions
  <2>3. ASSUME NEW k \in 0 .. 2, NEW stream \in Seq(Pieces),
               Fits(k, stream, last, ended, Len(replies))
        PROVE  Fits(k, Append(stream, piece), last', ended', Len(replies'))
    BY <2>1, <2>2, <2>3, FitsSend
  <2>4. Seen' = Seen /\ Arrived' = Arrived /\ Written' = Written
    BY DEF Seen, Arrived, Written
  <2>5. ASSUME NEW c \in Arrived
        PROVE  c.data \o inbound' = Append(c.data \o inbound, piece)
    <3>1. \A s, t \in Seq(Pieces) : s \o Append(t, piece) = Append(s \o t, piece)
      BY AppendToConcat
    <3>2. inbound' = Append(inbound, piece)
      OBVIOUS
    <3> HIDE DEF Send
    <3> QED
      BY <2>2, <3>1, <3>2
  <2>6. \A c \in Arrived : c.data \o inbound \in Seq(Pieces)
    BY <2>2
  <2>7. StreamInv
    BY DEF ConnectionInv
  <2>8. /\ reading' = reading /\ writing' = writing /\ reply' = reply
        /\ inbound' = Append(inbound, piece)
    OBVIOUS
  <2> HIDE DEF Send
  <2>9. reading' > 0 => Fits(Seen', inbound', last', ended', Len(replies'))
    BY <2>1, <2>2, <2>3, <2>4, <2>7, <2>8, StreamFits
  <2>10. \A c \in Arrived' : Fits(Seen', c.data \o inbound', last', ended', Len(replies'))
    BY <2>1, <2>2, <2>3, <2>4, <2>5, <2>6, <2>7, StreamFits
  <2>11. writing' > 0 => Fits(2, inbound', last', ended', Len(replies'))
    BY <2>1, <2>2, <2>3, <2>7, <2>8, StreamFits
  <2>12. Written' # {} => Fits(0, inbound', last', ended', Len(replies'))
    BY <2>1, <2>2, <2>3, <2>4, <2>7, <2>8, StreamFits
  <2>13. writing' > 0 /\ reply'.answer = "bad_request" => reply'.request = "bad"
    BY <2>1, <2>7, <2>8, StreamFits
  <2> QED
    BY <2>9, <2>10, <2>11, <2>12, <2>13, StreamFitsNext
<1> QED
  BY <1>1, <1>2, <1>3 DEF ConnectionInv

\* The client closes its end.
LEMMA LeaveKeeps ==
    ASSUME ConnectionInv, Leave
    PROVE  ConnectionInv'
<1> USE DEF Leave, connVars, ioVars
<1>1. TypeOK'
  BY DEF ConnectionInv, TypeOK
<1>2. SocketInv' /\ ParserInv' /\ TimerInv' /\ LimitInv' /\ WellFormedAccepted'
  BY DEF ConnectionInv, SocketInv, ParserInv, TimerInv, LimitInv, WellFormedAccepted,
         Arrived, Unanswered
<1>3. StreamInv'
  BY DEF ConnectionInv, StreamInv, OneRequest, Arrived, Written, Seen
<1> QED
  BY <1>1, <1>2, <1>3 DEF ConnectionInv

\* The numbers in the replies.
LEMMA ReplyTypes ==
    ASSUME TypeOK
    PROVE  /\ Len(replies) \in Nat /\ DOMAIN replies = 1 .. Len(replies)
           /\ processed_requests \in Nat
           /\ \A i \in DOMAIN replies : i \in Nat /\ i <= Len(replies) /\ replies[i].max \in Nat
<1>1. replies \in Seq(Replies)
  BY DEF TypeOK
<1>2. \A i \in DOMAIN replies : replies[i] \in Replies
  BY <1>1
<1>3. \A r \in Replies : r.max \in Nat
  BY ConnectionAssumption DEF Replies
<1>4. processed_requests \in Nat
  BY ConnectionAssumption DEF TypeOK
<1> QED
  BY <1>1, <1>2, <1>3, <1>4

\* A step that answers nothing keeps the limit.
LEMMA LimitKept ==
    ASSUME TypeOK, LimitInv, UNCHANGED <<processed_requests, replies>>, Unanswered' = 0,
           writing' = 0
    PROVE  LimitInv'
<1>1. Unanswered \in {0, 1}
  BY DEF Unanswered
<1>2. ASSUME NEW i \in DOMAIN replies, replies[i].answer = "keep"
      PROVE  processed_requests + 0 + Len(replies) - i <= replies[i].max
  BY <1>1, <1>2, ReplyTypes DEF LimitInv
<1> QED
  BY <1>2 DEF LimitInv

\* A read completes with what has arrived.
LEMMA ReadReadyKeeps ==
    ASSUME ConnectionInv, ReadReady
    PROVE  ConnectionInv'
<1> USE DEF ReadReady, connVars
<1>1. /\ TypeOK /\ SocketInv /\ ParserInv /\ TimerInv /\ LimitInv /\ StreamInv
      /\ WellFormedAccepted
  BY DEF ConnectionInv
<1>2. PICK n \in 1 .. Len(inbound) :
         /\ completions' = Append(completions,
                                  Completion("read", "ok", SubSeq(inbound, 1, n)))
         /\ inbound' = SubSeq(inbound, n + 1, Len(inbound))
  OBVIOUS
<1> DEFINE data == SubSeq(inbound, 1, n)
           c == Completion("read", "ok", data)
<1>3. inbound \in Seq(Pieces) /\ Len(inbound) \in Nat
  BY <1>1 DEF TypeOK
<1>4. /\ data \in Seq(Pieces) /\ Len(data) = n /\ data # <<>>
      /\ inbound' \in Seq(Pieces)
  BY <1>2, <1>3
<1>5. data \o inbound' = inbound
  <2>1. SubSeq(inbound, 1, n) \o SubSeq(inbound, n + 1, Len(inbound))
           = SubSeq(inbound, 1, Len(inbound))
    BY <1>3, ConcatAdjacentSubSeq
  <2> QED
    BY <1>2, <1>3, <2>1, SubSeqFull
<1>6. /\ c \in Completions /\ c.op = "read" /\ c.result = "ok" /\ c.data = data
  BY <1>4 DEF Completion, Completions
<1>7. reading = 1 /\ writing = 0 /\ Done(completions) = {} /\ reading' = 0 /\ writing' = 0
  BY <1>1 DEF TypeOK, SocketInv
<1>8. completions' \in Queues /\ Unique(completions') /\ Done(completions') = {c}
  BY <1>2, <1>6, <1>7, QueueInv, AppendSocket
<1> HIDE DEF data, c
<1>9. /\ Arrived' = {c} /\ Written' = {} /\ Seen' = Seen
      /\ Unanswered = 1 /\ Unanswered' = 1
  BY <1>6, <1>7, <1>8 DEF Arrived, Written, Seen, Unanswered
<1>10. TypeOK'
  BY <1>1, <1>4, <1>7, <1>8 DEF TypeOK, Queues
<1>11. SocketInv'
  BY <1>7, <1>8 DEF SocketInv, Unique
<1>12. ParserInv'
  BY <1>1, <1>4, <1>6, <1>7, <1>9 DEF ParserInv
<1>13. TimerInv'
  BY <1>1, <1>6, <1>7, <1>8 DEF TimerInv
<1>14. LimitInv'
  BY <1>1, <1>7, <1>9 DEF LimitInv
<1>15. StreamInv'
  <2> SUFFICES ASSUME ~ pipelined' PROVE StreamInv'
    BY DEF StreamInv
  <2>1. Fits(Seen, inbound, last, ended, Len(replies))
    BY <1>1, <1>7, StreamFits
  <2>2. \A d \in Arrived' : Fits(Seen', d.data \o inbound', last', ended', Len(replies'))
    BY <1>5, <1>6, <1>9, <2>1
  <2> HIDE DEF ReadReady
  <2> QED
    BY <1>7, <1>9, <2>2, StreamFitsNext
<1>16. WellFormedAccepted'
  BY <1>1 DEF WellFormedAccepted
<1> QED
  BY <1>10, <1>11, <1>12, <1>13, <1>14, <1>15, <1>16 DEF ConnectionInv

\* A read completes at the end of the stream.
LEMMA ReadEofKeeps ==
    ASSUME ConnectionInv, ReadEof
    PROVE  ConnectionInv'
<1> USE DEF ReadEof, connVars, clientVars
<1>1. /\ TypeOK /\ SocketInv /\ ParserInv /\ TimerInv /\ LimitInv /\ StreamInv
      /\ WellFormedAccepted
  BY DEF ConnectionInv
<1> DEFINE c == Completion("read", "eof", <<>>)
<1>2. c \in Completions /\ c.op = "read" /\ c.result = "eof"
  BY DEF Completion, Completions
<1>3. reading = 1 /\ writing = 0 /\ Done(completions) = {} /\ reading' = 0 /\ writing' = 0
  BY <1>1 DEF TypeOK, SocketInv
<1>4. completions' \in Queues /\ Unique(completions') /\ Done(completions') = {c}
  BY <1>2, <1>3, QueueInv, AppendSocket
<1> HIDE DEF c
<1>5. Arrived' = {} /\ Written' = {} /\ Unanswered = 1 /\ Unanswered' = 0
  BY <1>2, <1>3, <1>4 DEF Arrived, Written, Unanswered
<1>6. TypeOK'
  BY <1>1, <1>3, <1>4 DEF TypeOK, Queues
<1>7. SocketInv' /\ ParserInv'
  BY <1>3, <1>4, <1>5 DEF SocketInv, ParserInv, Unique
<1>8. TimerInv'
  BY <1>1, <1>2, <1>3, <1>4 DEF TimerInv
<1>9. LimitInv'
  BY <1>1, <1>3, <1>5, LimitKept
<1>10. StreamInv'
  BY <1>3, <1>5 DEF StreamInv
<1>11. WellFormedAccepted'
  BY <1>1 DEF WellFormedAccepted
<1> QED
  BY <1>6, <1>7, <1>8, <1>9, <1>10, <1>11 DEF ConnectionInv

\* A reply has been written.
LEMMA WriteReadyKeeps ==
    ASSUME ConnectionInv, WriteReady
    PROVE  ConnectionInv'
<1> USE DEF WriteReady, connVars
<1>1. /\ TypeOK /\ SocketInv /\ ParserInv /\ TimerInv /\ LimitInv /\ StreamInv
      /\ WellFormedAccepted
  BY DEF ConnectionInv
<1> DEFINE c == Completion("write", "ok", <<>>)
<1>2. c \in Completions /\ c.op = "write" /\ c.result = "ok"
  BY DEF Completion, Completions
<1>3. writing = 1 /\ reading = 0 /\ Done(completions) = {} /\ reading' = 0 /\ writing' = 0
  BY <1>1 DEF TypeOK, SocketInv
<1>4. completions' \in Queues /\ Unique(completions') /\ Done(completions') = {c}
  BY <1>2, <1>3, QueueInv, AppendSocket
<1> HIDE DEF c
<1>5. Arrived' = {} /\ Written' = {c} /\ Unanswered = 1 /\ Unanswered' = 0 /\ Seen' = Seen
  BY <1>2, <1>3, <1>4 DEF Arrived, Written, Unanswered, Seen
<1>6. /\ replies \in Seq(Replies) /\ reply \in Replies /\ Len(replies) \in Nat
      /\ replies' \in Seq(Replies)
      /\ Len(replies') = Len(replies) + 1
      /\ DOMAIN replies = 1 .. Len(replies)
      /\ DOMAIN replies' = 1 .. Len(replies) + 1
      /\ \A i \in 1 .. Len(replies) : replies'[i] = replies[i]
      /\ replies'[Len(replies) + 1] = reply
  BY <1>1 DEF TypeOK
<1>7. TypeOK'
  BY <1>1, <1>3, <1>4, <1>6 DEF TypeOK, Queues
<1>8. SocketInv' /\ ParserInv'
  BY <1>3, <1>4, <1>5 DEF SocketInv, ParserInv, Unique
<1>9. TimerInv'
  BY <1>1, <1>3 DEF TimerInv
<1>10. LimitInv'
  <2> SUFFICES ASSUME NEW i \in DOMAIN replies', replies'[i].answer = "keep"
               PROVE  processed_requests + 0 + (Len(replies) + 1) - i <= replies'[i].max
    BY <1>3, <1>5, <1>6 DEF LimitInv
  <2>1. processed_requests \in Nat
    BY <1>1 DEF TypeOK
  <2>2. CASE i \in 1 .. Len(replies)
    <3>1. processed_requests + 1 + Len(replies) - i <= replies[i].max
      BY <1>1, <1>5, <1>6, <2>2 DEF LimitInv
    <3>2. replies[i].max \in Nat
      BY <1>1, <1>6, <2>2, ReplyTypes
    <3> QED
      BY <1>6, <2>1, <2>2, <3>1, <3>2
  <2>3. CASE i = Len(replies) + 1
    BY <1>1, <1>3, <1>6, <2>1, <2>3 DEF LimitInv
  <2> QED
    BY <1>6, <2>2, <2>3
<1>11. StreamInv'
  <2>1. ASSUME Fits(2, inbound, last, ended, Len(replies))
        PROVE  Fits(0, inbound, last, ended, Len(replies) + 1)
    <3>1. inbound \in Seq(Pieces)
      BY <1>1 DEF TypeOK
    <3>2. Len(inbound) = 0 /\ DOMAIN inbound = 1 .. 0
      BY <2>1, <3>1 DEF Fits
    <3> QED
      BY <1>6, <2>1, <3>2 DEF Fits
  <2> QED
    BY <1>1, <1>3, <1>5, <1>6, <2>1, StreamFits, StreamFitsNext
<1>12. WellFormedAccepted'
  BY <1>1, <1>3, <1>6 DEF WellFormedAccepted, StreamInv
<1> QED
  BY <1>7, <1>8, <1>9, <1>10, <1>11, <1>12 DEF ConnectionInv

\* A reply cannot be written.
LEMMA WriteFailsKeeps ==
    ASSUME ConnectionInv, WriteFails
    PROVE  ConnectionInv'
<1> USE DEF WriteFails, connVars, clientVars
<1>1. /\ TypeOK /\ SocketInv /\ ParserInv /\ TimerInv /\ LimitInv /\ StreamInv
      /\ WellFormedAccepted
  BY DEF ConnectionInv
<1> DEFINE c == Completion("write", "broken", <<>>)
<1>2. c \in Completions /\ c.op = "write" /\ c.result = "broken"
  BY DEF Completion, Completions
<1>3. writing = 1 /\ reading = 0 /\ Done(completions) = {} /\ reading' = 0 /\ writing' = 0
  BY <1>1 DEF TypeOK, SocketInv
<1>4. completions' \in Queues /\ Unique(completions') /\ Done(completions') = {c}
  BY <1>2, <1>3, QueueInv, AppendSocket
<1> HIDE DEF c
<1>5. Arrived' = {} /\ Written' = {} /\ Unanswered = 1 /\ Unanswered' = 0
  BY <1>2, <1>3, <1>4 DEF Arrived, Written, Unanswered
<1>6. TypeOK'
  BY <1>1, <1>3, <1>4 DEF TypeOK, Queues
<1>7. SocketInv' /\ ParserInv'
  BY <1>3, <1>4, <1>5 DEF SocketInv, ParserInv, Unique
<1>8. TimerInv'
  BY <1>1, <1>3 DEF TimerInv
<1>9. LimitInv'
  BY <1>1, <1>3, <1>5, LimitKept
<1>10. StreamInv'
  BY <1>3, <1>5 DEF StreamInv
<1>11. WellFormedAccepted'
  BY <1>1 DEF WellFormedAccepted
<1> QED
  BY <1>6, <1>7, <1>8, <1>9, <1>10, <1>11 DEF ConnectionInv

\* The keep-alive timer expires.
LEMMA TimerExpiresKeeps ==
    ASSUME ConnectionInv, TimerExpires
    PROVE  ConnectionInv'
<1> USE DEF TimerExpires, connVars, clientVars
<1>1. /\ TypeOK /\ SocketInv /\ ParserInv /\ TimerInv /\ LimitInv /\ StreamInv
      /\ WellFormedAccepted
  BY DEF ConnectionInv
<1> DEFINE c == Completion("timer", "ok", <<>>)
<1>2. c \in Completions /\ c.op = "timer"
  BY DEF Completion, Completions
<1>3. /\ completions' \in Queues /\ Finished(completions') = Finished(completions)
      /\ Done(completions') = Done(completions)
  BY <1>2, QueueInv, AppendTimer
<1> HIDE DEF c
<1>4. /\ Arrived' = Arrived /\ Written' = Written /\ Seen' = Seen /\ Unanswered' = Unanswered
  BY <1>3 DEF Arrived, Written, Unanswered, Seen
<1>5. TypeOK'
  BY <1>1, <1>3 DEF TypeOK, Queues
<1>6. SocketInv' /\ ParserInv' /\ TimerInv' /\ WellFormedAccepted'
  BY <1>1, <1>3, <1>4 DEF SocketInv, ParserInv, TimerInv, WellFormedAccepted
<1>7. LimitInv'
  BY <1>1, <1>4 DEF LimitInv
<1>8. StreamInv'
  BY <1>1, <1>4, StreamFits, StreamFitsNext
<1> QED
  BY <1>5, <1>6, <1>7, <1>8 DEF ConnectionInv

-----------------------------------------------------------------------------
(* The handlers                                                            *)

\* A handler of a socket operation finds nothing under way on the socket.
LEMMA SocketHandler ==
    ASSUME ConnectionInv, NEW i \in DOMAIN completions, completions[i].op # "timer"
    PROVE  /\ completions[i] \in Completions
           /\ Done(completions) = {completions[i]}
           /\ reading = 0 /\ writing = 0
           /\ \A q \in {RemoveAt(completions, i), CancelTimer(RemoveAt(completions, i))} :
                /\ q \in Queues
                /\ Finished(q) = {} /\ Done(q) = {}
<1> DEFINE q == RemoveAt(completions, i)
<1>1. i \in Finished(completions)
  BY DEF Finished
<1>2. completions[i] \in Done(completions)
  BY <1>1 DEF Done
<1>3. /\ Done(completions) = {completions[i]}
      /\ completions[i] \in Completions
  BY <1>2, QueueInv
<1>4. reading = 0 /\ writing = 0
  BY <1>2 DEF ConnectionInv, SocketInv
<1>5. q \in Queues /\ Finished(q) = {} /\ Done(q) = {}
  BY <1>1, QueueInv, RemoveSocket
<1> HIDE DEF q
<1>6. CancelTimer(q) \in Queues /\ Finished(CancelTimer(q)) = {} /\ Done(CancelTimer(q)) = {}
  BY <1>5, CancelTimerQueue
<1> QED
  BY <1>3, <1>4, <1>5, <1>6 DEF q

\* After a handler has run the chain's end, nothing is left to be kept but the past.
LEMMA ChainEnds ==
    ASSUME ConnectionInv,
           UNCHANGED <<keep_alive, processed_requests, reply, clientVars>>,
           parser' \in States, shut' \in BOOLEAN,
           reading' = 0, writing' = 0,
           timer' = "off",
           completions' \in Queues, Finished(completions') = {}, Done(completions') = {}
    PROVE  ConnectionInv'
<1> USE DEF clientVars
<1>1. TypeOK /\ LimitInv /\ WellFormedAccepted
  BY DEF ConnectionInv
<1>2. Arrived' = {} /\ Written' = {} /\ Unanswered' = 0
  BY DEF Arrived, Written, Unanswered
<1>3. TypeOK'
  BY <1>1 DEF TypeOK, Queues, States
<1>4. SocketInv' /\ ParserInv' /\ TimerInv'
  BY <1>2 DEF SocketInv, ParserInv, TimerInv
<1>5. LimitInv'
  BY <1>1, <1>2, LimitKept
<1>6. StreamInv' /\ WellFormedAccepted'
  BY <1>1, <1>2 DEF StreamInv, WellFormedAccepted
<1> QED
  BY <1>3, <1>4, <1>5, <1>6 DEF ConnectionInv

\* The types that the handlers' proofs need.
LEMMA TypeStates ==
    ASSUME ConnectionInv
    PROVE  parser \in States /\ shut \in BOOLEAN /\ timer \in {"off", "armed"}
BY DEF ConnectionInv, TypeOK, States

\* handle_read with an error.
LEMMA ReadFailedKeeps ==
    ASSUME ConnectionInv, ReadFailed
    PROVE  ConnectionInv'
<1> USE DEF ReadFailed, connVars
<1>1. PICK i \in DOMAIN completions :
        /\ completions[i].op = "read"
        /\ IF completions[i].result = "aborted"
             THEN completions' = RemoveAt(completions, i) /\ UNCHANGED <<timer, shut>>
             ELSE handle_shutdown(RemoveAt(completions, i))
  OBVIOUS
<1>2. completions[i].op # "timer"
  BY <1>1
<1>3. /\ completions' \in Queues /\ Finished(completions') = {} /\ Done(completions') = {}
      /\ reading = 0 /\ writing = 0
  BY <1>1, <1>2, SocketHandler DEF handle_shutdown
<1>4. timer' = "off" /\ shut' \in BOOLEAN
  <2>1. CASE completions[i].result = "aborted"
    <3>1. timer # "armed"
      BY <1>2, <2>1, SocketHandler DEF ConnectionInv, TimerInv
    <3> QED
      BY <1>1, <2>1, <3>1, TypeStates
  <2>2. CASE completions[i].result # "aborted"
    BY <1>1, <2>2 DEF handle_shutdown
  <2> QED
    BY <2>1, <2>2
<1> QED
  BY <1>3, <1>4, TypeStates, ChainEnds

\* handle_write after the last request.
LEMMA WriteLastKeeps ==
    ASSUME ConnectionInv, WriteLast
    PROVE  ConnectionInv'
<1> USE DEF WriteLast, connVars
<1>1. PICK i \in DOMAIN completions :
        completions[i].op = "write" /\ handle_shutdown(RemoveAt(completions, i))
  OBVIOUS
<1>2. completions[i].op # "timer"
  BY <1>1
<1>3. /\ completions' \in Queues /\ Finished(completions') = {} /\ Done(completions') = {}
      /\ reading = 0 /\ writing = 0
  BY <1>1, <1>2, SocketHandler DEF handle_shutdown
<1>4. timer' = "off" /\ shut' \in BOOLEAN
  BY <1>1 DEF handle_shutdown
<1> QED
  BY <1>3, <1>4, TypeStates, ChainEnds

\* handle_write with an error.
LEMMA WriteFailedKeeps ==
    ASSUME ConnectionInv, WriteFailed
    PROVE  ConnectionInv'
<1> USE DEF WriteFailed, connVars
<1>1. PICK i \in DOMAIN completions :
        completions[i].op = "write" /\ completions' = RemoveAt(completions, i)
  OBVIOUS
<1>2. completions[i].op # "timer"
  BY <1>1
<1>3. /\ completions' \in Queues /\ Finished(completions') = {} /\ Done(completions') = {}
      /\ reading = 0 /\ writing = 0
  BY <1>1, <1>2, SocketHandler
<1>4. timer # "armed"
  BY <1>1, <1>2, SocketHandler DEF ConnectionInv, TimerInv
<1> QED
  BY <1>3, <1>4, TypeStates, ChainEnds

\* handle_read with data: the parser has been reset and returns one of its states.
LEMMA ReceivedForm ==
    ASSUME ConnectionInv, NEW i \in DOMAIN completions, Received(i)
    PROVE  /\ completions[i].op # "timer"
           /\ completions[i] \in Arrived /\ Unanswered = 1
           /\ completions[i].data \in Seq(Pieces) /\ completions[i].data # <<>>
           /\ parser \in {"start", "partial"}
           /\ parser' \in States
<1>1. completions[i].op # "timer"
  BY DEF Received
<1>2. completions[i] \in Arrived
  BY <1>1, SocketHandler DEF Arrived, Received
<1>3. completions[i].data \in Seq(Pieces) /\ completions[i].data # <<>>
  BY <1>1, <1>2, SocketHandler DEF ConnectionInv, ParserInv, Completions
<1>4. parser \in {"start", "partial"}
  BY <1>2, TypeStates DEF ConnectionInv, ParserInv, States
<1>5. parser' \in States
  BY <1>3, <1>4, ParseType DEF Received, States
<1> QED
  BY <1>1, <1>2, <1>3, <1>4, <1>5 DEF Unanswered

\* handle_read without a remote endpoint.
LEMMA ReadEndpointFailsKeeps ==
    ASSUME ConnectionInv, ReadEndpointFails
    PROVE  ConnectionInv'
<1> USE DEF ReadEndpointFails
<1>1. PICK i \in DOMAIN completions :
        Received(i) /\ handle_shutdown(RemoveAt(completions, i))
  OBVIOUS
<1>2. completions[i].op # "timer" /\ parser' \in States
  BY <1>1, ReceivedForm
<1>3. /\ completions' \in Queues /\ Finished(completions') = {} /\ Done(completions') = {}
      /\ reading = 0 /\ writing = 0
  BY <1>1, <1>2, SocketHandler DEF handle_shutdown
<1>4. timer' = "off" /\ shut' \in BOOLEAN
  BY <1>1 DEF handle_shutdown
<1> QED
  BY <1>2, <1>3, <1>4, ChainEnds

\* StopTimer leaves the timer off, armed or not: outside keep-alive it never runs.
LEMMA StopTimerForm ==
    ASSUME ConnectionInv, NEW i \in DOMAIN completions, completions[i].op # "timer",
           StopTimer(RemoveAt(completions, i))
    PROVE  /\ completions' \in Queues /\ Finished(completions') = {} /\ Done(completions') = {}
           /\ timer' = "off"
           /\ Arrived' = {} /\ Written' = {}
<1>1. completions' \in Queues /\ Finished(completions') = {} /\ Done(completions') = {}
  BY SocketHandler DEF StopTimer
<1>2. timer' = "off"
  BY TypeStates DEF StopTimer, ConnectionInv, TimerInv
<1> QED
  BY <1>1, <1>2 DEF Arrived, Written

\* What the parser has made of the pieces, as long as the client waits for answers.
LEMMA ReceivedStream ==
    ASSUME ConnectionInv, NEW i \in DOMAIN completions, Received(i), ~ pipelined
    PROVE  /\ parser' \in Verdicts => Fits(2, inbound, last, ended, Len(replies))
           /\ parser' = "invalid" => Decisive(parser, completions[i].data) = "bad"
           /\ parser' \notin Verdicts => /\ parser' = "partial"
                                         /\ Fits(1, inbound, last, ended, Len(replies))
<1>1. parser' = parse(parser, completions[i].data)
  BY DEF Received
<1>2. /\ completions[i].data \in Seq(Pieces) /\ completions[i].data # <<>>
      /\ parser \in {"start", "partial"}
      /\ completions[i] \in Arrived
  BY ReceivedForm
<1>3. Fits(Seen, completions[i].data \o inbound, last, ended, Len(replies))
  BY <1>2, StreamFits DEF ConnectionInv
<1>4. inbound \in Seq(Pieces)
  BY DEF ConnectionInv, TypeOK
<1>5. Seen = IF parser = "partial" THEN 1 ELSE 0
  BY DEF Seen
<1> QED
  BY <1>1, <1>2, <1>3, <1>4, <1>5, FitsParse

\* handle_read with a valid request.
LEMMA ReadValidKeeps ==
    ASSUME ConnectionInv, ReadValid
    PROVE  ConnectionInv'
<1> USE DEF ReadValid, clientVars
<1>1. /\ TypeOK /\ SocketInv /\ ParserInv /\ TimerInv /\ LimitInv /\ StreamInv
      /\ WellFormedAccepted
  BY DEF ConnectionInv
<1>2. PICK i \in DOMAIN completions :
        /\ Received(i)
        /\ parser' \in {"keep", "close"}
        /\ StopTimer(RemoveAt(completions, i))
        /\ keep_alive' = (keep_alive \/ parser' = "keep")
        /\ reply' = [request |-> parser', answer |-> parser',
                     max |-> IF parser' = "keep" THEN processed_requests ELSE 0]
  OBVIOUS
<1>3. completions[i].op # "timer" /\ Unanswered = 1
  BY <1>2, ReceivedForm
<1>4. reading = 0 /\ writing = 0 /\ reading' = 0 /\ writing' = 1
  BY <1>3, SocketHandler
<1>5. /\ completions' \in Queues /\ Finished(completions') = {} /\ Done(completions') = {}
      /\ timer' = "off" /\ Arrived' = {} /\ Written' = {}
  BY <1>2, <1>3, StopTimerForm
<1>6. Unanswered' = 1
  BY <1>4 DEF Unanswered
<1>7. processed_requests \in 0 .. MaxRequests /\ 0 \in 0 .. MaxRequests
  BY <1>1, ConnectionAssumption DEF TypeOK
<1>8. reply' \in Replies
  BY <1>2, <1>7 DEF Replies, Pieces
<1>9. TypeOK'
  BY <1>1, <1>2, <1>4, <1>5, <1>8 DEF TypeOK, Queues, Verdicts
<1>10. SocketInv' /\ ParserInv' /\ TimerInv'
  BY <1>4, <1>5 DEF SocketInv, ParserInv, TimerInv
<1>11. LimitInv'
  <2>1. reply'.answer = "keep" => reply'.max = processed_requests
    BY <1>2
  <2> QED
    BY <1>1, <1>3, <1>6, <2>1 DEF LimitInv
<1>12. StreamInv'
  <2>1. reply'.answer # "bad_request"
    BY <1>2
  <2>2. ~ pipelined => Fits(2, inbound, last, ended, Len(replies))
    BY <1>2, ReceivedStream DEF Verdicts
  <2> QED
    BY <1>4, <1>5, <2>1, <2>2, StreamFitsNext
<1>13. WellFormedAccepted'
  BY <1>1 DEF WellFormedAccepted
<1> QED
  BY <1>9, <1>10, <1>11, <1>12, <1>13 DEF ConnectionInv

\* handle_read with a request that cannot be parsed.
LEMMA ReadInvalidKeeps ==
    ASSUME ConnectionInv, ReadInvalid
    PROVE  ConnectionInv'
<1> USE DEF ReadInvalid, clientVars
<1>1. /\ TypeOK /\ SocketInv /\ ParserInv /\ TimerInv /\ LimitInv /\ StreamInv
      /\ WellFormedAccepted
  BY DEF ConnectionInv
<1>2. PICK i \in DOMAIN completions :
        /\ Received(i)
        /\ parser' = "invalid"
        /\ StopTimer(RemoveAt(completions, i))
        /\ reply' = [request |-> Decisive(parser, completions[i].data),
                     answer |-> "bad_request", max |-> 0]
  OBVIOUS
<1>3. completions[i].op # "timer" /\ Unanswered = 1
  BY <1>2, ReceivedForm
<1>4. reading = 0 /\ writing = 0 /\ reading' = 0 /\ writing' = 1
  BY <1>3, SocketHandler
<1>5. /\ completions' \in Queues /\ Finished(completions') = {} /\ Done(completions') = {}
      /\ timer' = "off" /\ Arrived' = {} /\ Written' = {}
  BY <1>2, <1>3, StopTimerForm
<1>6. Unanswered' = 1
  BY <1>4 DEF Unanswered
<1>7. Decisive(parser, completions[i].data) \in Pieces
  BY <1>2, ReceivedForm, TypeStates, DecisiveType DEF Received, Verdicts
<1>8. reply' \in Replies
  BY <1>2, <1>7, ConnectionAssumption DEF Replies
<1>9. TypeOK'
  BY <1>1, <1>2, <1>4, <1>5, <1>8 DEF TypeOK, Queues, Verdicts
<1>10. SocketInv' /\ ParserInv' /\ TimerInv'
  BY <1>4, <1>5 DEF SocketInv, ParserInv, TimerInv
<1>11. LimitInv'
  <2>1. reply'.answer # "keep"
    BY <1>2
  <2> QED
    BY <1>1, <1>3, <1>6, <2>1 DEF LimitInv
<1>12. StreamInv'
  <2>1. ~ pipelined => reply'.request = "bad"
    BY <1>2, ReceivedStream
  <2>2. ~ pipelined => Fits(2, inbound, last, ended, Len(replies))
    BY <1>2, ReceivedStream DEF Verdicts
  <2> QED
    BY <1>4, <1>5, <2>1, <2>2, StreamFitsNext
<1>13. WellFormedAccepted'
  BY <1>1 DEF WellFormedAccepted
<1> QED
  BY <1>9, <1>10, <1>11, <1>12, <1>13 DEF ConnectionInv

\* handle_read with a part of a request.
LEMMA ReadPartialKeeps ==
    ASSUME ConnectionInv, ReadPartial
    PROVE  ConnectionInv'
<1> USE DEF ReadPartial, clientVars
<1>1. /\ TypeOK /\ SocketInv /\ ParserInv /\ TimerInv /\ LimitInv /\ StreamInv
      /\ WellFormedAccepted
  BY DEF ConnectionInv
<1>2. PICK i \in DOMAIN completions :
        /\ Received(i)
        /\ parser' \notin Verdicts
        /\ StopTimer(RemoveAt(completions, i))
  OBVIOUS
<1>3. completions[i].op # "timer" /\ Unanswered = 1 /\ parser' \in States
  BY <1>2, ReceivedForm
<1>4. reading = 0 /\ writing = 0 /\ reading' = 1 /\ writing' = 0
  BY <1>3, SocketHandler
<1>5. /\ completions' \in Queues /\ Finished(completions') = {} /\ Done(completions') = {}
      /\ timer' = "off" /\ Arrived' = {} /\ Written' = {}
  BY <1>2, <1>3, StopTimerForm
<1>6. Unanswered' = 1
  BY <1>4 DEF Unanswered
<1>7. TypeOK'
  BY <1>1, <1>3, <1>4, <1>5 DEF TypeOK, Queues, States
<1>8. SocketInv' /\ ParserInv' /\ TimerInv'
  BY <1>2, <1>4, <1>5 DEF SocketInv, ParserInv, TimerInv
<1>9. LimitInv'
  BY <1>1, <1>3, <1>4, <1>6 DEF LimitInv
<1>10. StreamInv'
  <2>1. ~ pipelined => Seen' = 1 /\ Fits(1, inbound, last, ended, Len(replies))
    BY <1>2, ReceivedStream DEF Seen
  <2> QED
    BY <1>4, <1>5, <2>1, StreamFitsNext
<1>11. WellFormedAccepted'
  BY <1>1 DEF WellFormedAccepted
<1> QED
  BY <1>7, <1>8, <1>9, <1>10, <1>11 DEF ConnectionInv

\* handle_write before the next request.
LEMMA WriteDoneKeeps ==
    ASSUME ConnectionInv, WriteDone
    PROVE  ConnectionInv'
<1> USE DEF WriteDone, clientVars
<1>1. /\ TypeOK /\ SocketInv /\ ParserInv /\ TimerInv /\ LimitInv /\ StreamInv
      /\ WellFormedAccepted
  BY DEF ConnectionInv
<1>2. PICK i \in DOMAIN completions :
        /\ completions[i].op = "write"
        /\ completions[i].result = "ok"
        /\ keep_alive
        /\ processed_requests > 0
        /\ processed_requests' = processed_requests - 1
        /\ parser' = "start"
        /\ reply' = NoReply
        /\ start(RemoveAt(completions, i))
  OBVIOUS
<1>3. completions[i].op # "timer"
  BY <1>2
<1>4. Done(completions) = {completions[i]} /\ reading = 0 /\ writing = 0
  BY <1>3, SocketHandler
<1>5. Written = {completions[i]} /\ Arrived = {} /\ Unanswered = 0
  BY <1>2, <1>4 DEF Written, Arrived, Unanswered
<1>6. reading' = 1 /\ writing' = 0 /\ timer' = "armed" /\ shut' = shut
  BY <1>2, <1>4 DEF start
<1>7. completions' \in Queues /\ Finished(completions') = {} /\ Done(completions') = {}
  BY <1>2, <1>3, SocketHandler DEF start
<1>8. Arrived' = {} /\ Written' = {} /\ Unanswered' = 1 /\ Seen' = 0
  BY <1>2, <1>6, <1>7 DEF Arrived, Written, Unanswered, Seen
<1>9. reply' \in Replies
  BY <1>2, ConnectionAssumption DEF NoReply, Replies
<1>10. processed_requests' \in 0 .. MaxRequests
  BY <1>1, <1>2, ConnectionAssumption DEF TypeOK
<1>11. TypeOK'
  BY <1>1, <1>2, <1>6, <1>7, <1>9, <1>10 DEF TypeOK, Queues
<1>12. SocketInv' /\ ParserInv' /\ TimerInv'
  BY <1>2, <1>6, <1>7, <1>8 DEF SocketInv, ParserInv, TimerInv, Verdicts
<1>13. LimitInv'
  <2> SUFFICES ASSUME NEW j \in DOMAIN replies, replies[j].answer = "keep"
               PROVE  (processed_requests - 1) + 1 + Len(replies) - j <= replies[j].max
    BY <1>2, <1>6, <1>8 DEF LimitInv
  <2>1. processed_requests + 0 + Len(replies) - j <= replies[j].max
    BY <1>1, <1>5 DEF LimitInv
  <2> QED
    BY <1>1, <2>1, ReplyTypes
<1>14. StreamInv'
  BY <1>1, <1>5, <1>6, <1>8, StreamFits, StreamFitsNext
<1>15. WellFormedAccepted'
  BY <1>1 DEF WellFormedAccepted
<1> QED
  BY <1>11, <1>12, <1>13, <1>14, <1>15 DEF ConnectionInv

\* handle_timeout, of a timer that was cancelled or has expired.
LEMMA TimeoutKeeps ==
    ASSUME ConnectionInv, handle_timeout
    PROVE  ConnectionInv'
<1> USE DEF handle_timeout, connVars, clientVars
<1>1. /\ TypeOK /\ SocketInv /\ ParserInv /\ TimerInv /\ LimitInv /\ StreamInv
      /\ WellFormedAccepted
  BY DEF ConnectionInv
<1>2. PICK i \in DOMAIN completions :
        /\ completions[i].op = "timer"
        /\ IF completions[i].result = "aborted"
             THEN /\ completions' = RemoveAt(completions, i)
                  /\ UNCHANGED <<reading, writing, timer, shut>>
             ELSE /\ handle_shutdown(CancelSocket(RemoveAt(completions, i)))
                  /\ reading' = 0
                  /\ writing' = 0
  OBVIOUS
<1> DEFINE q == RemoveAt(completions, i)
<1>3. q \in Queues /\ Unique(q) /\ Done(q) = Done(completions)
  BY <1>2, QueueInv, RemoveTimer
<1> HIDE DEF q
<1>4. CASE completions[i].result = "aborted"
  <2>1. completions' = q /\ UNCHANGED <<reading, writing, timer, shut>>
    BY <1>2, <1>4 DEF q
  <2>2. /\ Arrived' = Arrived /\ Written' = Written /\ Seen' = Seen /\ Unanswered' = Unanswered
    BY <1>3, <2>1 DEF Arrived, Written, Unanswered, Seen
  <2>3. TypeOK'
    BY <1>1, <1>3, <2>1 DEF TypeOK, Queues
  <2>4. SocketInv' /\ ParserInv' /\ TimerInv' /\ WellFormedAccepted'
    BY <1>1, <1>3, <2>1, <2>2 DEF SocketInv, ParserInv, TimerInv, WellFormedAccepted, Unique
  <2>5. LimitInv'
    BY <1>1, <2>1, <2>2 DEF LimitInv
  <2>6. StreamInv'
    BY <1>1, <2>1, <2>2, StreamFits, StreamFitsNext
  <2> QED
    BY <2>3, <2>4, <2>5, <2>6 DEF ConnectionInv
<1>5. CASE completions[i].result # "aborted"
  <2> DEFINE r == CancelSocket(q)
  <2>1. /\ completions' = CancelTimer(r) /\ timer' = "off" /\ shut' = TRUE
        /\ reading' = 0 /\ writing' = 0
    BY <1>2, <1>5 DEF handle_shutdown, q
  <2>2. /\ r \in Queues /\ Unique(r)
        /\ \/ Done(r) = Done(q)
           \/ \E c : Done(r) = {c} /\ c.result = "aborted"
    BY <1>1, <1>3, CancelSocketQueue DEF SocketInv
  <2> HIDE DEF r
  <2>3. /\ completions' \in Queues /\ Finished(completions') = Finished(r)
        /\ Done(completions') = Done(r)
    BY <2>1, <2>2, CancelTimerQueue
  <2>4. Unique(completions')
    BY <2>2, <2>3 DEF Unique
  <2>5. /\ Arrived' \subseteq Arrived /\ Written' \subseteq Written /\ Seen' = Seen
    BY <1>3, <2>2, <2>3 DEF Arrived, Written, Seen
  <2>6. TypeOK'
    BY <1>1, <2>1, <2>3 DEF TypeOK, Queues
  <2>7. SocketInv' /\ ParserInv' /\ TimerInv' /\ WellFormedAccepted'
    BY <1>1, <2>1, <2>4, <2>5 DEF SocketInv, ParserInv, TimerInv, WellFormedAccepted, Unique
  <2>8. LimitInv'
    <3>1. CASE Unanswered' = 0
      BY <1>1, <2>1, <3>1, LimitKept
    <3>2. CASE Unanswered' # 0
      <4>1. Unanswered' = Unanswered
        BY <2>1, <2>5, <3>2 DEF Unanswered
      <4> QED
        BY <1>1, <2>1, <4>1 DEF LimitInv
    <3> QED
      BY <3>1, <3>2
  <2>9. StreamInv'
    <3>1. ASSUME ~ pipelined', NEW c \in Arrived'
          PROVE  Fits(Seen', c.data \o inbound', last', ended', Len(replies'))
      BY <1>1, <2>5, <3>1, StreamFits
    <3>2. ~ pipelined' /\ Written' # {} => Fits(0, inbound', last', ended', Len(replies'))
      BY <1>1, <2>5, StreamFits
    <3> QED
      BY <2>1, <3>1, <3>2, StreamFitsNext
  <2> QED
    BY <2>6, <2>7, <2>8, <2>9 DEF ConnectionInv
<1> QED
  BY <1>4, <1>5

-----------------------------------------------------------------------------
(* The theorems                                                            *)

\* The invariant holds of a connection that has just been accepted.
LEMMA InitInv ==
    ASSUME Init
    PROVE  ConnectionInv
<1> USE DEF Init
<1>1. TypeOK
  <2>1. reply \in Replies
    BY ConnectionAssumption DEF NoReply, Replies
  <2>2. completions \in Seq(Completions) /\ inbound \in Seq(Pieces) /\ replies \in Seq(Replies)
    BY EmptySeq
  <2>3. processed_requests \in 0 .. MaxRequests /\ sent \in 0 .. MaxPieces /\ last \in Pieces
    BY ConnectionAssumption DEF Pieces
  <2> QED
    BY <2>1, <2>2, <2>3 DEF TypeOK
<1>2. Finished(completions) = {} /\ Done(completions) = {}
  BY DEF Finished, Done
<1>3. Arrived = {} /\ Written = {} /\ Seen = 0 /\ Unanswered = 1
  BY <1>2 DEF Arrived, Written, Seen, Unanswered
<1>4. SocketInv /\ ParserInv /\ TimerInv
  BY <1>2, <1>3 DEF SocketInv, ParserInv, TimerInv, Verdicts
<1>5. LimitInv /\ WellFormedAccepted
  BY DEF LimitInv, WellFormedAccepted
<1>6. StreamInv
  BY <1>3 DEF StreamInv, OneRequest
<1> QED
  BY <1>1, <1>4, <1>5, <1>6 DEF ConnectionInv

\* Every step keeps the invariant.
LEMMA NextInv ==
    ASSUME ConnectionInv, [Next]_vars
    PROVE  ConnectionInv'
<1>1. CASE \E piece \in Pieces : Send(piece)
  BY <1>1, SendKeeps
<1>2. CASE Leave
  BY <1>2, LeaveKeeps
<1>3. CASE ReadReady
  BY <1>3, ReadReadyKeeps
<1>4. CASE ReadEof
  BY <1>4, ReadEofKeeps
<1>5. CASE WriteReady
  BY <1>5, WriteReadyKeeps
<1>6. CASE WriteFails
  BY <1>6, WriteFailsKeeps
<1>7. CASE TimerExpires
  BY <1>7, TimerExpiresKeeps
<1>8. CASE handle_read
  BY <1>8, ReadFailedKeeps, ReadValidKeeps, ReadEndpointFailsKeeps, ReadInvalidKeeps,
     ReadPartialKeeps DEF handle_read
<1>9. CASE handle_write
  BY <1>9, WriteDoneKeeps, WriteLastKeeps, WriteFailedKeeps DEF handle_write
<1>10. CASE handle_timeout
  BY <1>10, TimeoutKeeps
<1>11. CASE UNCHANGED vars
  <2> USE <1>11 DEF vars, connVars, ioVars, clientVars
  <2>1. TypeOK'
    BY DEF ConnectionInv, TypeOK
  <2>2. SocketInv' /\ ParserInv' /\ TimerInv' /\ LimitInv' /\ WellFormedAccepted'
    BY DEF ConnectionInv, SocketInv, ParserInv, TimerInv, LimitInv, WellFormedAccepted,
           Arrived, Unanswered
  <2>3. StreamInv'
    BY DEF ConnectionInv, StreamInv, OneRequest, Arrived, Written, Seen
  <2> QED
    BY <2>1, <2>2, <2>3 DEF ConnectionInv
<1> QED
  BY <1>1, <1>2, <1>3, <1>4, <1>5, <1>6, <1>7, <1>8, <1>9, <1>10, <1>11 DEF Next

\* The inductive invariant of the connection: the buffers have one user, the parser is
\* reset before the next read, the timer and the budget of requests are as the handlers
\* leave them, and an unpipelined client has one request on its way.
THEOREM ConnectionInvariant == Spec => []ConnectionInv
<1>1. Init => ConnectionInv
  BY InitInv
<1>2. ConnectionInv /\ [Next]_vars => ConnectionInv'
  BY NextInv
<1> QED
  BY <1>1, <1>2, PTL DEF Spec

\* At most one completed operation on the socket waits for its handler.
LEMMA CountsOne ==
    ASSUME ConnectionInv
    PROVE  /\ Delivered \in {0, 1}
           /\ Delivered = 0 <=> Done(completions) = {}
<1>1. CASE Finished(completions) = {}
  BY <1>1, FS_EmptySet DEF Delivered, Done
<1>2. CASE Finished(completions) # {}
  <2>1. PICK i : Finished(completions) = {i}
    BY <1>2, QueueInv DEF Unique
  <2>2. Delivered = 1
    BY <2>1, FS_Singleton DEF Delivered
  <2> QED
    BY <2>1, <2>2 DEF Done
<1> QED
  BY <1>1, <1>2

\* No handler of the connection touches a buffer that an asynchronous read or write is
\* still using: at most one operation of the socket is pending or completed.
THEOREM OneOperationAtATime == Spec => []OneOperation
<1>1. ConnectionInv => OneOperation
  <2> SUFFICES ASSUME ConnectionInv PROVE OneOperation
    OBVIOUS
  <2>1. reading \in Nat /\ writing \in Nat /\ reading + writing <= 1
    BY DEF ConnectionInv, TypeOK, SocketInv
  <2>2. Delivered # 0 => reading = 0 /\ writing = 0
    BY CountsOne DEF ConnectionInv, SocketInv
  <2> QED
    BY <2>1, <2>2, CountsOne DEF OneOperation
<1> QED
  BY <1>1, ConnectionInvariant, PTL

\* The keep-alive timer runs only while the connection waits for a next request.
THEOREM TimerOnlyWhileWaiting == Spec => []TimerRunsWhileWaiting
<1>1. ConnectionInv => TimerRunsWhileWaiting
  <2> SUFFICES ASSUME ConnectionInv, timer = "armed" PROVE TimerRunsWhileWaiting
    BY DEF TimerRunsWhileWaiting
  <2>1. /\ reading \in Nat /\ reading + writing <= 1
        /\ Done(completions) # {} => reading = 0
    BY DEF ConnectionInv, TypeOK, SocketInv
  <2>2. /\ keep_alive /\ parser = "start" /\ writing = 0
        /\ reading = 1 \/ Done(completions) # {}
    BY DEF ConnectionInv, TimerInv
  <2>3. reading + Delivered = 1
    BY <2>1, <2>2, CountsOne
  <2> QED
    BY <2>2, <2>3 DEF TimerRunsWhileWaiting
<1> QED
  BY <1>1, ConnectionInvariant, PTL

\* The number of requests announced in a Keep-Alive header is never exceeded, for every
\* value of processed_requests.
THEOREM LimitsAreKept == Spec => []AnnouncedLimitKept
<1>1. ConnectionInv => AnnouncedLimitKept
  <2> SUFFICES ASSUME ConnectionInv, NEW i \in DOMAIN replies, replies[i].answer = "keep"
               PROVE  Len(replies) - i <= replies[i].max
    BY DEF AnnouncedLimitKept
  <2>1. TypeOK /\ LimitInv
    BY DEF ConnectionInv
  <2>2. processed_requests + Unanswered + Len(replies) - i <= replies[i].max
    BY <2>1 DEF LimitInv
  <2>3. Unanswered \in {0, 1}
    BY DEF Unanswered
  <2> QED
    BY <2>1, <2>2, <2>3, ReplyTypes
<1> QED
  BY <1>1, ConnectionInvariant, PTL

\* A client that waits for each answer never gets a 400 for a well-formed request, for
\* requests that arrive in any number of reads.
THEOREM WellFormedAreAccepted == Spec => []WellFormedAccepted
<1>1. ConnectionInv => WellFormedAccepted
  BY DEF ConnectionInv
<1> QED
  BY <1>1, ConnectionInvariant, PTL

\* The types are kept; the count of requests left never falls below zero.
THEOREM ConnectionTypes == Spec => []TypeOK
<1>1. ConnectionInv => TypeOK
  BY DEF ConnectionInv
<1> QED
  BY <1>1, ConnectionInvariant, PTL
=============================================================================

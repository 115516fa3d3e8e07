------------------------ MODULE SharedMonitor_proofs ------------------------
(***************************************************************************)
(* Proofs about SharedMonitor for every number of waiters and notifiers    *)
(* and every buffer_size.  The invariant RingInv is inductive; the         *)
(* arithmetic of the ring is kept in two lemmas about the ends of the      *)
(* queue, so that the proof of the steps never sees a modulus.             *)
(***************************************************************************)
EXTENDS SharedMonitor, TLAPS

\* Going one slot further wraps round at the end of the buffer.
LEMMA NextIndex ==
    ASSUME NEW i \in Slots
    PROVE  /\ Next_(i) = IF i + 1 = buffer_size THEN 0 ELSE i + 1
           /\ Next_(i) \in Slots
  BY SharedMonitorAssumption, SMT DEF Slots, Next_

\* enqueue_semaphore adds exactly the slot at head, which was not queued before.
LEMMA EnqueueGrows ==
    ASSUME NEW h \in Slots, NEW t \in Slots, Size(h, t) < buffer_size \div 2
    PROVE  /\ \A i \in Slots : Between(i, Next_(h), t) <=> Between(i, h, t) \/ i = h
           /\ ~ Between(h, h, t)
           /\ Size(Next_(h), t) = Size(h, t) + 1
  <1>1. Size(h, t) + 1 < buffer_size
    BY SharedMonitorAssumption DEF Slots, Size
  <1>. QED
    BY <1>1, NextIndex, SharedMonitorAssumption DEF Slots, Size, Between

\* dequeue_semaphore removes exactly the slot at tail, which was queued.
LEMMA PostShrinks ==
    ASSUME NEW h \in Slots, NEW t \in Slots, t # h
    PROVE  /\ \A i \in Slots : Between(i, h, Next_(t)) <=> Between(i, h, t) /\ i # t
           /\ Between(t, h, t)
           /\ Size(h, Next_(t)) = Size(h, t) - 1
  BY NextIndex, SharedMonitorAssumption DEF Slots, Size, Between

-----------------------------------------------------------------------------

\* InternalData's constructor leaves an empty ring.
LEMMA InitRing == Init => RingInv
  <1>. SUFFICES ASSUME Init PROVE RingInv
    OBVIOUS
  <1>1. TypeOK
    BY SharedMonitorAssumption DEF Init, TypeOK, Slots, WaiterPCs, NotifierPCs
  <1>2. HolderInside
    BY SharedMonitorAssumption DEF Init, HolderInside
  <1>3. RingHasRoom
    BY SharedMonitorAssumption DEF Init, RingHasRoom, Size
  <1>4. SlotInv /\ SemaphoresNotShared
    BY SharedMonitorAssumption DEF Init, SlotInv, SemaphoresNotShared, Queued, Between, Slots
  <1>. QED
    BY <1>1, <1>2, <1>3, <1>4 DEF RingInv

\* head, tail and the waiters' slots stay inside the buffer.
LEMMA NextType == TypeOK /\ [Next]_vars => TypeOK'
  <1>. SUFFICES ASSUME TypeOK, [Next]_vars PROVE TypeOK'
    OBVIOUS
  <1>. USE SharedMonitorAssumption DEF TypeOK, WaiterPCs, NotifierPCs
  <1>1. ASSUME NEW w \in Waiters, Lock(w) \/ Unlock(w) \/ Block(w) PROVE TypeOK'
    BY <1>1 DEF Lock, Unlock, Block
  <1>2. ASSUME NEW w \in Waiters, Enqueue(w) PROVE TypeOK'
    BY <1>2, NextIndex DEF Enqueue
  <1>3. ASSUME NEW w \in Waiters, EnqueueThrows(w) PROVE TypeOK'
    BY <1>3, NextIndex DEF EnqueueThrows
  <1>4. ASSUME NEW w \in Waiters, SemaphoreWait(w) PROVE TypeOK'
    BY <1>4 DEF SemaphoreWait
  <1>5. ASSUME NEW w \in Waiters, Kill(w) \/ Restart(w) PROVE TypeOK'
    BY <1>5 DEF Kill, Restart
  <1>6. ASSUME NEW n \in Notifiers, NotifyLock(n) \/ NotifyUnlock(n) PROVE TypeOK'
    BY <1>6 DEF NotifyLock, NotifyUnlock
  <1>7. ASSUME NEW n \in Notifiers, Post(n) PROVE TypeOK'
    BY <1>7, NextIndex DEF Post
  <1>8. CASE UNCHANGED vars
    BY <1>8 DEF vars
  <1>. QED
    BY <1>1, <1>2, <1>3, <1>4, <1>5, <1>6, <1>7, <1>8 DEF Next, WaiterStep, NotifierStep

\* Whoever works on the ring holds the monitor's mutex.
LEMMA NextHolder == TypeOK /\ HolderInside /\ [Next]_vars => HolderInside'
  <1>. SUFFICES ASSUME TypeOK, HolderInside, [Next]_vars PROVE HolderInside'
    OBVIOUS
  <1>. USE SharedMonitorAssumption DEF TypeOK, HolderInside, WaiterPCs, NotifierPCs
  <1>1. ASSUME NEW w \in Waiters, WaiterStep(w) PROVE HolderInside'
    BY <1>1 DEF WaiterStep, Lock, Unlock, Enqueue, EnqueueThrows, Block, SemaphoreWait
  <1>2. ASSUME NEW w \in Waiters, Kill(w) \/ Restart(w) PROVE HolderInside'
    BY <1>2 DEF Kill, Restart
  <1>3. ASSUME NEW n \in Notifiers, NotifyLock(n) \/ NotifierStep(n) PROVE HolderInside'
    BY <1>3 DEF NotifyLock, NotifierStep, Post, NotifyUnlock
  <1>4. CASE UNCHANGED vars
    BY <1>4 DEF vars
  <1>. QED
    BY <1>1, <1>2, <1>3, <1>4 DEF Next

\* Only an enqueue_semaphore that throws fills half of the ring, and it dies with the mutex.
LEMMA NextRoom == RingInv /\ [Next]_vars => RingHasRoom'
  <1>. SUFFICES ASSUME RingInv, [Next]_vars PROVE RingHasRoom'
    OBVIOUS
  <1>. USE SharedMonitorAssumption DEF RingInv, TypeOK, HolderInside, RingHasRoom, WaiterPCs,
                                       NotifierPCs
  <1>1. ASSUME NEW w \in Waiters, Lock(w) \/ Unlock(w) \/ Block(w) \/ SemaphoreWait(w)
        PROVE  RingHasRoom'
    BY <1>1 DEF Lock, Unlock, Block, SemaphoreWait
  <1>2. ASSUME NEW w \in Waiters, Enqueue(w) PROVE RingHasRoom'
    BY <1>2 DEF Enqueue
  <1>3. ASSUME NEW w \in Waiters, EnqueueThrows(w) PROVE RingHasRoom'
    <2>1. mutex = w /\ pc[w] # "dead"
      BY <1>3 DEF EnqueueThrows
    <2>2. Size(head, tail) < buffer_size \div 2
      BY <2>1
    <2>3. Size(Next_(head), tail) = Size(head, tail) + 1
      BY <2>2, EnqueueGrows
    <2>4. Size(head, tail) \in Nat
      BY DEF Size, Slots
    <2>5. Size(Next_(head), tail) = buffer_size \div 2
      BY <1>3, <2>2, <2>3, <2>4 DEF EnqueueThrows
    <2>. QED
      BY <1>3, <2>1, <2>5 DEF EnqueueThrows
  <1>4. ASSUME NEW w \in Waiters, Kill(w) \/ Restart(w) PROVE RingHasRoom'
    BY <1>4 DEF Kill, Restart
  <1>5. ASSUME NEW n \in Notifiers, NotifyLock(n) \/ NotifyUnlock(n) PROVE RingHasRoom'
    BY <1>5 DEF NotifyLock, NotifyUnlock
  <1>6. ASSUME NEW n \in Notifiers, Post(n) PROVE RingHasRoom'
    <2>1. Size(head, Next_(tail)) = Size(head, tail) - 1
      BY <1>6, PostShrinks DEF Post
    <2>2. Size(head, tail) < buffer_size \div 2
      BY <1>6 DEF Post
    <2>3. Size(head, tail) \in Nat
      BY DEF Size, Slots
    <2>. QED
      BY <1>6, <2>1, <2>2, <2>3 DEF Post
  <1>7. CASE UNCHANGED vars
    BY <1>7 DEF vars
  <1>. QED
    BY <1>1, <1>2, <1>3, <1>4, <1>5, <1>6, <1>7 DEF Next, WaiterStep, NotifierStep

\* Enqueueing and posting keep the count of every semaphore that was not lapped.
LEMMA NextSlots == RingInv /\ [Next]_vars => SlotInv' /\ SemaphoresNotShared'
  <1>. SUFFICES ASSUME RingInv, [Next]_vars PROVE SlotInv' /\ SemaphoresNotShared'
    OBVIOUS
  <1>. USE SharedMonitorAssumption DEF RingInv, TypeOK, HolderInside, SlotInv,
           SemaphoresNotShared, WaiterPCs, NotifierPCs
  <1>1. ASSUME NEW w \in Waiters, Lock(w) \/ Unlock(w) \/ Block(w)
        PROVE  SlotInv' /\ SemaphoresNotShared'
    BY <1>1 DEF Lock, Unlock, Block, Queued
  <1>2. ASSUME NEW w \in Waiters, Enqueue(w) PROVE SlotInv' /\ SemaphoresNotShared'
    <2>1. Size(head, tail) < buffer_size \div 2
      BY <1>2 DEF Enqueue, RingHasRoom
    <2>2. /\ \A i \in Slots : Queued(i)' <=> Queued(i) \/ i = head
          /\ ~ Queued(head)
      BY <1>2, <2>1, EnqueueGrows DEF Enqueue, Queued
    \* Nobody else is at a slot that is queued but not yet blocked on.
    <2>3. \A v \in Waiters : pc[v] # "queued"
      BY <1>2 DEF Enqueue
    <2>4. \A v \in Waiters \ {w} :
            pc'[v] \in {"queued", "blocked"} /\ slot'[v] = head => head \in lapped'
      BY <1>2, <2>3 DEF Enqueue, Late
    <2>5. SemaphoresNotShared'
      BY <1>2, <2>4 DEF Enqueue
    <2>6. \A v \in Waiters : pc'[v] = "queued" => Queued(slot[v])'
      BY <1>2, <2>2, <2>3 DEF Enqueue
    <2>7. \A i \in Slots : Queued(i)' /\ i \notin lapped' => semaphore'[i] = 0
      BY <1>2, <2>2 DEF Enqueue
    <2>8. \A v \in Waiters :
            pc'[v] = "blocked" /\ slot'[v] \notin lapped' /\ ~ Queued(slot[v])' =>
                semaphore'[slot'[v]] = 1
      BY <1>2, <2>2, <2>4 DEF Enqueue
    <2>. QED
      BY <2>5, <2>6, <2>7, <2>8
  <1>3. ASSUME NEW w \in Waiters, EnqueueThrows(w) PROVE SlotInv' /\ SemaphoresNotShared'
    <2>1. Size(head, tail) < buffer_size \div 2
      BY <1>3 DEF EnqueueThrows, RingHasRoom
    <2>2. \A i \in Slots : Queued(i)' <=> Queued(i) \/ i = head
      BY <1>3, <2>1, EnqueueGrows DEF EnqueueThrows, Queued
    <2>. QED
      BY <1>3, <2>2 DEF EnqueueThrows
  <1>4. ASSUME NEW w \in Waiters, SemaphoreWait(w) PROVE SlotInv' /\ SemaphoresNotShared'
    BY <1>4 DEF SemaphoreWait, Queued
  <1>5. ASSUME NEW w \in Waiters, Kill(w) \/ Restart(w)
        PROVE  SlotInv' /\ SemaphoresNotShared'
    BY <1>5 DEF Kill, Restart, Queued
  <1>6. ASSUME NEW n \in Notifiers, NotifyLock(n) \/ NotifyUnlock(n)
        PROVE  SlotInv' /\ SemaphoresNotShared'
    BY <1>6 DEF NotifyLock, NotifyUnlock, Queued
  <1>7. ASSUME NEW n \in Notifiers, Post(n) PROVE SlotInv' /\ SemaphoresNotShared'
    <2>1. /\ \A i \in Slots : Queued(i)' <=> Queued(i) /\ i # tail
          /\ Queued(tail)
      BY <1>7, PostShrinks DEF Post, Queued
    <2>2. \A v \in Waiters : pc[v] # "queued"
      BY <1>7 DEF Post
    <2>3. \A i \in Slots : Queued(i)' /\ i \notin lapped' => semaphore'[i] = 0
      BY <1>7, <2>1 DEF Post
    <2>4. \A v \in Waiters :
            pc'[v] = "blocked" /\ slot'[v] \notin lapped' /\ ~ Queued(slot[v])' =>
                semaphore'[slot'[v]] = 1
      BY <1>7, <2>1 DEF Post
    <2>. QED
      BY <1>7, <2>2, <2>3, <2>4 DEF Post
  <1>8. CASE UNCHANGED vars
    BY <1>8 DEF vars, Queued
  <1>. QED
    BY <1>1, <1>2, <1>3, <1>4, <1>5, <1>6, <1>7, <1>8 DEF Next, WaiterStep, NotifierStep

-----------------------------------------------------------------------------

\* The inductive invariant: mutual exclusion, room in the ring, and the meaning of each
\* semaphore's count hold in every reachable state of the monitor, for any number of
\* threads, any buffer size, and with waiters killed at any point.
THEOREM RingInvariant == Spec => []RingInv
  <1>1. RingInv /\ [Next]_vars => RingInv'
    BY NextType, NextHolder, NextRoom, NextSlots DEF RingInv
  <1>. QED
    BY InitRing, <1>1, PTL DEF Spec

\* enqueue_semaphore and dequeue_semaphore never index past the buffer: head and tail stay
\* indices of it, every thread that waits does so on one of its semaphores, and no
\* semaphore's count falls below zero.
THEOREM MonitorTypes == Spec => []TypeOK
  <1>1. RingInv => TypeOK
    BY DEF RingInv
  <1>. QED
    BY <1>1, RingInvariant, PTL

\* wait() never misses a notify_all() and never returns without one, except on a slot
\* that the ring has lapped.
THEOREM WakeupsAreKept == Spec => []WakeupNotLost
  <1>1. RingInv => WakeupNotLost
    BY DEF RingInv, TypeOK, SlotInv, WakeupNotLost
  <1>. QED
    BY RingInvariant, <1>1, PTL

\* Two waiters share a semaphore only on a slot that the ring has lapped.
THEOREM SemaphoresAreOwn == Spec => []SemaphoresNotShared
  <1>1. RingInv => SemaphoresNotShared
    BY DEF RingInv
  <1>. QED
    BY RingInvariant, <1>1, PTL

\* The check in enqueue_semaphore keeps the queue within half of the ring.
THEOREM QueueFitsRing == Spec => []AtMostHalfFull
  <1>1. RingInv => AtMostHalfFull
    BY SharedMonitorAssumption DEF RingInv, RingHasRoom, AtMostHalfFull, TypeOK, Size, Slots
  <1>. QED
    BY RingInvariant, <1>1, PTL

-----------------------------------------------------------------------------

\* With prompt wake-ups no semaphore that enqueue_semaphore hands out is still in use.
LEMMA PromptInvariant == Spec => []PromptInv
  <1>1. Init => PromptInv
    BY SharedMonitorAssumption DEF Init, PromptInv
  <1>2. RingInv /\ PromptInv /\ [Next]_vars => PromptInv'
    <2>. SUFFICES ASSUME RingInv, PromptInv, [Next]_vars, PromptWakeup PROVE PromptInv'
      BY DEF PromptInv
    <2>. USE SharedMonitorAssumption DEF RingInv, TypeOK, HolderInside, PromptInv, WaiterPCs,
                                         NotifierPCs
    <2>1. ASSUME NEW w \in Waiters, Enqueue(w) PROVE PromptInv'
      BY <2>1 DEF Enqueue, Late
    <2>2. ASSUME NEW w \in Waiters,
                 Lock(w) \/ Unlock(w) \/ EnqueueThrows(w) \/ Block(w) \/ SemaphoreWait(w)
          PROVE  PromptInv'
      BY <2>2 DEF Lock, Unlock, EnqueueThrows, Block, SemaphoreWait
    <2>3. ASSUME NEW w \in Waiters, Kill(w) \/ Restart(w) PROVE PromptInv'
      BY <2>3 DEF Kill, Restart
    <2>4. ASSUME NEW n \in Notifiers, NotifyLock(n) \/ NotifierStep(n) PROVE PromptInv'
      BY <2>4 DEF NotifyLock, NotifierStep, Post, NotifyUnlock
    <2>5. CASE UNCHANGED vars
      BY <2>5 DEF vars
    <2>. QED
      BY <2>1, <2>2, <2>3, <2>4, <2>5 DEF Next, WaiterStep
  <1>. QED
    BY <1>1, <1>2, RingInvariant, PTL DEF Spec

\* Refinement: wait() and notify_all() on the ring behave as those of a condition
\* variable, killed waiters included, if posted waiters run before the ring laps them.
THEOREM MonitorImplementsCondVar == PromptWakeup => (Spec => ImplementsCondVar)
  <1>. SUFFICES ASSUME PromptWakeup PROVE Spec => ImplementsCondVar
    OBVIOUS
  <1>1. Init => CV!Init
    BY SharedMonitorAssumption DEF Init, CV!Init, Asleep, State
  <1>2. RingInv /\ PromptInv /\ [Next]_vars => [CV!Next]_(CV!vars)
    <2>. SUFFICES ASSUME RingInv, PromptInv, [Next]_vars PROVE [CV!Next]_(CV!vars)
      OBVIOUS
    <2>. USE SharedMonitorAssumption DEF RingInv, TypeOK, HolderInside, WaiterPCs,
                                         NotifierPCs, Asleep, State
    <2>1. ASSUME NEW w \in Waiters, Lock(w) PROVE CV!Enter(w)
      BY <2>1 DEF Lock, CV!Enter
    <2>2. ASSUME NEW w \in Waiters, Unlock(w) PROVE CV!Leave(w)
      BY <2>2 DEF Unlock, CV!Leave
    <2>3. ASSUME NEW w \in Waiters, Enqueue(w) PROVE UNCHANGED CV!vars
      BY <2>3 DEF Enqueue, Late, CV!vars
    <2>4. ASSUME NEW w \in Waiters, EnqueueThrows(w) PROVE CV!Die(w)
      BY <2>4 DEF EnqueueThrows, CV!Die
    <2>5. ASSUME NEW w \in Waiters, Block(w) PROVE CV!Wait(w)
      <3>1. semaphore[slot[w]] = 0
        BY <2>5 DEF Block, SlotInv, PromptInv
      <3>2. \A n \in Notifiers : pc[n] # "posting"
        BY <2>5 DEF Block
      <3>. QED
        BY <2>5, <3>1, <3>2 DEF Block, CV!Wait
    <2>6. ASSUME NEW w \in Waiters, SemaphoreWait(w) PROVE UNCHANGED CV!vars
      BY <2>6 DEF SemaphoreWait, CV!vars, PromptInv
    <2>7. ASSUME NEW w \in Waiters, Kill(w) PROVE CV!Die(w)
      BY <2>7 DEF Kill, CV!Die
    <2>8. ASSUME NEW w \in Waiters, Restart(w) PROVE CV!Restart(w)
      BY <2>8 DEF Restart, CV!Restart
    <2>9. ASSUME NEW n \in Notifiers, NotifyLock(n) PROVE CV!NotifyAll(n)
      BY <2>9 DEF NotifyLock, CV!NotifyAll
    <2>10. ASSUME NEW n \in Notifiers, Post(n) PROVE UNCHANGED CV!vars
      BY <2>10 DEF Post, CV!vars
    <2>11. ASSUME NEW n \in Notifiers, NotifyUnlock(n) PROVE CV!NotifyDone(n)
      <3>1. \A i \in Slots : ~ Queued(i)
        BY <2>11 DEF NotifyUnlock, Queued, Between, Slots
      <3>2. \A w \in Waiters : pc[w] = "blocked" => semaphore[slot[w]] = 1
        BY <2>11, <3>1 DEF NotifyUnlock, SlotInv, PromptInv
      <3>. QED
        BY <2>11, <3>2 DEF NotifyUnlock, CV!NotifyDone
    <2>12. CASE UNCHANGED vars
      BY <2>12 DEF vars, CV!vars
    <2>. QED
      BY <2>1, <2>2, <2>3, <2>4, <2>5, <2>6, <2>7, <2>8, <2>9, <2>10, <2>11, <2>12
      DEF Next, WaiterStep, NotifierStep, CV!Next
  <1>. QED
    BY <1>1, <1>2, RingInvariant, PromptInvariant, PTL DEF Spec, ImplementsCondVar, CV!Spec
=============================================================================

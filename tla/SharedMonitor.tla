---------------------------- MODULE SharedMonitor ----------------------------
(***************************************************************************)
(* The condition variable of SharedMonitor: a ring buffer of semaphores in *)
(* shared memory, used by threads of different processes.  wait() enqueues *)
(* a fresh semaphore, releases the mutex, blocks on the semaphore and      *)
(* takes the mutex again; notify_all() posts every queued semaphore.       *)
(*                                                                         *)
(* A slot is re-initialised when the ring comes round to it, whether or    *)
(* not the waiter that was posted there has run yet.  A waiter may be      *)
(* killed while it waits: its slot stays in the ring until the next        *)
(* notify_all.  A thread for which the ring is too full throws out of the  *)
(* watchdog thread's function, so its process dies with the mutex locked.  *)
(***************************************************************************)
EXTENDS Naturals

CONSTANTS Waiters,      \* threads that call wait()
          Notifiers,    \* threads that call notify_all()
          buffer_size,
          MaxKills,     \* bound: waiters killed from outside
          PromptWakeup, \* TRUE: a posted waiter runs before the ring laps it
          None

ASSUME SharedMonitorAssumption ==
    /\ buffer_size \in Nat /\ buffer_size >= 2
    /\ MaxKills \in Nat
    /\ PromptWakeup \in BOOLEAN
    /\ Waiters \cap Notifiers = {}
    /\ None \notin Waiters \cup Notifiers

Slots == 0 .. buffer_size - 1

VARIABLES mutex, head, tail,
          semaphore,  \* slot -> count of its semaphore
          pc,         \* of waiters and notifiers
          slot,       \* the semaphore each waiter got from enqueue_semaphore
          kills,
          lapped      \* history: slots that head passed while a waiter was blocked
                      \* there, or without constructing a semaphore

vars == <<mutex, head, tail, semaphore, pc, slot, kills, lapped>>

WaiterPCs == {"outside", "inside", "queued", "blocked", "relock", "dead"}
NotifierPCs == {"idle", "posting"}

Next_(index) == (index + 1) % buffer_size

\* size() for the given ends of the queue.
Size(h, t) == IF h >= t THEN h - t ELSE buffer_size + h - t

\* Slots of a queue that reaches from t up to h.
Between(index, h, t) == IF h >= t THEN t <= index /\ index < h
                                  ELSE t <= index \/ index < h

Queued(index) == Between(index, head, tail)

Init ==
    /\ mutex = None
    /\ head = 0
    /\ tail = 0
    /\ semaphore = [i \in Slots |-> 0]
    /\ pc = [p \in Waiters \cup Notifiers |-> IF p \in Waiters THEN "outside" ELSE "idle"]
    /\ slot = [w \in Waiters |-> None]
    /\ kills = 0
    /\ lapped = {}

Lock(w) ==
    /\ pc[w] \in {"outside", "relock"}
    /\ mutex = None
    /\ mutex' = w
    /\ pc' = [pc EXCEPT ![w] = "inside"]
    /\ UNCHANGED <<head, tail, semaphore, slot, kills, lapped>>

\* The caller's loop found its condition: it leaves the critical section.
Unlock(w) ==
    /\ pc[w] = "inside"
    /\ mutex' = None
    /\ pc' = [pc EXCEPT ![w] = "outside"]
    /\ UNCHANGED <<head, tail, semaphore, slot, kills, lapped>>

\* Some waiter that notify_all has posted at this slot has not run yet.
Late(index) == \E w \in Waiters : pc[w] = "blocked" /\ slot[w] = index

\* Mutant of Enqueue: the slot keeps the semaphore it had.
EnqueueStale(w) ==
    /\ pc[w] = "inside"
    /\ Size(Next_(head), tail) < buffer_size \div 2
    /\ PromptWakeup => ~ Late(head)
    /\ head' = Next_(head)
    /\ slot' = [slot EXCEPT ![w] = head]
    /\ lapped' = IF Late(head) THEN lapped \cup {head} ELSE lapped
    /\ pc' = [pc EXCEPT ![w] = "queued"]
    /\ UNCHANGED <<mutex, tail, semaphore, kills>>

\* Mutant of Enqueue: the queue may grow by one more.
EnqueueFull(w) ==
    /\ pc[w] = "inside"
    /\ Size(Next_(head), tail) <= buffer_size \div 2
    /\ PromptWakeup => ~ Late(head)
    /\ head' = Next_(head)
    /\ semaphore' = [semaphore EXCEPT ![head] = 0]
    /\ slot' = [slot EXCEPT ![w] = head]
    /\ lapped' = IF Late(head) THEN lapped \cup {head} ELSE lapped
    /\ pc' = [pc EXCEPT ![w] = "queued"]
    /\ UNCHANGED <<mutex, tail, kills>>

\* enqueue_semaphore: take the slot at head and construct a semaphore there.
Enqueue(w) ==
    /\ pc[w] = "inside"
    /\ Size(Next_(head), tail) < buffer_size \div 2
    /\ PromptWakeup => ~ Late(head)
    /\ head' = Next_(head)
    /\ semaphore' = [semaphore EXCEPT ![head] = 0]
    /\ slot' = [slot EXCEPT ![w] = head]
    /\ lapped' = IF Late(head) THEN lapped \cup {head} ELSE lapped
    /\ pc' = [pc EXCEPT ![w] = "queued"]
    /\ UNCHANGED <<mutex, tail, kills>>

\* Mutant of EnqueueThrows: the dying process releases the mutex.
EnqueueThrowsUnlocked(w) ==
    /\ pc[w] = "inside"
    /\ Size(Next_(head), tail) >= buffer_size \div 2
    /\ head' = Next_(head)
    /\ mutex' = None
    /\ lapped' = lapped \cup {head}
    /\ pc' = [pc EXCEPT ![w] = "dead"]
    /\ UNCHANGED <<tail, semaphore, slot, kills>>

\* "ring buffer is too small": head has moved, the exception ends the process.
EnqueueThrows(w) ==
    /\ pc[w] = "inside"
    /\ Size(Next_(head), tail) >= buffer_size \div 2
    /\ head' = Next_(head)
    /\ lapped' = lapped \cup {head}
    /\ pc' = [pc EXCEPT ![w] = "dead"]
    /\ UNCHANGED <<mutex, tail, semaphore, slot, kills>>

\* InvertedLock releases the mutex, then semaphore->wait() starts.
Block(w) ==
    /\ pc[w] = "queued"
    /\ mutex' = None
    /\ pc' = [pc EXCEPT ![w] = "blocked"]
    /\ UNCHANGED <<head, tail, semaphore, slot, kills, lapped>>

\* semaphore->wait() returns.
SemaphoreWait(w) ==
    /\ pc[w] = "blocked"
    /\ semaphore[slot[w]] > 0
    /\ semaphore' = [semaphore EXCEPT ![slot[w]] = @ - 1]
    /\ pc' = [pc EXCEPT ![w] = "relock"]
    /\ UNCHANGED <<mutex, head, tail, slot, kills, lapped>>

NotifyLock(n) ==
    /\ pc[n] = "idle"
    /\ mutex = None
    /\ mutex' = n
    /\ pc' = [pc EXCEPT ![n] = "posting"]
    /\ UNCHANGED <<head, tail, semaphore, slot, kills, lapped>>

\* Mutant of Post: tail does not wrap round.
PostPastEnd(n) ==
    /\ pc[n] = "posting"
    /\ tail # head
    /\ semaphore' = [semaphore EXCEPT ![tail] = @ + 1]
    /\ tail' = tail + 1
    /\ UNCHANGED <<mutex, head, pc, slot, kills, lapped>>

\* Mutant of Post: the semaphore is dequeued and not posted.
DequeueOnly(n) ==
    /\ pc[n] = "posting"
    /\ tail # head
    /\ tail' = Next_(tail)
    /\ UNCHANGED <<mutex, head, semaphore, pc, slot, kills, lapped>>

\* dequeue_semaphore()->post()
Post(n) ==
    /\ pc[n] = "posting"
    /\ tail # head
    /\ semaphore' = [semaphore EXCEPT ![tail] = @ + 1]
    /\ tail' = Next_(tail)
    /\ UNCHANGED <<mutex, head, pc, slot, kills, lapped>>

\* Mutant of NotifyUnlock: notify_one instead of notify_all.
NotifyUnlockEarly(n) ==
    /\ pc[n] = "posting"
    /\ mutex' = None
    /\ pc' = [pc EXCEPT ![n] = "idle"]
    /\ UNCHANGED <<head, tail, semaphore, slot, kills, lapped>>

NotifyUnlock(n) ==
    /\ pc[n] = "posting"
    /\ tail = head
    /\ mutex' = None
    /\ pc' = [pc EXCEPT ![n] = "idle"]
    /\ UNCHANGED <<head, tail, semaphore, slot, kills, lapped>>

\* SIGKILL: the waiter is gone, its queued semaphore is not.
Kill(w) ==
    /\ kills < MaxKills
    /\ kills' = kills + 1
    /\ pc[w] # "dead"
    /\ pc' = [pc EXCEPT ![w] = "dead"]
    /\ UNCHANGED <<mutex, head, tail, semaphore, slot, lapped>>

\* Another process with its own watchdog starts.
Restart(w) ==
    /\ pc[w] = "dead"
    /\ mutex # w
    /\ pc' = [pc EXCEPT ![w] = "outside"]
    /\ UNCHANGED <<mutex, head, tail, semaphore, slot, kills, lapped>>

WaiterStep(w) ==
    Lock(w) \/ Unlock(w) \/ Enqueue(w) \/ EnqueueThrows(w) \/ Block(w) \/ SemaphoreWait(w)

NotifierStep(n) == Post(n) \/ NotifyUnlock(n)

Next ==
    \/ \E w \in Waiters : WaiterStep(w) \/ Kill(w) \/ Restart(w)
    \/ \E n \in Notifiers : NotifyLock(n) \/ NotifierStep(n)

Spec == Init /\ [][Next]_vars

\* A thread inside the monitor gets on, a posted semaphore lets its waiter through.
Fairness ==
    /\ \A w \in Waiters : /\ WF_vars(Unlock(w) \/ Enqueue(w) \/ EnqueueThrows(w) \/ Block(w))
                          /\ WF_vars(SemaphoreWait(w))
    /\ \A n \in Notifiers : WF_vars(NotifierStep(n))

FairSpec == Spec /\ Fairness

-----------------------------------------------------------------------------
(* Properties                                                              *)

TypeOK ==
    /\ mutex \in Waiters \cup Notifiers \cup {None}
    /\ head \in Slots
    /\ tail \in Slots
    /\ semaphore \in [Slots -> Nat]
    /\ pc \in [Waiters \cup Notifiers -> WaiterPCs \cup NotifierPCs]
    /\ \A w \in Waiters : pc[w] \in WaiterPCs
    /\ \A n \in Notifiers : pc[n] \in NotifierPCs
    /\ slot \in [Waiters -> Slots \cup {None}]
    /\ \A w \in Waiters : pc[w] \in {"queued", "blocked"} => slot[w] \in Slots
    /\ kills \in Nat
    /\ lapped \subseteq Slots

\* No wakeup is lost and none comes early: a waiter's semaphore is 0 while it is queued
\* and 1 once notify_all has posted it, however many other waiters came, went, or were
\* killed while they waited.  The code limits the risk of losing one to the case that
\* the ring comes round to a slot before the waiter posted there has run; even then
\* only waiters of that slot are affected.
WakeupNotLost ==
    \A w \in Waiters :
        pc[w] = "blocked" /\ slot[w] \notin lapped =>
            semaphore[slot[w]] = IF Queued(slot[w]) THEN 0 ELSE 1

\* Two waiters block on the same semaphore only if the ring lapped one of them.
SemaphoresNotShared ==
    \A v, w \in Waiters :
        /\ pc[v] \in {"queued", "blocked"}
        /\ pc[w] \in {"queued", "blocked"}
        /\ slot[v] = slot[w]
        => v = w \/ slot[v] \in lapped

\* The queue takes up at most half of the ring, so that tail = head always means that
\* it is empty and never that it has swallowed buffer_size waiters.
AtMostHalfFull == Size(head, tail) <= buffer_size \div 2

-----------------------------------------------------------------------------
(* The inductive invariant behind these properties                         *)

\* Whoever is inside the critical section holds the mutex.
HolderInside ==
    /\ \A w \in Waiters : pc[w] \in {"inside", "queued"} => mutex = w
    /\ \A n \in Notifiers : pc[n] = "posting" => mutex = n

\* Only a process that died in enqueue_semaphore leaves the queue at its limit, and
\* then nobody gets the mutex any more.
RingHasRoom ==
    \/ Size(head, tail) < buffer_size \div 2
    \/ /\ Size(head, tail) = buffer_size \div 2
       /\ \E w \in Waiters : mutex = w /\ pc[w] = "dead"

\* What the semaphores of the ring and the waiters' pointers to them look like.
SlotInv ==
    /\ \A w \in Waiters : pc[w] = "queued" => Queued(slot[w])
    /\ \A i \in Slots : Queued(i) /\ i \notin lapped => semaphore[i] = 0
    /\ \A w \in Waiters :
         pc[w] = "blocked" /\ slot[w] \notin lapped /\ ~ Queued(slot[w]) =>
            semaphore[slot[w]] = 1

\* If posted waiters run before the ring laps them, no semaphore is ever shared, and a
\* slot is passed over only by a process that died holding the mutex.
PromptInv ==
    PromptWakeup =>
        /\ \A v, w \in Waiters :
             /\ pc[v] \in {"queued", "blocked"}
             /\ pc[w] \in {"queued", "blocked"}
             /\ slot[v] = slot[w]
             => v = w
        /\ lapped = {} \/ \E w \in Waiters : mutex = w /\ pc[w] = "dead"

RingInv ==
    TypeOK /\ HolderInside /\ RingHasRoom /\ SlotInv /\ SemaphoresNotShared

-----------------------------------------------------------------------------

\* A waiter that has not been notified.  (notify_all holds the mutex while it posts, so
\* all its posts count as one notification, at its beginning.)
Asleep(w) ==
    /\ pc[w] = "blocked"
    /\ semaphore[slot[w]] = 0
    /\ \A n \in Notifiers : pc[n] # "posting"

State(w) ==
    IF pc[w] = "queued" THEN "inside"
    ELSE IF pc[w] \in {"blocked", "relock"} THEN "waiting" ELSE pc[w]

CV == INSTANCE CondVar WITH
    asleep <- {w \in Waiters : Asleep(w)},
    state <- [w \in Waiters |-> State(w)]

\* Where every posted waiter runs before the ring laps it, the ring of semaphores
\* implements a condition variable.
ImplementsCondVar == CV!Spec

\* Whoever waits when notify_all starts gets through its semaphore, also when other
\* waiters have been killed ("Solutions based on waiters counting [...] fail if a
\* waiter is killed").
NotifiedWakes ==
    \A w \in Waiters, n \in Notifiers :
        pc[w] = "blocked" /\ pc[n] = "posting" ~> pc[w] # "blocked"
=============================================================================

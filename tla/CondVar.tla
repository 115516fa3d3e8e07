------------------------------- MODULE CondVar -------------------------------
(***************************************************************************)
(* What a condition variable promises: the abstract specification that     *)
(* SharedMonitor implements.  A thread that waits goes to sleep and gives  *)
(* up the mutex in one step; notify_all wakes exactly those asleep; a      *)
(* woken thread takes the mutex again before it goes on.                   *)
(***************************************************************************)
CONSTANTS Waiters, Notifiers, None

VARIABLES mutex,    \* holder of the mutex, or None
          asleep,   \* threads that wait and have not been notified
          state     \* where each waiter is

vars == <<mutex, asleep, state>>

Init ==
    /\ mutex = None
    /\ asleep = {}
    /\ state = [w \in Waiters |-> "outside"]

\* A waiter enters the monitor, from outside or because it was notified.
Enter(w) ==
    /\ mutex = None
    /\ state[w] \in {"outside", "waiting"}
    /\ w \notin asleep
    /\ mutex' = w
    /\ state' = [state EXCEPT ![w] = "inside"]
    /\ UNCHANGED asleep

Leave(w) ==
    /\ mutex = w
    /\ state[w] = "inside"
    /\ mutex' = None
    /\ state' = [state EXCEPT ![w] = "outside"]
    /\ UNCHANGED asleep

Wait(w) ==
    /\ mutex = w
    /\ state[w] = "inside"
    /\ mutex' = None
    /\ asleep' = asleep \cup {w}
    /\ state' = [state EXCEPT ![w] = "waiting"]

NotifyAll(n) ==
    /\ mutex = None
    /\ mutex' = n
    /\ asleep' = {}
    /\ UNCHANGED state

NotifyDone(n) ==
    /\ mutex = n
    /\ mutex' = None
    /\ UNCHANGED <<asleep, state>>

\* A process dies wherever it is; a mutex it holds stays locked.
Die(w) ==
    /\ state[w] # "dead"
    /\ state' = [state EXCEPT ![w] = "dead"]
    /\ asleep' = asleep \ {w}
    /\ UNCHANGED mutex

\* A new process takes the place of a dead one that did not hold the mutex.
Restart(w) ==
    /\ state[w] = "dead"
    /\ mutex # w
    /\ state' = [state EXCEPT ![w] = "outside"]
    /\ UNCHANGED <<mutex, asleep>>

Next ==
    \/ \E w \in Waiters : Enter(w) \/ Leave(w) \/ Wait(w) \/ Die(w) \/ Restart(w)
    \/ \E n \in Notifiers : NotifyAll(n) \/ NotifyDone(n)

Spec == Init /\ [][Next]_vars
=============================================================================

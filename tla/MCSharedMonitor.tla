--------------------------- MODULE MCSharedMonitor ---------------------------
(* Instances of SharedMonitor for TLC. *)
EXTENDS SharedMonitor, TLC

CONSTANTS w1, w2, w3, n1, n2

TwoWaiters == {w1, w2}
ThreeWaiters == {w1, w2, w3}
OneNotifier == {n1}
TwoNotifiers == {n1, n2}

ThreadSymmetry == Permutations(Waiters) \cup Permutations(Notifiers)
=============================================================================

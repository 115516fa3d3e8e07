SPECIFICATION Spec
CONSTANTS
  w1 = w1 w2 = w2 w3 = w3 n1 = n1 n2 = n2
  None = None
  Waiters <- ThreeWaiters
  Notifiers <- OneNotifier
  buffer_size = 6
  MaxKills = 2
  PromptWakeup = FALSE
SYMMETRY ThreadSymmetry
INVARIANTS TypeOK WakeupNotLost AtMostHalfFull RingInv
CHECK_DEADLOCK FALSE

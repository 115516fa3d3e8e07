SPECIFICATION FairSpec
CONSTANTS
  w1 = w1 w2 = w2 w3 = w3 n1 = n1 n2 = n2
  None = None
  Waiters <- TwoWaiters
  Notifiers <- TwoNotifiers
  buffer_size = 6
  MaxKills = 1
  PromptWakeup = TRUE
PROPERTIES ImplementsCondVar NotifiedWakes
CHECK_DEADLOCK FALSE

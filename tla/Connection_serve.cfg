SPECIFICATION FairSpec
CONSTANTS
  MaxRequests = 2
  MaxPieces = 8
INVARIANTS TypeOK OneOperation TimerRunsWhileWaiting AnnouncedLimitKept WellFormedAccepted
           ConnectionInv
PROPERTIES ShutdownReleases RequestsAnswered IdleConnectionCloses
CHECK_DEADLOCK FALSE

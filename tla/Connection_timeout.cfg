SPECIFICATION FairSpec
CONSTANTS
  MaxRequests = 2
  MaxPieces = 4
PROPERTY NoShutdownDuringReply
CHECK_DEADLOCK FALSE

SPECIFICATION Spec
CONSTANTS
  PodLimit = 3
  MaxLines = 5
INVARIANTS TypeOK ResultWithinLimit OnErrorAtMostTwice
PROPERTIES IsLineDelivery ClosesWithServer
CHECK_DEADLOCK FALSE

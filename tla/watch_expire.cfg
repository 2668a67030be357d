SPECIFICATION Spec
CONSTANTS
  PodLimit = 3
  MaxLines = 2
PROPERTIES AutoCancels
CHECK_DEADLOCK FALSE

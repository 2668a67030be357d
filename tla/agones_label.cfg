SPECIFICATION Spec
CONSTANTS
  Values = {v1, v2}
  MaxPackets = 3
INVARIANTS LabelIsApplied
CHECK_DEADLOCK FALSE

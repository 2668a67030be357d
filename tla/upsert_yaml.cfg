SPECIFICATION Spec
CONSTANTS
  Clients = {a, b}
  Names = {n}
  Values = {v, w}
  None = None
  Selectors <- MCSelectors
  Faults = {}
INVARIANTS AppliedIsReported
CHECK_DEADLOCK FALSE

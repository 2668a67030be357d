SPECIFICATION Spec
CONSTANTS
  Clients = {a, b, c}
  Names = {n}
  Values = {v, w}
  None = None
  Selectors <- MCSelectors
  Faults = {"rejected", "lost"}
SYMMETRY MCSymmetry
INVARIANTS TypeOK ConflictNeedsRace
PROPERTIES TakesEffectOnce WritesSurvive
CHECK_DEADLOCK FALSE

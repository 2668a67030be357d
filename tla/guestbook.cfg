SPECIFICATION Spec
CONSTANTS
  Pages = {p1, p2}
  Pushes = {k1, k2}
INVARIANTS TypeOK ReadsOwnEntry
PROPERTIES ShrinksOnlyOvertaken UpToDate

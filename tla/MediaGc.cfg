SPECIFICATION Spec
CONSTANTS
  Assets = {a1}
  Workers = {w1, w2}
  None = None
  MaxFaults = 1
SYMMETRY Symmetry
CHECK_DEADLOCK FALSE
INVARIANTS
  TagMatchesRow
  NoUntrackedObject
PROPERTIES
  StableReferenceKept
  PassRescues

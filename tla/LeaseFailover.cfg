SPECIFICATION GapSpec
CONSTANTS
  Instances = {p1, p2, p3}
  None = None
  LeaseTtl = 5
  RenewInterval = 2
  MaxLag = 1
  MaxRtt = 1
  MaxFaults = 1
SYMMETRY Symmetry
CHECK_DEADLOCK FALSE
INVARIANTS
  OneLeader
  GapBounded

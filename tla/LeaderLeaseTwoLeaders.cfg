SPECIFICATION Spec
CONSTANTS
  Instances = {p1, p2}
  None = None
  LeaseTtl = 3
  RenewInterval = 1
  MaxLag = 0
  MaxRtt = 4
  MaxFaults = 0
CHECK_DEADLOCK FALSE
INVARIANTS
  OneLeader

SPECIFICATION SupervisorFairSpec
CONSTANTS
  Handles = {h1, h2}
  None = None
  Slots = {s1}
  MaxSaves = 1
  MaxFlips = 2
  MaxBlips = 0
  MaxLooks = 0
  Caching = FALSE
PROPERTIES OnlyTheLeaderListens
CHECK_DEADLOCK FALSE

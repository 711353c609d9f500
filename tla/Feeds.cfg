SPECIFICATION FeedsSpec
CONSTANTS
  Instances = {i1, i2}
  None = None
  Sent = Sent
  MaxVersion = 2
  MaxFlips = 3
  MaxFaults = 2
  Supervisors = {s1}
  NoWork = NoWork
  Chains = {h1, h2}
  MaxPlays = 2
  MaxTerms = 1
  MaxTurns = 2
  MaxMisses = 1
CHECK_DEADLOCK FALSE
INVARIANTS
  LastWordIsCurrent
PROPERTIES
  SnapshotGoesForward
  ReadersConverge
  PlayingIsServed

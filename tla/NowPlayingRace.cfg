SPECIFICATION NowPlayingSpec
CONSTANTS
  Supervisors = {s1}
  NoWork = NoWork
  Chains = {h1, h2}
  MaxPlays = 2
  MaxTerms = 1
  MaxTurns = 1
  MaxMisses = 0
CHECK_DEADLOCK FALSE
PROPERTIES
  PauseOutlivesTick

SPECIFICATION SupervisorFairSpec
CONSTANTS
  Handles = {h1, h2}
  None = None
  Slots = {s1}
  MaxSaves = 1
  MaxFlips = 1
  MaxBlips = 0
  MaxLooks = 0
  Caching = TRUE
PROPERTIES CredentialTaken
CHECK_DEADLOCK FALSE

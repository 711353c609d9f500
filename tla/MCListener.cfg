SPECIFICATION ListenerSpec
CONSTANTS
  AttemptCap = 2
  MaxFaults = 3
  MaxCalls = 3
  MaxPlays = 1
  Handles = {h1, h2}
  None = None
  Slots = {s1, s2}
  MaxSaves = 1
  MaxFlips = 2
  MaxBlips = 1
  MaxLooks = 1
  Caching = TRUE
INVARIANTS
  NoLeakedSocket
  OneDriver
  NoOrphan
  TickerOnlyWhileLive
  StraysOutliveTheirTerm
PROPERTIES
  EventsFromOwnedSocket
  Recovers
  ImplementsListener
  LastLoadRules
CHECK_DEADLOCK FALSE

SPECIFICATION FairSpec
CONSTANTS
  Events <- MCEvents
  WINDOW_SECONDS = 3
  FAILURE_THRESHOLD = 2
  Lateness = 1
  Timely = TRUE
  MaxKills = 2
INVARIANTS
  FedWholeWindows
  LostOnlyIfClosed
PROPERTIES
  KeepsPromise
  Drains

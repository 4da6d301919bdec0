SPECIFICATION FairSpec
CONSTANTS
  Events <- MCEvents
  WINDOW_SECONDS = 2
  FAILURE_THRESHOLD = 2
  Spill <- SecondSpills
  HoldWindow = 2
  TruncateWindow = 4
  max_idle_ticks = 5
  max_gap = 2
  MaxKills = 3
  Supervised = TRUE
INVARIANTS
  NoDuplicateAlert
  SavedMeansAlerted
  NeverReadsBehindState
  DrainedComplete
PROPERTIES
  KeepsPromise
  Drains

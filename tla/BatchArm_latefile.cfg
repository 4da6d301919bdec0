SPECIFICATION Spec
CONSTANTS
  Events <- MCEvents
  WINDOW_SECONDS = 2
  FAILURE_THRESHOLD = 2
  Spill <- NoSpill
  HoldWindow = 2
  TruncateWindow = 0
  max_idle_ticks = 5
  max_gap = 2
  MaxKills = 0
  Supervised = FALSE
INVARIANT
  LateFileAlerted

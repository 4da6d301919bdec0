SPECIFICATION Spec
CONSTANTS
  Events <- MCEvents
  WINDOW_SECONDS = 3
  FAILURE_THRESHOLD = 2
  Lateness = 1
  Timely = TRUE
  MaxKills = 1
INVARIANT
  RuleFollowedComplete

SPECIFICATION Spec
CONSTANTS
  Events <- MCEvents
  WINDOW_SECONDS = 3
  FAILURE_THRESHOLD = 2
  Lateness = 1
  MaxQueue = 2
  OutageExpires = FALSE
  IdleTimeout = FALSE
  Prompt = TRUE
  MaxBrokerKills = 1
  MaxTMKills = 0
  MaxConsumerKills = 0
INVARIANT
  NearMissSilent

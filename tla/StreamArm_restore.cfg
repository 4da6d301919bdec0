SPECIFICATION FairSpec
CONSTANTS
  Events <- MCEvents
  WINDOW_SECONDS = 3
  FAILURE_THRESHOLD = 2
  Lateness = 1
  MaxQueue = 3
  OutageExpires = FALSE
  IdleTimeout = TRUE
  Prompt = FALSE
  MaxBrokerKills = 0
  MaxTMKills = 2
  MaxConsumerKills = 1
INVARIANTS
  CountsMatchOffset
  CheckpointSafe
PROPERTIES
  KeepsPromise
  Drains

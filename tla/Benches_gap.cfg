SPECIFICATION MCSpec
CONSTANTS
  Items <- MCItems
  CONDITIONS <- MCConditions
  Answers = {"gold", "none"}
  MaxMappingKills = 2
  Writers = {w1, w2}
  COMMITS_PER_WRITER = 2
  MaxAttempts = 2
  MaxFaults = 2
  LEVELS <- MCLevels
  MaxQueries = 2
  Survives <- MCSurvives
  TRIALS = 2
  WARMUP = 1
  MAX_RETRIES = 1
  DayRows <- MCDayRows
  W_HOTs = {0, 1, 2, 5}
  FreshRows = 3
  Decay <- MCDecay
  HalfLives = {7, 14, 28, 90}
  Estate <- MCEstate
  People = {1, 2}
  Drawn <- MCDrawn
  Rounds = 4
  Queries <- MCQueries
  Z_BITS = 2
  ROW_GROUP_SIZE = 2
  BUCKET = 2
  Files <- MCFiles
  Golds <- MCGolds
  Users <- MCUsers
  Hosts <- MCHosts
  PredicateLists <- MCPreds
  GraphEdges <- MCGraphEdges
  Searches <- MCSearches
  TechniqueOf <- MCTechniqueOf
  Crosswalks <- MCCrosswalks
  Readers <- MCReaders
  Servers <- MCServers
  Cells = 2
CHECK_DEADLOCK FALSE
INVARIANT
  GapsNotTraversed

SPECIFICATION FairSpec
CONSTANTS
  Events <- MCEvents
  WINDOW_SECONDS = 2
  FAILURE_THRESHOLD = 2
  Landers = {"fine", "coarse"}
  Span <- MCSpan
  Replicas = {"B60", "B5L300"}
  Reads <- MCReads
  ioc_pairs = {"ioc"}
INVARIANTS
  GatePasses
  NothingLeftBehind
  LookbackNeedsSingles
PROPERTY
  AllExit

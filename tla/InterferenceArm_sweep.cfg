SPECIFICATION FairSpec
CONSTANTS
  OUTSTANDING_CAP = 2
  MaxFires = 3
  MaxSamples = 3
  Levels = 3
  MaxProbes = 1
  Faults = {"timeout", "resource"}
INVARIANTS
  Accounting
  UtilizationNeedsCap
  KneeRule
PROPERTY
  ArmEnds

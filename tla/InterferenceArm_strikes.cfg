SPECIFICATION Spec
CONSTANTS
  OUTSTANDING_CAP = 2
  MaxFires = 2
  MaxSamples = 1
  Levels = 2
  MaxProbes = 1
  Faults = {"timeout", "resource"}
PROPERTY
  HardBreakStops

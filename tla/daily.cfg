SPECIFICATION Spec
CONSTANTS
  d1 = d1
  d2 = d2
  d3 = d3
  warrant = warrant
  annex = annex
  Disclosures = {d1, d2, d3, warrant, annex}
  OutOfScope = {warrant}
  Unselected = {annex}
  PassedAt <- MCPassedAt
  Lookback = 1
  MaxWindow = 2
  Overlap = 1
  Period = 1
  StaleAge = 0
  SeenCap = 2
  NewestHead = 1
  OldestSlots = 1
  MaxNow = 4
  MaxRuns = 3
  MaxFaults = 2
SYMMETRY Symmetry
INVARIANTS
  SeenAreReady
  AnalysedOnce
  DeadRunsClosed
  BacklogServed
PROPERTIES
  WatermarkResolved
CHECK_DEADLOCK FALSE

SPECIFICATION Spec
CONSTANTS
  d1 = d1
  d2 = d2
  d3 = d3
  warrant = warrant
  annex = annex
  Disclosures = {d1, d2, d3}
  OutOfScope = {}
  Unselected = {}
  PassedAt <- MCPassedAt
  Lookback = 5
  MaxWindow = 8
  Overlap = 4
  Period = 4
  StaleAge = 0
  SeenCap = 2
  NewestHead = 1
  OldestSlots = 1
  MaxNow = 11
  MaxRuns = 2
  MaxFaults = 1
SYMMETRY Symmetry
PROPERTIES
  RemainsDiscoverable
CHECK_DEADLOCK FALSE

SPECIFICATION Spec
CONSTANTS
  a = a
  x = x
  Tickers = {a, x}
  Master = {a}
  MaxTime = 3
  Windows <- MCWindows
  DayLength = 2
  MaxRows = 2
  PageSize = 1
  ProbeBase = 2
  ProbeMax = 2
  Overlap = 1
  Kinds = {"incremental", "historical_audit", "limited", "synapse"}
  MaxFaults = 1
  MaxRuns = 2
CHECK_DEADLOCK FALSE
INVARIANTS ListingComplete CoveredRowsStored MissingExact
PROPERTIES RemoteCoverageBacked

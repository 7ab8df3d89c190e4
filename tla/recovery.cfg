SPECIFICATION Spec
CONSTANTS
  r1 = r1
  r2 = r2
  a1 = a1
  a2 = a2
  Records <- MCRecords
  Attachments <- MCAttachments
  Of <- MCOf
  MaxSourceRequests = 3
  MaxVisits = 3
  MaxFaults = 2
  MaxRuns = 2
CHECK_DEADLOCK FALSE
INVARIANTS FailureReleases CompleteMeansAnalysed RunClosed
PROPERTIES ReadyKept AnalysisComplete

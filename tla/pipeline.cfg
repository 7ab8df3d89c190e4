SPECIFICATION FairSpec
CONSTANTS
  annA = annA
  annB = annB
  x1 = x1
  x2 = x2
  x3 = x3
  Announcements = {annA, annB}
  Attachments = {x1, x2, x3}
  AnnouncementOf <- AllOfA
  DuplicateOf <- ThirdOfFirst
  Routine = {annA}
  Mode = "incremental"
  MaxRuns = 2
  Faults = {"preparation", "extraction", "document", "reducer", "registration"}
  Crashes = TRUE
INVARIANTS
  OutstandingExact
  EvidenceComplete
  NothingAfterVerdict
  CoverageSound
PROPERTIES
  RunEnds
  SubmittedOnce
CHECK_DEADLOCK FALSE

SPECIFICATION Spec
CONSTANTS
  annA = annA
  annB = annB
  x1 = x1
  x2 = x2
  x3 = x3
  Announcements = {annA}
  Attachments = {x1, x2}
  AnnouncementOf <- AllOfA
  DuplicateOf <- NoDuplicates
  Routine = {}
  Mode = "incremental"
  MaxRuns = 2
  Faults = {"document"}
  Crashes = FALSE
INVARIANT
  CoverageComplete

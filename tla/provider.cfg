SPECIFICATION FairSpec
CONSTANTS
  c1 = c1
  c2 = c2
  Combine = combine
  Chunks <- MCChunks
  Delays <- MCDelays
  Workers = 2
  Attempts = 2
  Calls = 2
  Deadline = 5
INVARIANTS
  ProvenanceTrue
  OwnCooldownKept
  ThrottledSendAlone
PROPERTIES
  CallsEnd
CHECK_DEADLOCK FALSE

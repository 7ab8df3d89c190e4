SPECIFICATION FairSpec
CONSTANTS
  p1 = p1
  b1 = b1
  b2 = b2
  d1 = d1
  Requests = {p1, b1, b2}
  Bulk = {b1, b2}
  Disclosures = {d1}
  DisclosureOf <- OneDisclosure
  DisclosureLimit = 2
  ConfiguredMax = 2
  HealthyPerStep = 2
  Enabled = TRUE
  Attempts = 2
  Providers = {"openrouter", "gemini", "cloudflare"}
INVARIANTS
  TypeOK
  SlotAccounting
  PermitAccounting
  RampNotOverdue
PROPERTIES
  ForegroundFirst
  EveryRequestEnds
CHECK_DEADLOCK FALSE

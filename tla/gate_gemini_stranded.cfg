SPECIFICATION Spec
CONSTANTS
  p1 = p1
  b1 = b1
  b2 = b2
  d1 = d1
  Requests = {p1, b1, b2}
  Bulk = {b1, b2}
  Disclosures = {d1}
  DisclosureOf <- OneDisclosure
  DisclosureLimit = 2
  ConfiguredMax = 2
  HealthyPerStep = 2
  Enabled = TRUE
  Attempts = 4
  Providers = {"gemini"}
INVARIANT
  NeverWedged
CHECK_DEADLOCK FALSE

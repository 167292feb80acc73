CONSTANTS
  Browsers = {b1}
  Pins = {p1, p2}
  Workers = 1
  QueueLimits = {0, 1}
  MaxRequests = 2
  MaxHashes = 2
  MaxId = 1
  Events = {ev1}
  CloudRun = TRUE
  Keep = 1
  MaxFiles = 2
  MaxWrites = 0
  MaxAttempts = 2
SPECIFICATION Spec
INVARIANTS AuthorityFresh PinAsChosen PlacesAccounted
CHECK_DEADLOCK FALSE

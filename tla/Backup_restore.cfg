CONSTANTS
  Browsers = {b1}
  Pins = {p1}
  Workers = 1
  QueueLimits = {0}
  MaxRequests = 1
  MaxHashes = 0
  MaxId = 2
  Events = {ev1}
  CloudRun = FALSE
  Keep = 1
  MaxFiles = 2
  MaxWrites = 3
  MaxAttempts = 2
SPECIFICATION Spec
 
PROPERTIES RestoreFaithful
CHECK_DEADLOCK FALSE

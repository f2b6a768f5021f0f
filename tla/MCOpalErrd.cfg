SPECIFICATION Spec
CONSTANTS
  Elogs <- MCElogs
  Serviceable = {1, 3}
  MaxLogs = 1
  MaxSrvc = 1
  OldFiles = {1}
  MaxTime = 2
  MaxFaults = 2
  MaxCrashes = 1
INVARIANTS
  NoElogLost
PROPERTIES
  DirectoryInOrder
  ImplementsCustody
  EventuallyAcknowledged
CHECK_DEADLOCK FALSE

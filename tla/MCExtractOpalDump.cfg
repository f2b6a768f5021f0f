SPECIFICATION Spec
CONSTANTS
  Dumps <- MCDumps
  Name <- MCName
  Type <- MCType
  MaxDump = 2
  Acknowledge = TRUE
  MaxTime = 2
  MaxFaults = 1
  MaxCrashes = 1
INVARIANTS
  NoDumpLost
  WholeOnceNamed
PROPERTIES
  DirectoryInOrder
  EventuallyAcknowledged
  ImplementsCustody
CHECK_DEADLOCK FALSE

SPECIFICATION PrrnSpec
CONSTANTS
  Std <- MCStd
  MemoryBlocks <- MCLmbs
  Properties <- MCProperties
  Scopes <- MCScopes
  MaxNotices = 3
  MaxTime = 1
  MaxFaults = 1
INVARIANTS
  WholeProperties
  UpdatedThenReassigned
CHECK_DEADLOCK FALSE

CONSTANTS
  Dumps <- MCDumps
  FileNames = {"a"}
  NameOf <- MCNameOf
  Pieces = 3
  MaxManual = 2
SPECIFICATION DumpSpec
INVARIANTS
  ReleasedIsWhole
PROPERTIES
  NamedIsWhole
CHECK_DEADLOCK FALSE

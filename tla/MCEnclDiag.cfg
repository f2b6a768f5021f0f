SPECIFICATION Spec
CONSTANTS
  Enclosures <- MCEnclosures
  Processes = {p, q}
  Options <- MCOptions
  Statuses = {1, 2, 3, 5}
  Changing <- MCChanging
  MaxChanges = 2
  MaxRuns = 3
  MaxFaults = 1
SYMMETRY Symmetry
INVARIANTS
  FaultsTold
  NothingTwice
  FaultsLit
CHECK_DEADLOCK FALSE

CONSTANTS
  Cpus = {1, 9, 17}
  ServersOf <- MCServers
  Trees <- MCTrees
  Lmbs = {32, 33}
  Capacity = 12500
  Losses <- MCLosses
  MinProcessors = 2
  MinCapacity = 60
  MaxEvents = 2
SPECIFICATION Spec
INVARIANTS
  MinimumKept
  AnnouncedAndDone
  RightResource
  ChildrenHeard
CHECK_DEADLOCK FALSE

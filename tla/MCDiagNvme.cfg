SPECIFICATION Spec
CONSTANTS
  Devices <- MCDevices
  Fabric = {"nvme2"}
  Padded = {"nvme1"}
  Processes = {p1, p2}
  Configs <- MCConfigs
  Logs <- MCLogs
  MAX_TIME = 0
  MaxRuns = 2
  MaxChanges = 1
  MaxRepairs = 1
  MaxFaults = 1
INVARIANTS
  OneOpenEvent
  FaultReported
  ReadingsKept
CHECK_DEADLOCK FALSE

SPECIFICATION Spec
CONSTANTS
  Events <- MCEvents
  Sensors <- MCSensors
  MaxEvents = 2
  MaxRestarts = 1
  WindowTicks = 4
  ScriptTicks = 2
  MaxLate = 1
INVARIANTS
  TypeOK
  Monitored
PROPERTIES
  ScriptsObey
  TimerSettles
CHECK_DEADLOCK FALSE

SPECIFICATION Spec
CONSTANTS
  Kinds = {"serviceable", "short", "garbled"}
  Wide = TRUE
  MaxRaised = 2
  MaxCrashes = 2
  MaxEdits = 1
INVARIANTS
  AccountedFor
  LifeInOrder
PROPERTIES
  ConfigSteady
  EventuallyHandled
CHECK_DEADLOCK FALSE

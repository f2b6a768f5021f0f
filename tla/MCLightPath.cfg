SPECIFICATION Spec
CONSTANTS
  Contents <- MCContents
  Leds <- MCLeds
  Attn <- MCAttn
  Modes = {"lightpath", "guiding"}
  MaxEvents = 2
  MaxRepairs = 2
  MaxFaults = 1
INVARIANTS
  OpenIsLit
  LitIsOpen
CHECK_DEADLOCK FALSE

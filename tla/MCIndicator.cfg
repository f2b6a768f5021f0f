SPECIFICATION IndicatorSpec
CONSTANTS
  Procs = {p1, p2}
  NoDev = "none"
  Commands <- c_Commands
  RtasFirst <- c_RtasFirst
  RtasSpare = "RB"
  Chunk = 1
  OpalAttn <- c_OpalAttn
  OpalLeds <- c_OpalLeds
  Enclosures <- c_Encl
  Blocks <- c_Blocks
  AtaIndex <- c_Ata
  LocOf <- c_LocOf
  MaxPlug = 1
  MaxFail = 1
SYMMETRY Symmetry
INVARIANTS
  EntriesSound
PROPERTIES
  DoneAsAsked
  OthersUntouched
CHECK_DEADLOCK FALSE

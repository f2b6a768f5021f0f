------------------------------- MODULE MCEpow -------------------------------
(* Instances of Epow for TLC: the events that tell the branches apart.     *)
EXTENDS Epow

Ev(code, flags, modifier) ==
  [extended |-> TRUE, section |-> TRUE, v6 |-> modifier # "none",
   code |-> code, flags |-> flags, modifier |-> modifier]

ShortEvent     == [NoEvent EXCEPT !.code = SYSTEM_SHUTDOWN]
WarnCooling    == Ev(WARN_COOLING, {}, "none")
FanShutdown    == Ev(SYSTEM_SHUTDOWN, {"fan"}, "none")
BatteryBackup  == Ev(SYSTEM_SHUTDOWN, {}, "utility_power_loss")
NormalShutdown == Ev(SYSTEM_SHUTDOWN, {}, "normal_shutdown")
ThermalHalt    == Ev(SYSTEM_HALT, {"temp"}, "none")
PowerLoss      == Ev(POWER_OFF, {"power_fault", "power_loss"}, "none")
Reset          == Ev(RESET, {}, "none")

MCEvents == {ShortEvent, WarnCooling, BatteryBackup, NormalShutdown, ThermalHalt,
             PowerLoss, Reset}
RaceEvents == {BatteryBackup}
MCSensors == {Unreadable, RESET, SYSTEM_SHUTDOWN, SYSTEM_HALT, POWER_OFF}
=============================================================================

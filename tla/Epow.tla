-------------------------------- MODULE Epow --------------------------------
(***************************************************************************)
(* Environmental and power warnings (EPOW) in rtas_errd.                   *)
(*                                                                         *)
(* Three kinds of actor share the EPOW sensor, the status file             *)
(* /var/log/epow_status and the machine's fate:                            *)
(*                                                                         *)
(*  - the daemon's main thread handles one EPOW event at a time: it reads  *)
(*    the sensor and decides a status (parse_epow), writes it to the       *)
(*    status file and forks a script for it (check_epow);                  *)
(*  - the SIGALRM handler (epow_timer_handler) interrupts the main thread  *)
(*    between any two of its steps, every five seconds while the interval  *)
(*    timer runs;                                                          *)
(*  - the scripts (rc.powerfail), one process per event with a status      *)
(*    above 0, read the status file and halt or shut down the machine.     *)
(*                                                                         *)
(* One Tick is five seconds: the period of the interval timer and of a     *)
(* script's polling.  Everything else takes place between two ticks.       *)
(***************************************************************************)
EXTENDS Integers, Sequences

CONSTANTS
  Events,       \* the EPOW events the kernel may deliver
  Sensors,      \* the values the EPOW sensor takes in the model
  MaxEvents,    \* bound: events handled, hence scripts forked
  MaxRestarts,  \* bound: restarts of the daemon
  WindowTicks,  \* ticks of monitoring after a shutdown event (600 s: 120)
  ScriptTicks,  \* polls of a script before it shuts down (480 s: 96)
  MaxLate       \* ticks that may pass while one event is being handled

-----------------------------------------------------------------------------
(* The EPOW action codes, which are also the sensor's values, and the      *)
(* sensor that cannot be read.                                             *)
RESET           == 0
WARN_COOLING    == 1
WARN_POWER      == 2
SYSTEM_SHUTDOWN == 3
SYSTEM_HALT     == 4
MAIN_ENCLOSURE  == 5
POWER_OFF       == 7
Unreadable      == -1

SensorValues == {Unreadable, RESET, WARN_COOLING, WARN_POWER,
                 SYSTEM_SHUTDOWN, SYSTEM_HALT, MAIN_ENCLOSURE, POWER_OFF}

(* What parse_epow looks at in an event: whether it has an extended part   *)
(* and an EPOW section, its version, its action code, the bits of the      *)
(* section and the event modifier.                                         *)
Flags     == {"fan", "temp", "power_fault", "power_loss", "power_supply",
              "power_switch"}
Modifiers == {"none", "normal_shutdown", "utility_power_loss",
              "crit_func_loss", "ambient_temp"}
EventSet  == [extended : BOOLEAN, section : BOOLEAN, v6 : BOOLEAN,
              code : 0 .. 15, flags : SUBSET Flags, modifier : Modifiers]

Statuses == 0 .. 11
Scripts  == 1 .. MaxEvents

ASSUME ConstantsAssumption ==
  /\ Events \subseteq EventSet
  /\ Sensors \subseteq SensorValues
  /\ RESET \in Sensors
  /\ MaxEvents \in Nat \ {0}
  /\ MaxRestarts \in Nat
  /\ ScriptTicks \in Nat \ {0}
  /\ MaxLate \in Nat
  /\ WindowTicks \in Nat
  /\ WindowTicks > ScriptTicks + MaxLate

-----------------------------------------------------------------------------
VARIABLES
  sensor,        \* the EPOW sensor of the platform
  pc,            \* the main thread, between two of its steps
  event,         \* the event it handles
  status,        \* current_status of check_epow
  timerOn,       \* the interval timer is armed
  alarm,         \* SIGALRM is pending
  timeRemaining, \* time_remaining, in ticks
  file,          \* the digits in the status file
  offset,        \* the daemon's offset in the status file
  script,        \* the rc.powerfail processes
  down,          \* how the machine is being taken down: "no" while it is not
  autoPowerOn,   \* /sys/power/auto_poweron has been set
  handled,       \* events handled so far
  restarts,      \* restarts so far
  (* Kept for the properties only: *)
  late,          \* ticks since the event in hand was received
  calm,          \* ticks (up to CalmTicks) the sensor has been below shutdown
  raced,         \* the main thread's updates an alarm has stopped the timer in:
                 \* of time_remaining ("rearm"), of the status file ("write")
  verdicts,      \* the statuses decided for events so far
  severe         \* the sensor has called for a shutdown or worse

mainVars   == <<pc, event, status, handled, late>>
timerVars  == <<timerOn, timeRemaining>>
statusFile == <<file, offset>>
machine    == <<down, autoPowerOn>>
history    == <<raced, verdicts>>
platform   == <<sensor, calm, severe>>
vars == <<mainVars, timerVars, alarm, statusFile, script, machine, restarts,
          history, platform>>

MainPoints == {"idle", "test", "arm", "extend", "seek", "write", "fork"}

NoEvent == [extended |-> FALSE, section |-> FALSE, v6 |-> FALSE, code |-> RESET,
            flags |-> {}, modifier |-> "none"]

(* A script: where it is, the ticks it still sleeps, its polls left, and   *)
(* what has lowered the status since it was decided to fork it.            *)
ScriptPoints == {"none", "start", "waiting", "halt", "shutdown", "truncate",
                 "echo", "normal", "cancelled", "undefined", "ended"}
Lowerings    == {"event", "timer", "echo"}
ScriptStates ==
  {r \in [pc : ScriptPoints, sleep : 0 .. 2, left : 0 .. ScriptTicks,
          lowered : SUBSET Lowerings] : r.pc = "waiting" => r.left > 0}
NoScript     == [pc |-> "none", sleep |-> 0, left |-> 0, lowered |-> {}]

Init ==
  /\ sensor \in Sensors
  /\ pc = "idle" /\ event = NoEvent /\ status = 0
  /\ timerOn = FALSE /\ alarm = FALSE /\ timeRemaining = 0
  /\ file = <<0>> /\ offset = 1
  /\ script = [s \in Scripts |-> NoScript]
  /\ down = "no" /\ autoPowerOn = FALSE
  /\ handled = 0 /\ restarts = 0 /\ late = 0
  /\ calm = 0 /\ raced = {} /\ verdicts = {}
  /\ severe = (sensor >= SYSTEM_SHUTDOWN)

-----------------------------------------------------------------------------
(* The decision of parse_epow.                                             *)

(* A shutdown event the sensor confirms is the one case that has effects   *)
(* besides its status.                                                     *)
BeginsShutdown(e, state) ==
  /\ state = SYSTEM_SHUTDOWN
  /\ e.extended /\ e.section /\ e.code = SYSTEM_SHUTDOWN

ShutdownStatus(e) ==
  IF "fan" \in e.flags                             THEN 6
  ELSE IF "power_fault" \in e.flags                THEN 7
  ELSE IF e.modifier = "normal_shutdown"           THEN 10
  ELSE IF e.modifier = "crit_func_loss"            THEN 11
  ELSE IF e.modifier = "ambient_temp"              THEN 4
  ELSE 7

HaltStatus(e) == IF ~e.v6 /\ "fan" \in e.flags THEN 5 ELSE 4

PowerOffStatus(e) ==
  IF e.v6 \/ {"power_fault", "power_loss"} \subseteq e.flags
            \/ "power_fault" \notin e.flags        THEN 1
  ELSE IF "power_supply" \in e.flags               THEN 2
  ELSE IF "power_switch" \in e.flags               THEN 3
  ELSE 2


(* The status of every other event, given the sensor's value.              *)
OtherStatus(e, state) ==
  CASE state = Unreadable        -> 0
    [] state # Unreadable /\ ~e.extended
                                 -> IF state > 0 THEN 10 ELSE 0
    [] state # Unreadable /\ e.extended /\ ~e.section
                                 -> 0
    [] OTHER ->
       CASE e.code = WARN_COOLING -> 8
         [] e.code = WARN_POWER   -> 9
         [] e.code = SYSTEM_HALT /\ state = SYSTEM_HALT
                                  -> HaltStatus(e)
         [] e.code \in {MAIN_ENCLOSURE, POWER_OFF}
            /\ state \in {MAIN_ENCLOSURE, POWER_OFF}
                                  -> PowerOffStatus(e)
         [] OTHER                 -> 0

(* The statuses for which nothing is wrong any more, or that a script of   *)
(* their own takes care of: a waiting script gives up on them.             *)
Improved == {0, 8, 9, 10, 11}

(* Ghost: the status is lowered by `who`, for the scripts of the events up *)
(* to n.                                                                   *)
Lower(n, who) ==
  [s \in Scripts |-> IF s > n THEN script[s]
                     ELSE [script[s] EXCEPT !.lowered = @ \union {who}]]

(* The status of event n is decided.                                       *)
Decide(n, st) ==
  /\ status' = st
  /\ verdicts' = verdicts \union {st}
  /\ script' = IF st \in Improved THEN Lower(n - 1, "event") ELSE script

-----------------------------------------------------------------------------
(* The status file.  A write replaces the bytes it covers and keeps what   *)
(* lies beyond them: the daemon truncates the file when it opens it, never *)
(* when it updates it.                                                     *)

Larger(m, n) == IF m > n THEN m ELSE n

Digits(st) == IF st < 10 THEN <<st>> ELSE <<st \div 10, st % 10>>

NUL   == -1           \* what a write beyond the end leaves in the gap
Bytes == {NUL} \union 0 .. 9

Overwrite(content, at, digits) ==
  [i \in 1 .. Larger(Len(content), at + Len(digits)) |->
    IF i \in at + 1 .. at + Len(digits) THEN digits[i - at]
    ELSE IF i <= Len(content) THEN content[i]
    ELSE NUL]

(* A text is what `cat` in backquotes makes of a content: its bytes, in     *)
(* their order, without the NULs.                                          *)
Shows(content, text) ==
  \E at \in [1 .. Len(text) -> DOMAIN content] :
    /\ \A k \in 1 .. Len(text) : text[k] = content[at[k]]
    /\ \A k, l \in 1 .. Len(text) : k < l => at[k] < at[l]
    /\ {at[k] : k \in 1 .. Len(text)} = {i \in DOMAIN content : content[i] # NUL}

(* The variable status of a script.                                        *)
Undefined == -1
StatusRead(content) ==
  IF \E st \in Statuses : Shows(content, Digits(st))
  THEN CHOOSE st \in Statuses : Shows(content, Digits(st))
  ELSE Undefined

(* `[ $status -eq 7 ]` compares numbers, so leading zeros do not matter.   *)
IsSeven(content) ==
  /\ content # <<>>
  /\ content[Len(content)] = 7
  /\ \A i \in 1 .. Len(content) - 1 : content[i] \in {NUL, 0}

-----------------------------------------------------------------------------
(* The main thread.                                                        *)

(* An EPOW event arrives; parse_epow reads the sensor first, and decides   *)
(* at once unless a shutdown begins.                                       *)
Receive(e) ==
  /\ down = "no" /\ pc = "idle" /\ handled < MaxEvents
  /\ handled' = handled + 1 /\ event' = e /\ late' = 0
  /\ \/ /\ BeginsShutdown(e, sensor)
        /\ pc' = "test"
        /\ UNCHANGED <<status, verdicts, script>>
     \/ /\ ~BeginsShutdown(e, sensor)
        /\ pc' = "seek"
        /\ Decide(handled + 1, OtherStatus(e, sensor))
  /\ UNCHANGED <<timerVars, alarm, statusFile, machine, restarts, raced, platform>>

TestTimerInverted ==
  /\ down = "no" /\ pc = "test"
  /\ pc' = IF timeRemaining > 0 THEN "arm" ELSE "extend"
  /\ UNCHANGED <<event, status, handled, late, timerVars, alarm, statusFile,
                 script, machine, restarts, history, platform>>

(* if (time_remaining <= 0): start the interval timer only when none runs. *)
TestTimer ==
  /\ down = "no" /\ pc = "test"
  /\ pc' = IF timeRemaining <= 0 THEN "arm" ELSE "extend"
  /\ UNCHANGED <<event, status, handled, late, timerVars, alarm, statusFile,
                 script, machine, restarts, history, platform>>

ArmTimer ==
  /\ down = "no" /\ pc = "arm"
  /\ pc' = "extend" /\ timerOn' = TRUE
  /\ UNCHANGED <<event, status, handled, late, timeRemaining, alarm, statusFile,
                 script, machine, restarts, history, platform>>

(* time_remaining = 600, and parse_epow returns the status.                *)
Extend ==
  /\ down = "no" /\ pc = "extend"
  /\ pc' = "seek" /\ timeRemaining' = WindowTicks
  /\ Decide(handled, ShutdownStatus(event))
  /\ UNCHANGED <<event, handled, late, timerOn, alarm, statusFile, machine,
                 restarts, raced, platform>>

SeekForgotten ==
  /\ down = "no" /\ pc = "seek"
  /\ pc' = "write"
  /\ UNCHANGED <<event, status, handled, late, timerVars, alarm, statusFile, script,
                 machine, restarts, history, platform>>

(* update_epow_status_file: an lseek to the start and a write.             *)
SeekStatus ==
  /\ down = "no" /\ pc = "seek"
  /\ pc' = "write" /\ offset' = 0
  /\ UNCHANGED <<event, status, handled, late, timerVars, alarm, file, script,
                 machine, restarts, history, platform>>

WriteStatus ==
  /\ down = "no" /\ pc = "write"
  /\ file' = Overwrite(file, offset, Digits(status))
  /\ offset' = offset + Len(Digits(status))
  /\ pc' = IF status > 0 THEN "fork" ELSE "idle"
  /\ event' = NoEvent
  /\ UNCHANGED <<status, handled, late, timerVars, alarm, script, machine,
                 restarts, history, platform>>

(* The script of this event is started, unless fork fails.  The locals of  *)
(* the handling of the event, dead from here on, are reset.                *)
Fork ==
  /\ down = "no" /\ pc = "fork"
  /\ pc' = "idle" /\ status' = 0
  /\ \/ script' = [script EXCEPT ![handled].pc = "start"]
     \/ UNCHANGED script
  /\ UNCHANGED <<event, handled, late, timerVars, alarm, statusFile,
                 machine, restarts, history, platform>>

(* The daemon ends, by a crash or by one of its exits, and systemd starts  *)
(* it again (Restart=always) after killing what the old one had forked.    *)
(* The new one opens the status file with O_TRUNC and writes 0.            *)
Restart ==
  /\ down = "no" /\ restarts < MaxRestarts
  /\ restarts' = restarts + 1
  /\ pc' = "idle" /\ event' = NoEvent /\ status' = 0 /\ late' = 0
  /\ timerOn' = FALSE /\ alarm' = FALSE /\ timeRemaining' = 0
  /\ file' = <<0>> /\ offset' = 1
  /\ script' = [s \in Scripts |->
                 IF script[s].pc = "none" THEN NoScript
                 ELSE [NoScript EXCEPT !.pc = "ended"]]
  /\ raced' = {}
  /\ UNCHANGED <<handled, machine, verdicts, platform>>

-----------------------------------------------------------------------------
(* epow_timer_handler.                                                     *)

(* Ghost: what the main thread does next undoes the stopping of the timer, *)
(* or hides the status that the handler writes, from what it saw before.   *)
Rearming == IF pc = "extend" THEN {"rearm"} ELSE {}
Hiding   == IF pc \in {"extend", "seek", "write"} THEN {"write"} ELSE {}

TimerExpired ==
  /\ timeRemaining <= 0
  /\ timerOn' = FALSE
  /\ raced' = raced \union Rearming
  /\ UNCHANGED <<timeRemaining, statusFile, script>>

TimerRecoveredUntold ==
  /\ timeRemaining > 0
  /\ sensor \in RESET .. SYSTEM_SHUTDOWN - 1
  /\ timerOn' = FALSE /\ timeRemaining' = 0
  /\ raced' = raced \union Rearming \union Hiding
  /\ UNCHANGED <<statusFile, script>>

TimerRecovered ==
  /\ timeRemaining > 0
  /\ sensor \in RESET .. SYSTEM_SHUTDOWN - 1
  /\ timerOn' = FALSE /\ timeRemaining' = 0
  /\ LET st == CASE sensor = RESET -> 0
                 [] sensor = WARN_COOLING -> 8
                 [] sensor = WARN_POWER -> 9
     IN  /\ file' = Overwrite(file, 0, Digits(st))
         /\ offset' = Len(Digits(st))
  /\ script' = Lower(handled, "timer")
  /\ raced' = raced \union Rearming \union Hiding

TimerNotCounting ==
  /\ timeRemaining > 0
  /\ sensor \notin RESET .. SYSTEM_SHUTDOWN - 1
  /\ UNCHANGED <<timeRemaining, timerOn, statusFile, script, raced>>

TimerContinues ==
  /\ timeRemaining > 0
  /\ sensor \notin RESET .. SYSTEM_SHUTDOWN - 1
  /\ timeRemaining' = timeRemaining - 1
  /\ UNCHANGED <<timerOn, statusFile, script, raced>>

epow_timer_handler ==
  /\ down = "no" /\ alarm
  /\ alarm' = FALSE
  /\ TimerExpired \/ TimerRecovered \/ TimerContinues
  /\ UNCHANGED <<mainVars, machine, restarts, verdicts, platform>>

-----------------------------------------------------------------------------
(* The scripts.                                                            *)

At(s, p)   == down = "no" /\ script[s].pc = p
Goto(s, p) == script' = [script EXCEPT ![s].pc = p]
ScriptOnly == UNCHANGED <<mainVars, timerVars, alarm, offset, restarts, history,
                          platform>>

(* The first get_status, and the branch it selects.  long_warning sleeps   *)
(* six seconds before its first poll, which is one tick or two.            *)
ReadStatus(s) ==
  /\ At(s, "start")
  /\ LET st == StatusRead(file) IN
       \/ st = 0               /\ Goto(s, "normal")
       \/ st \in 1 .. 3        /\ Goto(s, "halt")
       \/ st \in {4, 5, 10, 11} /\ Goto(s, "shutdown")
       \/ st \in {6, 7}
          /\ \E d \in 1 .. 2 : script' = [script EXCEPT
               ![s].pc = "waiting", ![s].sleep = d, ![s].left = ScriptTicks]
       \/ st \in {8, 9}        /\ Goto(s, "truncate")
       \/ st = Undefined       /\ Goto(s, "undefined")
  /\ UNCHANGED <<file, machine>> /\ ScriptOnly

(* One round of long_warning: the time left is counted down, the status    *)
(* read again; an improvement ends the script, anything else lets it go on *)
(* until its time is up.                                                   *)
Poll(s) ==
  /\ At(s, "waiting") /\ script[s].sleep = 0
  /\ LET st == StatusRead(file) IN
       \/ st \in Improved      /\ Goto(s, "cancelled")
       \/ st = Undefined       /\ Goto(s, "undefined")
       \/ st \in 1 .. 7
          /\ script' = [script EXCEPT
               ![s].left = @ - 1, ![s].sleep = 1,
               ![s].pc = IF script[s].left > 1 THEN "waiting" ELSE "shutdown"]
  /\ UNCHANGED <<file, machine>> /\ ScriptOnly

(* system_halt: halt -fn succeeds or fails.                                *)
Halt(s) ==
  /\ At(s, "halt") /\ Goto(s, "ended")
  /\ down' \in {"halt", "no"}
  /\ UNCHANGED <<file, autoPowerOn>> /\ ScriptOnly

(* system_shutdown: check_poweroff_token reads the status once more, then  *)
(* shutdown -h now succeeds or fails.                                      *)
Shutdown(s) ==
  /\ At(s, "shutdown") /\ Goto(s, "ended")
  /\ autoPowerOn' = (autoPowerOn \/ IsSeven(file))
  /\ down' \in {"shutdown", "no"}
  /\ UNCHANGED file /\ ScriptOnly

(* echo -n "0" > epow_status: the shell truncates the file, then writes.   *)
Truncate(s) ==
  /\ At(s, "truncate")
  /\ file' = <<>>
  /\ script' = [Lower(handled, "echo") EXCEPT ![s].pc = "echo"]
  /\ UNCHANGED machine /\ ScriptOnly

Echo(s) ==
  /\ At(s, "echo")
  /\ file' = Overwrite(file, 0, <<0>>)
  /\ script' = [Lower(handled, "echo") EXCEPT ![s].pc = "ended"]
  /\ UNCHANGED machine /\ ScriptOnly

ScriptStep(s) == ReadStatus(s) \/ Poll(s) \/ Halt(s) \/ Shutdown(s)
                   \/ Truncate(s) \/ Echo(s)

-----------------------------------------------------------------------------
(* The platform and time.                                                  *)

Calm(value) == value \in RESET .. SYSTEM_SHUTDOWN - 1

SensorChanges ==
  /\ down = "no"
  /\ \E v \in Sensors \ {sensor} :
       /\ sensor' = v
       /\ calm' = IF Calm(v) THEN calm ELSE 0
       /\ severe' = (severe \/ v >= SYSTEM_SHUTDOWN)
  /\ UNCHANGED <<mainVars, timerVars, alarm, statusFile, script, machine,
                 restarts, history>>

Sleeping(s) == script[s].pc = "waiting" /\ script[s].sleep > 0
Over(s)     == script[s].pc \in {"none", "normal", "cancelled", "undefined", "ended"}

(* The ticks within which a recovery is certain to be known: one for the   *)
(* alarm, one for the script's poll, and those an event may take.          *)
CalmTicks == MaxLate + 2

(* Five seconds pass.  By then a pending alarm has been handled and every  *)
(* script that was runnable has run; an event may take MaxLate ticks.      *)
Tick ==
  /\ down = "no" /\ ~alarm
  /\ \A s \in Scripts : Sleeping(s) \/ Over(s)
  /\ pc = "idle" \/ late < MaxLate
  /\ late' = IF pc = "idle" THEN 0 ELSE late + 1
  /\ alarm' = timerOn
  /\ script' = [s \in Scripts |->
                 IF Sleeping(s) THEN [script[s] EXCEPT !.sleep = @ - 1]
                 ELSE script[s]]
  /\ calm' = IF ~Calm(sensor) THEN 0
             ELSE IF calm < CalmTicks THEN calm + 1 ELSE CalmTicks
  /\ UNCHANGED <<pc, event, status, handled, timerVars, statusFile, machine,
                 restarts, history, sensor, severe>>

-----------------------------------------------------------------------------
MainStep == (\E e \in Events : Receive(e)) \/ TestTimer \/ ArmTimer \/ Extend
              \/ SeekStatus \/ WriteStatus \/ Fork

Next ==
  \/ \E e \in Events : Receive(e)
  \/ TestTimer \/ ArmTimer \/ Extend \/ SeekStatus \/ WriteStatus \/ Fork
  \/ Restart
  \/ epow_timer_handler
  \/ \E s \in Scripts : \/ ReadStatus(s) \/ Poll(s) \/ Halt(s) \/ Shutdown(s)
                        \/ Truncate(s) \/ Echo(s)
  \/ SensorChanges \/ Tick

(* The daemon and the scripts are scheduled, signals are delivered and     *)
(* time passes; nothing obliges the platform to send events.               *)
Fairness ==
  /\ WF_vars(TestTimer \/ ArmTimer \/ Extend \/ SeekStatus \/ WriteStatus \/ Fork)
  /\ WF_vars(epow_timer_handler)
  /\ \A s \in Scripts : WF_vars(ScriptStep(s))
  /\ WF_vars(Tick)

Spec == Init /\ [][Next]_vars /\ Fairness

-----------------------------------------------------------------------------
(* Properties.                                                             *)

MainType ==
  /\ pc \in MainPoints /\ event \in Events \union {NoEvent}
  /\ status \in Statuses /\ handled \in 0 .. MaxEvents /\ late \in 0 .. MaxLate
TimerType ==
  /\ timerOn \in BOOLEAN /\ alarm \in BOOLEAN
  /\ timeRemaining \in 0 .. WindowTicks
FileType == file \in Seq(Bytes) /\ Len(file) <= 3 /\ offset \in 0 .. 3
ScriptType == script \in [Scripts -> ScriptStates]
MachineType ==
  /\ down \in {"no", "halt", "shutdown"} /\ autoPowerOn \in BOOLEAN
  /\ restarts \in 0 .. MaxRestarts
HistoryType == raced \subseteq {"rearm", "write"} /\ verdicts \subseteq Statuses
PlatformType ==
  sensor \in Sensors /\ calm \in 0 .. CalmTicks /\ severe \in BOOLEAN

(* Every variable has its type: in particular time_remaining stays within  *)
(* its window and the status file holds at most three digits.              *)
TypeOK ==
  /\ MainType /\ TimerType /\ FileType /\ ScriptType /\ MachineType
  /\ HistoryType /\ PlatformType

(* While time remains, the interval timer runs: the only way to lose it is *)
(* an alarm between the main thread's test of time_remaining and its       *)
(* assignment (epow.c, parse_epow against epow_timer_handler).             *)
Monitored ==
  timeRemaining > 0 => timerOn \/ "rearm" \in raced

(* The dual of the above: with the machine's time over, no timer is left   *)
(* running for ever.                                                       *)
TimerSettles == timerOn ~> (~timerOn \/ down # "no")

(* The machine goes down only for what was decided about an event: it is   *)
(* halted only after a status that asks for a halt, shut down only after   *)
(* one that asks for it; such a status needs a sensor that called for a    *)
(* shutdown, except for an event without extended data; and automatic      *)
(* power-on is requested only after a switch to battery backup.            *)
TakenDownOnlyIfCalledFor ==
  /\ down = "halt" => verdicts \cap 1 .. 3 # {}
  /\ down = "shutdown" => verdicts \cap ({1, 10, 11} \union 4 .. 7) # {}
  /\ verdicts \cap (1 .. 7 \union {11}) # {} => severe
  /\ autoPowerOn => 7 \in verdicts

(* A script drops its event, by cancelling, by finding a normal or an      *)
(* undefined state, only if the status was lowered since the event's       *)
(* status was decided: by a later event, by the timer, or by the echo of   *)
(* an older script.  The exceptions are a status file left with two digits *)
(* and an alarm amid the update.                                           *)
GivesUpOnlyIfLowered ==
  \A s \in Scripts :
    script[s].pc \in {"normal", "cancelled", "undefined"} =>
      \/ script[s].lowered # {}
      \/ script[s].pc = "undefined" /\ (verdicts \cap {10, 11} # {} \/ "write" \in raced)

(* The time of the script s is up and the status is unchanged: long_warning *)
(* begins the shutdown.                                                     *)
TimeUp(s) == /\ script[s].pc = "waiting" /\ script'[s].pc = "shutdown"
             /\ StatusRead(file) \in {6, 7}

(* No script begins the shutdown when its time is up if the sensor has     *)
(* been below shutdown for CalmTicks: the timer has seen it and the script *)
(* has been told (rc.powerfail, long_warning).  The exception is an alarm  *)
(* that hits the main thread between its decision and its write.           *)
RecoveredNotShutDown ==
  [][\A s \in Scripts : TimeUp(s) => calm < CalmTicks \/ raced # {}]_vars

(* The scripts do to the machine what was decided about an event, unless   *)
(* that was revoked, and not once it has been: no event is dropped, and no *)
(* machine taken down, for a reason of another kind.                       *)
ScriptsObey ==
  /\ [](TakenDownOnlyIfCalledFor /\ GivesUpOnlyIfLowered)
  /\ RecoveredNotShutDown

(* The same without the exception: what the comments of rc.powerfail and   *)
(* of parse_epow promise.                                                  *)
RecoveryStopsShutdown ==
  [][\A s \in Scripts : TimeUp(s) => calm < CalmTicks]_vars
=============================================================================

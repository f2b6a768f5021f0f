---------------------------- MODULE Epow_proofs ----------------------------
(***************************************************************************)
(* Proofs about Epow: its variables keep their types, and the interval     *)
(* timer runs while time remains.                                          *)
(***************************************************************************)
EXTENDS Epow, TLAPS

(* What TypeOK needs besides itself: the daemon writes at the start of the *)
(* status file, or one digit further when an alarm wrote in between.       *)
OffsetInv == pc = "write" => offset <= 1

(* The inductive invariant for Monitored: the main thread, once it has     *)
(* found time remaining or has armed the timer, is about to extend the     *)
(* time of a timer that runs.                                              *)
TimerInv == timeRemaining > 0 \/ pc = "extend" => timerOn \/ "rearm" \in raced

IInv == TypeOK /\ OffsetInv /\ TimerInv

-----------------------------------------------------------------------------
(* Lemmas about the status file.                                           *)

(* A status is written with one digit or two.                              *)
LEMMA DigitsType ==
  ASSUME NEW st \in Statuses
  PROVE  Digits(st) \in Seq(Bytes) /\ Len(Digits(st)) \in 1 .. 2
<1> USE DEF Bytes, NUL
<1>1. CASE st < 10
  <2>1. st \in 0 .. 9
    BY <1>1 DEF Statuses
  <2>2. Digits(st) = <<st>>
    BY <1>1 DEF Digits
  <2> QED BY <2>1, <2>2
<1>2. CASE ~(st < 10)
  <2>1. st \div 10 = 1 /\ st % 10 \in 0 .. 1
    BY <1>2 DEF Statuses
  <2>2. Digits(st) = <<st \div 10, st % 10>>
    BY <1>2 DEF Digits
  <2>3. <<st \div 10, st % 10>> \in Seq(Bytes)
    BY <2>1
  <2> QED BY <2>2, <2>3
<1> QED BY <1>1, <1>2

(* A write of digits at an offset makes the file at most as long as its    *)
(* old content, or as the end of what is written.                          *)
LEMMA OverwriteType ==
  ASSUME NEW content \in Seq(Bytes), NEW at \in Nat, NEW digits \in Seq(Bytes),
         NEW bound \in Nat, Len(content) <= bound, at + Len(digits) <= bound
  PROVE  /\ Overwrite(content, at, digits) \in Seq(Bytes)
         /\ Len(Overwrite(content, at, digits)) <= bound
<1> DEFINE n == Larger(Len(content), at + Len(digits))
<1>1. n \in Nat /\ n <= bound
  BY DEF Larger
<1>2. ASSUME NEW i \in 1 .. n
      PROVE  (IF i \in at + 1 .. at + Len(digits) THEN digits[i - at]
              ELSE IF i <= Len(content) THEN content[i] ELSE NUL) \in Bytes
  <2>1. CASE i \in at + 1 .. at + Len(digits)
    <3>1. i - at \in 1 .. Len(digits)
      BY <2>1
    <3> QED BY <2>1, <3>1
  <2>2. CASE i \notin at + 1 .. at + Len(digits)
    BY <2>2, <1>1 DEF Bytes
  <2> QED BY <2>1, <2>2
<1>3. Overwrite(content, at, digits) \in [1 .. n -> Bytes]
  BY <1>2 DEF Overwrite
<1> HIDE DEF n
<1> QED BY <1>1, <1>3

(* The digit of a status below 10, written at the start.                   *)
LEMMA OverwriteDigitType ==
  ASSUME NEW content \in Seq(Bytes), Len(content) <= 3, NEW b \in Bytes
  PROVE  /\ Overwrite(content, 0, <<b>>) \in Seq(Bytes)
         /\ Len(Overwrite(content, 0, <<b>>)) <= 3
<1> DEFINE d == <<b>>
<1>1. d \in Seq(Bytes) /\ 0 + Len(d) <= 3 /\ 3 \in Nat /\ 0 \in Nat
  OBVIOUS
<1> HIDE DEF d
<1>2. Overwrite(content, 0, d) \in Seq(Bytes) /\ Len(Overwrite(content, 0, d)) <= 3
  BY <1>1, OverwriteType
<1> QED BY <1>2 DEF d

(* The statuses that an event may be given.                                *)
LEMMA StatusType ==
  ASSUME NEW e, NEW state \in SensorValues
  PROVE  ShutdownStatus(e) \in Statuses /\ OtherStatus(e, state) \in Statuses
<1>1. ShutdownStatus(e) \in Statuses
  BY DEF ShutdownStatus, Statuses
<1>2. HaltStatus(e) \in Statuses /\ PowerOffStatus(e) \in Statuses
  BY DEF HaltStatus, PowerOffStatus, Statuses
<1>3. CASE state = Unreadable \/ ~e.extended \/ ~e.section
  BY <1>1, <1>3 DEF OtherStatus, Statuses
<1>4. CASE ~(state = Unreadable \/ ~e.extended \/ ~e.section)
  BY <1>1, <1>2, <1>4 DEF OtherStatus, Statuses
<1> QED BY <1>3, <1>4

(* Lowering keeps the scripts' type and moves none of them.                *)
LEMMA LowerType ==
  ASSUME script \in [Scripts -> ScriptStates], NEW n \in Nat, NEW who \in Lowerings
  PROVE  Lower(n, who) \in [Scripts -> ScriptStates]
<1>1. ASSUME NEW s \in Scripts
      PROVE  [script[s] EXCEPT !.lowered = @ \union {who}] \in ScriptStates
  BY DEF ScriptStates
<1> QED BY <1>1 DEF Lower

-----------------------------------------------------------------------------
(* The invariant is established and preserved.                             *)

LEMMA InitInv == Init => IInv
<1> SUFFICES ASSUME Init PROVE IInv
  OBVIOUS
<1> USE ConstantsAssumption
<1>1. FileType
  BY DEF Init, Bytes, FileType
<1>2. ScriptType
  BY DEF Init, NoScript, ScriptStates, ScriptPoints, Lowerings, ScriptType
<1>3. severe \in BOOLEAN
  BY DEF Init
<1>4. PlatformType
  BY <1>3 DEF Init, PlatformType, CalmTicks
<1>5. MainType
  BY DEF Init, MainType, MainPoints, Statuses
<1>6. timerOn \in BOOLEAN /\ alarm \in BOOLEAN /\ autoPowerOn \in BOOLEAN
  BY DEF Init
<1>7. TimerType /\ MachineType /\ HistoryType
  BY <1>6 DEF Init, TimerType, MachineType, HistoryType
<1>8. OffsetInv /\ TimerInv
  BY DEF Init, OffsetInv, TimerInv
<1> QED BY <1>1, <1>2, <1>4, <1>5, <1>7, <1>8 DEF IInv, TypeOK

(* The main thread.                                                        *)
LEMMA ReceiveInv ==
  ASSUME IInv, NEW e \in Events, Receive(e)
  PROVE  IInv'
<1> USE ConstantsAssumption DEF IInv, TypeOK
<1>1. MainType' /\ ScriptType' /\ HistoryType'
  <2>1. CASE BeginsShutdown(e, sensor)
    BY <2>1 DEF Receive, MainType, MainPoints, ScriptType, HistoryType
  <2>2. CASE ~BeginsShutdown(e, sensor)
    <3>1. OtherStatus(e, sensor) \in Statuses
      BY StatusType DEF PlatformType
    <3>2. Decide(handled + 1, OtherStatus(e, sensor)) /\ pc' = "seek"
      BY <2>2 DEF Receive
    <3>3. ScriptType'
      BY <3>2, LowerType DEF Decide, ScriptType, MainType, Lowerings
    <3>4. MainType' /\ HistoryType'
      BY <3>1, <3>2 DEF Receive, Decide, MainType, MainPoints, HistoryType
    <3> QED BY <3>3, <3>4
  <2> QED BY <2>1, <2>2
<1>2. UNCHANGED <<timerVars, alarm, statusFile, machine, restarts, raced, platform>>
  BY DEF Receive
<1>3. TimerType' /\ FileType' /\ MachineType' /\ PlatformType'
  BY <1>2 DEF timerVars, statusFile, machine, platform, TimerType, FileType,
              MachineType, PlatformType
<1>4. pc' \in {"test", "seek"}
  BY DEF Receive
<1>5. OffsetInv' /\ TimerInv'
  BY <1>2, <1>4 DEF OffsetInv, TimerInv, timerVars
<1> QED BY <1>1, <1>3, <1>5

LEMMA TestTimerInv ==
  ASSUME IInv, TestTimer
  PROVE  IInv'
<1> USE DEF IInv, TypeOK
<1>1. MainType' /\ HistoryType'
  BY DEF TestTimer, MainType, MainPoints, history, HistoryType
<1>2. UNCHANGED <<timerVars, alarm, statusFile, script, machine, restarts, history,
                  platform>>
  BY DEF TestTimer
<1>3. TimerType' /\ FileType' /\ ScriptType' /\ MachineType' /\ PlatformType'
  BY <1>2 DEF timerVars, statusFile, machine, platform, TimerType, FileType,
              ScriptType, MachineType, PlatformType
<1>4. OffsetInv'
  BY DEF TestTimer, OffsetInv
<1>5. TimerInv'
  BY <1>2 DEF TestTimer, TimerInv, timerVars, history, TimerType
<1> QED BY <1>1, <1>3, <1>4, <1>5

LEMMA ArmTimerInv ==
  ASSUME IInv, ArmTimer
  PROVE  IInv'
<1> USE DEF IInv, TypeOK
<1>1. MainType' /\ HistoryType'
  BY DEF ArmTimer, MainType, MainPoints, history, HistoryType
<1>2. UNCHANGED <<timeRemaining, alarm, statusFile, script, machine, restarts,
                  history, platform>> /\ timerOn' = TRUE /\ pc' = "extend"
  BY DEF ArmTimer
<1>3. TimerType' /\ FileType' /\ ScriptType' /\ MachineType' /\ PlatformType'
  BY <1>2 DEF statusFile, machine, platform, TimerType, FileType, ScriptType,
              MachineType, PlatformType
<1>4. OffsetInv' /\ TimerInv'
  BY <1>2 DEF OffsetInv, TimerInv
<1> QED BY <1>1, <1>3, <1>4

LEMMA ExtendInv ==
  ASSUME IInv, Extend
  PROVE  IInv'
<1> USE ConstantsAssumption DEF IInv, TypeOK
<1>1. Decide(handled, ShutdownStatus(event)) /\ pc = "extend" /\ pc' = "seek"
      /\ timeRemaining' = WindowTicks
  BY DEF Extend
<1>2. ShutdownStatus(event) \in Statuses
  BY StatusType DEF SensorValues
<1>3. handled - 1 \in Nat \/ handled - 1 = -1
  BY DEF MainType
<1>4. ScriptType'
  <2>1. CASE handled - 1 \in Nat
    BY <1>1, <2>1, LowerType DEF Decide, ScriptType, Lowerings
  <2>2. CASE handled - 1 = -1
    <3>1. Lower(handled - 1, "event") = script
      BY <2>2 DEF Lower, ScriptType, Scripts
    <3> QED BY <1>1, <3>1 DEF Decide, ScriptType
  <2> QED BY <1>3, <2>1, <2>2
<1>5. MainType' /\ HistoryType'
  BY <1>1, <1>2 DEF Extend, Decide, MainType, MainPoints, HistoryType
<1>6. UNCHANGED <<timerOn, alarm, statusFile, machine, restarts, raced, platform>>
  BY DEF Extend
<1>7. TimerType' /\ FileType' /\ MachineType' /\ PlatformType'
  BY <1>1, <1>6 DEF statusFile, machine, platform, TimerType, FileType, MachineType,
              PlatformType
<1>8. OffsetInv' /\ TimerInv'
  BY <1>1, <1>6 DEF OffsetInv, TimerInv
<1> QED BY <1>4, <1>5, <1>7, <1>8

LEMMA SeekStatusInv ==
  ASSUME IInv, SeekStatus
  PROVE  IInv'
<1> USE DEF IInv, TypeOK
<1>1. MainType' /\ HistoryType'
  BY DEF SeekStatus, MainType, MainPoints, history, HistoryType
<1>2. /\ UNCHANGED <<timerVars, alarm, file, script, machine, restarts, history,
                     platform>>
      /\ offset' = 0 /\ pc' = "write"
  BY DEF SeekStatus
<1>3. TimerType' /\ FileType' /\ ScriptType' /\ MachineType' /\ PlatformType'
  BY <1>2 DEF timerVars, machine, platform, TimerType, FileType, ScriptType,
              MachineType, PlatformType
<1>4. OffsetInv' /\ TimerInv'
  BY <1>2 DEF OffsetInv, TimerInv, timerVars, history
<1> QED BY <1>1, <1>3, <1>4

LEMMA WriteStatusInv ==
  ASSUME IInv, WriteStatus
  PROVE  IInv'
<1> USE DEF IInv, TypeOK
<1>1. Digits(status) \in Seq(Bytes) /\ Len(Digits(status)) \in 1 .. 2
  BY DigitsType DEF MainType
<1>2. offset \in 0 .. 1
  BY DEF WriteStatus, OffsetInv, FileType
<1>3. FileType'
  <2> DEFINE d == Digits(status)
  <2>1. file' = Overwrite(file, offset, d) /\ offset' = offset + Len(d)
    BY DEF WriteStatus
  <2>2. d \in Seq(Bytes) /\ Len(d) \in 1 .. 2 /\ file \in Seq(Bytes) /\ Len(file) <= 3
    BY <1>1 DEF FileType
  <2> HIDE DEF d
  <2>3. offset + Len(d) \in 0 .. 3
    <3>1. \A m \in 0 .. 1, n \in 1 .. 2 : m + n \in 0 .. 3
      OBVIOUS
    <3> QED BY <1>2, <2>2, <3>1
  <2>4. file' \in Seq(Bytes) /\ Len(file') <= 3
    BY <1>2, <2>1, <2>2, <2>3, OverwriteType
  <2> QED BY <2>1, <2>3, <2>4 DEF FileType
<1>4. MainType' /\ HistoryType'
  BY DEF WriteStatus, MainType, MainPoints, history, HistoryType
<1>5. UNCHANGED <<timerVars, alarm, script, machine, restarts, history, platform>>
      /\ pc' \in {"fork", "idle"}
  BY DEF WriteStatus
<1>6. TimerType' /\ ScriptType' /\ MachineType' /\ PlatformType'
  BY <1>5 DEF timerVars, machine, platform, TimerType, ScriptType, MachineType,
              PlatformType
<1>7. OffsetInv' /\ TimerInv'
  BY <1>5 DEF OffsetInv, TimerInv, timerVars, history
<1> QED BY <1>3, <1>4, <1>6, <1>7

LEMMA ForkInv ==
  ASSUME IInv, Fork
  PROVE  IInv'
<1> USE DEF IInv, TypeOK
<1>1. ScriptType'
  BY DEF Fork, ScriptType, ScriptStates, ScriptPoints
<1>2. MainType' /\ HistoryType'
  BY DEF Fork, MainType, MainPoints, Statuses, history, HistoryType
<1>3. UNCHANGED <<timerVars, alarm, statusFile, machine, restarts, history, platform>>
      /\ pc' = "idle"
  BY DEF Fork
<1>4. TimerType' /\ FileType' /\ MachineType' /\ PlatformType'
  BY <1>3 DEF timerVars, statusFile, machine, platform, TimerType, FileType,
              MachineType, PlatformType
<1>5. OffsetInv' /\ TimerInv'
  BY <1>3 DEF OffsetInv, TimerInv, timerVars, history
<1> QED BY <1>1, <1>2, <1>4, <1>5

LEMMA RestartInv ==
  ASSUME IInv, Restart
  PROVE  IInv'
<1> USE ConstantsAssumption DEF IInv, TypeOK
<1>1. FileType'
  BY DEF Restart, FileType, Bytes
<1>2. ScriptType'
  BY DEF Restart, ScriptType, NoScript, ScriptStates, ScriptPoints
<1>3. MainType' /\ HistoryType'
  BY DEF Restart, MainType, MainPoints, Statuses, HistoryType
<1>4. UNCHANGED <<machine, platform>> /\ restarts' \in 0 .. MaxRestarts
  BY DEF Restart, MachineType
<1>5. timerOn' = FALSE /\ alarm' = FALSE /\ timeRemaining' = 0 /\ pc' = "idle"
  BY DEF Restart
<1>6. timerOn' \in BOOLEAN /\ alarm' \in BOOLEAN
  BY <1>5
<1>7. TimerType' /\ MachineType' /\ PlatformType'
  BY <1>4, <1>5, <1>6 DEF machine, platform, TimerType, MachineType, PlatformType
<1>8. OffsetInv' /\ TimerInv'
  BY <1>5 DEF OffsetInv, TimerInv
<1> QED BY <1>1, <1>2, <1>3, <1>7, <1>8

(* The timer handler.                                                      *)
LEMMA TimerHandlerInv ==
  ASSUME IInv, epow_timer_handler
  PROVE  IInv'
<1> USE ConstantsAssumption DEF IInv, TypeOK
<1>1. UNCHANGED <<mainVars, machine, restarts, verdicts, platform>> /\ alarm' = FALSE
  BY DEF epow_timer_handler
<1>2. MainType' /\ MachineType' /\ PlatformType' /\ pc' = pc
  BY <1>1 DEF mainVars, machine, platform, MainType, MachineType, PlatformType
<1>3. alarm' \in BOOLEAN
  BY <1>1
<1>4. Rearming \subseteq {"rearm", "write"} /\ Hiding \subseteq {"rearm", "write"}
      /\ (pc = "extend" => "rearm" \in Rearming)
  BY DEF Rearming, Hiding
<1>5. CASE TimerExpired
  <2>1. UNCHANGED <<timeRemaining, statusFile, script>> /\ timeRemaining <= 0
        /\ raced' = raced \union Rearming /\ timerOn' = FALSE
    BY <1>5 DEF TimerExpired
  <2>2. FileType' /\ ScriptType' /\ HistoryType'
    BY <1>1, <1>4, <2>1 DEF statusFile, FileType, ScriptType, HistoryType
  <2>3. timerOn' \in BOOLEAN
    BY <2>1
  <2>4. TimerType' /\ ~(timeRemaining' > 0)
    BY <1>3, <2>1, <2>3 DEF TimerType
  <2>5. TimerInv' /\ OffsetInv'
    BY <1>2, <1>4, <2>1, <2>4 DEF TimerInv, OffsetInv, statusFile
  <2> QED BY <1>2, <2>2, <2>4, <2>5
<1>6. CASE TimerRecovered
  <2> DEFINE st == CASE sensor = RESET -> 0
                     [] sensor = WARN_COOLING -> 8
                     [] sensor = WARN_POWER -> 9
  <2>1. /\ sensor \in RESET .. SYSTEM_SHUTDOWN - 1
        /\ timerOn' = FALSE /\ timeRemaining' = 0
        /\ file' = Overwrite(file, 0, Digits(st)) /\ offset' = Len(Digits(st))
        /\ script' = Lower(handled, "timer")
        /\ raced' = raced \union Rearming \union Hiding
    BY <1>6 DEF TimerRecovered
  <2>2. st \in {0, 8, 9}
    BY <2>1 DEF RESET, WARN_COOLING, WARN_POWER, SYSTEM_SHUTDOWN
  <2> HIDE DEF st
  <2>3. Digits(st) = <<st>>
    BY <2>2 DEF Digits
  <2>4. st \in Bytes
    BY <2>2 DEF Bytes
  <2>5. Overwrite(file, 0, <<st>>) \in Seq(Bytes)
        /\ Len(Overwrite(file, 0, <<st>>)) <= 3
    BY <2>4, OverwriteDigitType DEF FileType
  <2>6. FileType' /\ offset' = 1
    BY <2>1, <2>3, <2>5 DEF FileType
  <2>7. ScriptType'
    BY <2>1, LowerType DEF ScriptType, MainType, Lowerings
  <2>8. HistoryType'
    BY <1>1, <1>4, <2>1 DEF HistoryType
  <2>9. timerOn' \in BOOLEAN
    BY <2>1
  <2>10. TimerType'
    BY <1>3, <2>1, <2>9 DEF TimerType
  <2>11. ~(timeRemaining' > 0)
    BY <2>1
  <2>12. TimerInv' /\ OffsetInv'
    BY <1>2, <1>4, <2>1, <2>6, <2>11 DEF TimerInv, OffsetInv
  <2> QED BY <1>2, <2>6, <2>7, <2>8, <2>10, <2>12
<1>7. CASE TimerContinues
  <2>1. /\ timeRemaining > 0 /\ timeRemaining' = timeRemaining - 1
        /\ UNCHANGED <<timerOn, statusFile, script, raced>>
    BY <1>7 DEF TimerContinues
  <2>2. timeRemaining' \in 0 .. WindowTicks
    BY <2>1 DEF TimerType
  <2>3. TimerType'
    BY <1>3, <2>1, <2>2 DEF TimerType
  <2>4. FileType' /\ ScriptType' /\ HistoryType'
    BY <1>1, <2>1 DEF statusFile, FileType, ScriptType, HistoryType
  <2>5. TimerInv' /\ OffsetInv'
    BY <1>2, <2>1 DEF TimerInv, OffsetInv, statusFile
  <2> QED BY <1>2, <2>3, <2>4, <2>5
<1> QED BY <1>5, <1>6, <1>7 DEF epow_timer_handler

(* The scripts move nothing but themselves, the status file and the        *)
(* machine.                                                                *)
LEMMA ScriptOnlyInv ==
  ASSUME IInv, ScriptOnly, ScriptType', MachineType',
         file' \in Seq(Bytes), Len(file') <= 3
  PROVE  IInv'
<1> USE DEF IInv, TypeOK
<1>1. UNCHANGED <<mainVars, timerVars, alarm, offset, restarts, history, platform>>
  BY DEF ScriptOnly
<1>2. MainType' /\ TimerType' /\ HistoryType' /\ PlatformType'
  BY <1>1 DEF mainVars, timerVars, history, platform, MainType, TimerType,
              HistoryType, PlatformType
<1>3. FileType'
  BY <1>1 DEF FileType
<1>4. OffsetInv' /\ TimerInv'
  BY <1>1 DEF mainVars, timerVars, history, OffsetInv, TimerInv
<1> QED BY <1>2, <1>3, <1>4

LEMMA ReadStatusInv ==
  ASSUME IInv, NEW s \in Scripts, ReadStatus(s)
  PROVE  IInv'
<1> USE ConstantsAssumption DEF IInv, TypeOK
<1>1. UNCHANGED <<file, machine>> /\ ScriptOnly
  BY DEF ReadStatus
<1>2. ASSUME \E p \in ScriptPoints \ {"waiting"} : Goto(s, p)
      PROVE  ScriptType'
  BY <1>2 DEF Goto, ScriptType, ScriptStates
<1>3. ASSUME \E d \in 1 .. 2 : script' = [script EXCEPT
               ![s].pc = "waiting", ![s].sleep = d, ![s].left = ScriptTicks]
      PROVE  ScriptType'
  <2>1. PICK d \in 1 .. 2 : script' = [script EXCEPT
               ![s].pc = "waiting", ![s].sleep = d, ![s].left = ScriptTicks]
    BY <1>3
  <2>2. [script[s] EXCEPT !.pc = "waiting", !.sleep = d, !.left = ScriptTicks]
          \in ScriptStates
    <3>1. /\ script[s] \in ScriptStates /\ ScriptTicks \in 0 .. ScriptTicks
          /\ ScriptTicks > 0 /\ d \in 0 .. 2 /\ "waiting" \in ScriptPoints
      BY DEF ScriptType, ScriptPoints
    <3> QED BY <3>1 DEF ScriptStates
  <2> QED BY <2>1, <2>2 DEF ScriptType
<1>4. ScriptType'
  BY <1>2, <1>3 DEF ReadStatus, ScriptPoints
<1>5. MachineType'
  BY <1>1 DEF ScriptOnly, machine, MachineType
<1> QED BY <1>1, <1>4, <1>5, ScriptOnlyInv DEF FileType

LEMMA PollInv ==
  ASSUME IInv, NEW s \in Scripts, Poll(s)
  PROVE  IInv'
<1> USE ConstantsAssumption DEF IInv, TypeOK
<1>1. UNCHANGED <<file, machine>> /\ ScriptOnly
  BY DEF Poll
<1>2. ASSUME \E p \in ScriptPoints \ {"waiting"} : Goto(s, p)
      PROVE  ScriptType'
  BY <1>2 DEF Goto, ScriptType, ScriptStates
<1>3. ASSUME script' = [script EXCEPT
               ![s].left = @ - 1, ![s].sleep = 1,
               ![s].pc = IF script[s].left > 1 THEN "waiting" ELSE "shutdown"],
             script[s].pc = "waiting"
      PROVE  ScriptType'
  <2> DEFINE r == [script[s] EXCEPT !.left = @ - 1, !.sleep = 1,
                     !.pc = IF script[s].left > 1 THEN "waiting" ELSE "shutdown"]
  <2>1. /\ script[s] \in ScriptStates /\ script[s].left \in 1 .. ScriptTicks
        /\ 1 \in 0 .. 2 /\ {"waiting", "shutdown"} \subseteq ScriptPoints
    BY <1>3 DEF ScriptType, ScriptStates, ScriptPoints
  <2>2. script[s].left - 1 \in 0 .. ScriptTicks
        /\ (script[s].left > 1 => script[s].left - 1 > 0)
    BY <2>1
  <2>3. r \in ScriptStates
    BY <2>1, <2>2 DEF ScriptStates
  <2> QED BY <1>3, <2>3 DEF ScriptType
<1>4. ScriptType'
  BY <1>2, <1>3 DEF Poll, At, ScriptPoints
<1>5. MachineType'
  BY <1>1 DEF ScriptOnly, machine, MachineType
<1> QED BY <1>1, <1>4, <1>5, ScriptOnlyInv DEF FileType

LEMMA HaltInv ==
  ASSUME IInv, NEW s \in Scripts, Halt(s)
  PROVE  IInv'
<1> USE DEF IInv, TypeOK
<1>1. ScriptType'
  BY DEF Halt, Goto, ScriptType, ScriptStates, ScriptPoints
<1>2. MachineType'
  BY DEF Halt, ScriptOnly, MachineType
<1>3. UNCHANGED file /\ ScriptOnly
  BY DEF Halt
<1> QED BY <1>1, <1>2, <1>3, ScriptOnlyInv DEF FileType

LEMMA ShutdownInv ==
  ASSUME IInv, NEW s \in Scripts, Shutdown(s)
  PROVE  IInv'
<1> USE DEF IInv, TypeOK
<1>1. ScriptType'
  BY DEF Shutdown, Goto, ScriptType, ScriptStates, ScriptPoints
<1>2. autoPowerOn' \in BOOLEAN
  BY DEF Shutdown
<1>3. MachineType'
  BY <1>2 DEF Shutdown, ScriptOnly, MachineType
<1>4. UNCHANGED file /\ ScriptOnly
  BY DEF Shutdown
<1> QED BY <1>1, <1>3, <1>4, ScriptOnlyInv DEF FileType

LEMMA TruncateInv ==
  ASSUME IInv, NEW s \in Scripts, Truncate(s)
  PROVE  IInv'
<1> USE DEF IInv, TypeOK
<1>1. Lower(handled, "echo") \in [Scripts -> ScriptStates]
  BY LowerType DEF ScriptType, MainType, Lowerings
<1>2. ScriptType'
  BY <1>1, ZenonT(60) DEF Truncate, ScriptType, ScriptStates, ScriptPoints
<1>3. MachineType' /\ ScriptOnly
  BY DEF Truncate, ScriptOnly, machine, MachineType
<1>4. file' \in Seq(Bytes) /\ Len(file') <= 3
  BY DEF Truncate
<1> QED BY <1>2, <1>3, <1>4, ScriptOnlyInv

LEMMA EchoInv ==
  ASSUME IInv, NEW s \in Scripts, Echo(s)
  PROVE  IInv'
<1> USE DEF IInv, TypeOK
<1>1. Lower(handled, "echo") \in [Scripts -> ScriptStates]
  BY LowerType DEF ScriptType, MainType, Lowerings
<1>2. ScriptType'
  BY <1>1, ZenonT(60) DEF Echo, ScriptType, ScriptStates, ScriptPoints
<1>3. MachineType' /\ ScriptOnly
  BY DEF Echo, ScriptOnly, machine, MachineType
<1>4. 0 \in Bytes
  BY DEF Bytes
<1>5. file' \in Seq(Bytes) /\ Len(file') <= 3
  BY <1>4, OverwriteDigitType DEF Echo, FileType
<1> QED BY <1>2, <1>3, <1>5, ScriptOnlyInv

(* The platform and time.                                                  *)
LEMMA SensorChangesInv ==
  ASSUME IInv, SensorChanges
  PROVE  IInv'
<1> USE ConstantsAssumption DEF IInv, TypeOK
<1>1. UNCHANGED <<mainVars, timerVars, alarm, statusFile, script, machine,
                  restarts, history>>
  BY DEF SensorChanges
<1>2. MainType' /\ TimerType' /\ FileType' /\ ScriptType' /\ MachineType'
      /\ HistoryType' /\ OffsetInv' /\ TimerInv'
  BY <1>1 DEF mainVars, timerVars, statusFile, machine, history, MainType, TimerType,
              FileType, ScriptType, MachineType, HistoryType, OffsetInv, TimerInv
<1>3. PICK v \in Sensors : /\ sensor' = v
                           /\ calm' = IF Calm(v) THEN calm ELSE 0
                           /\ severe' = (severe \/ v >= SYSTEM_SHUTDOWN)
  BY DEF SensorChanges
<1>4. severe' \in BOOLEAN
  BY <1>3
<1>5. sensor' \in Sensors /\ calm' \in 0 .. CalmTicks
  BY <1>3 DEF PlatformType, CalmTicks
<1>6. PlatformType'
  BY <1>4, <1>5 DEF PlatformType, CalmTicks
<1> QED BY <1>2, <1>6

LEMMA TickInv ==
  ASSUME IInv, Tick
  PROVE  IInv'
<1> USE ConstantsAssumption DEF IInv, TypeOK
<1>1. UNCHANGED <<pc, event, status, handled, timerVars, statusFile, machine,
                  restarts, history, sensor, severe>>
  BY DEF Tick
<1>2. FileType' /\ MachineType' /\ HistoryType' /\ OffsetInv' /\ TimerInv'
  BY <1>1 DEF timerVars, statusFile, machine, history, FileType, MachineType,
              HistoryType, OffsetInv, TimerInv
<1>3. alarm' \in BOOLEAN /\ timeRemaining' = timeRemaining /\ timerOn' = timerOn
  BY <1>1 DEF Tick, timerVars, TimerType
<1>4. TimerType'
  BY <1>3 DEF TimerType
<1>5. late' \in 0 .. MaxLate
  BY DEF Tick, MainType
<1>6. MainType'
  BY <1>1, <1>5 DEF MainType
<1>7. ASSUME NEW s \in Scripts
      PROVE  (IF Sleeping(s) THEN [script[s] EXCEPT !.sleep = @ - 1]
              ELSE script[s]) \in ScriptStates
  BY DEF ScriptType, ScriptStates, Sleeping
<1>8. ScriptType'
  BY <1>7 DEF Tick, ScriptType
<1>9. calm' \in 0 .. CalmTicks
  BY DEF Tick, PlatformType, CalmTicks
<1>10. PlatformType'
  BY <1>1, <1>9 DEF PlatformType, CalmTicks
<1> QED BY <1>2, <1>4, <1>6, <1>8, <1>10

LEMMA StutterInv ==
  ASSUME IInv, UNCHANGED vars
  PROVE  IInv'
BY DEF IInv, TypeOK, vars, mainVars, timerVars, statusFile, machine, history, platform,
       MainType, TimerType, FileType, ScriptType, MachineType, HistoryType,
       PlatformType, OffsetInv, TimerInv

(* Every step preserves the invariant.                                     *)
LEMMA NextInv == IInv /\ [Next]_vars => IInv'
<1> SUFFICES ASSUME IInv, [Next]_vars PROVE IInv'
  OBVIOUS
<1>1. CASE \E e \in Events : Receive(e)
  BY <1>1, ReceiveInv
<1>2. CASE TestTimer \/ ArmTimer \/ Extend \/ SeekStatus \/ WriteStatus \/ Fork
  BY <1>2, TestTimerInv, ArmTimerInv, ExtendInv, SeekStatusInv, WriteStatusInv, ForkInv
<1>3. CASE Restart \/ epow_timer_handler
  BY <1>3, RestartInv, TimerHandlerInv
<1>4. CASE \E s \in Scripts : \/ ReadStatus(s) \/ Poll(s) \/ Halt(s) \/ Shutdown(s)
                             \/ Truncate(s) \/ Echo(s)
  BY <1>4, ReadStatusInv, PollInv, HaltInv, ShutdownInv, TruncateInv, EchoInv
<1>5. CASE SensorChanges \/ Tick
  BY <1>5, SensorChangesInv, TickInv
<1>6. CASE UNCHANGED vars
  BY <1>6, StutterInv
<1> QED BY <1>1, <1>2, <1>3, <1>4, <1>5, <1>6 DEF Next

-----------------------------------------------------------------------------
(* The theorems.                                                           *)

(* Every variable keeps its type, whatever the events, the sensor's values *)
(* and the bounds: time_remaining stays within its window, and neither the *)
(* daemon nor the scripts make the status file longer than three digits.   *)
THEOREM TypeCorrect == Spec => []TypeOK
<1>1. IInv => TypeOK
  BY DEF IInv
<1> QED BY <1>1, InitInv, NextInv, PTL DEF Spec

(* While time remains the interval timer runs, but for an alarm between    *)
(* the test of time_remaining and its assignment.  The invariant also says *)
(* so of the main thread about to make that assignment.                    *)
THEOREM TimerMonitored == Spec => []Monitored
<1>1. IInv => Monitored
  BY DEF IInv, TimerInv, Monitored
<1> QED BY <1>1, InitInv, NextInv, PTL DEF Spec

-----------------------------------------------------------------------------
(* The inductive invariants for ScriptsObey.                               *)

(* What has been decided accounts for every digit that scripts may read,   *)
(* for a single digit 1, and for what a script is about to do.             *)
Accounted(b) ==
  /\ b \in 2 .. 7 => b \in verdicts
  /\ b = 1 => verdicts \cap {1, 10, 11} # {}
OnlyDigit(content, i) == \A j \in DOMAIN content : j # i => content[j] = NUL

SevereInv == sensor >= SYSTEM_SHUTDOWN \/ pc \in {"test", "arm", "extend"} => severe
StatusInv == pc \in {"seek", "write"} => status \in verdicts
FileInv   ==
  /\ \A i \in DOMAIN file : Accounted(file[i])
  /\ \A i \in DOMAIN file : file[i] = 1 /\ OnlyDigit(file, i) => 1 \in verdicts
ScriptInv ==
  \A s \in Scripts :
    /\ script[s].pc = "halt" => verdicts \cap 1 .. 3 # {}
    /\ script[s].pc \in {"waiting", "shutdown"} =>
         verdicts \cap ({1, 10, 11} \union 4 .. 7) # {}
CalledInv == TakenDownOnlyIfCalledFor /\ SevereInv /\ StatusInv /\ FileInv /\ ScriptInv

(* Scripts are forked for events whose handling has come to an end.        *)
Forked(s) == script[s].pc # "none"
ForkedInv ==
  /\ pc # "idle" => handled > 0
  /\ \A s \in Scripts : Forked(s) => s <= handled /\ (pc # "idle" => s < handled)

(* A script whose status has not been lowered finds it in the file: the    *)
(* first digit that the main thread wrote for its event or a later one     *)
(* is still there, alone unless there have been two digits.                *)
Steady(s)     == script[s].lowered = {}
AllLowered(n) == \A s \in Scripts : s <= n => ~Steady(s)
FirstIn(content, digits) == content # <<>> /\ content[1] \in digits
TwoDigits     == verdicts \cap {10, 11} # {} \/ "write" \in raced

WriteInv ==
  /\ pc = "write" => offset = 0 \/ ("write" \in raced /\ AllLowered(handled))
  /\ pc \in {"seek", "write"} /\ status \in Improved => AllLowered(handled - 1)
LengthInv == Len(file) > 1 => TwoDigits
ReadyInv ==
  \A s \in Scripts : Steady(s) =>
    /\ script[s].pc = "start" \/ (pc = "fork" /\ s = handled) => FirstIn(file, 1 .. 9)
    /\ script[s].pc = "waiting" => FirstIn(file, 1 .. 7) /\ OnlyDigit(file, 1)
ToldInv == GivesUpOnlyIfLowered /\ WriteInv /\ LengthInv /\ ReadyInv

(* Where no alarm hits an update, a file that tells scripts to wait has    *)
(* been written lately enough: the timer outlasts them, and a recovery is  *)
(* noticed at the next alarm.  An alarm that is pending counts as handled. *)
Pending  == IF alarm THEN 1 ELSE 0
Left     == timeRemaining - Pending
TellsToWait == StatusRead(file) \in {6, 7}
PollsEnd(s) == script[s].sleep + script[s].left - 1

CalmInv ==
  /\ alarm => timerOn
  /\ ~Calm(sensor) => calm = 0
  /\ pc \in {"test", "arm", "extend"} => calm <= late
DueInv ==
  raced = {} /\ pc \in {"seek", "write"} /\ status \in {6, 7} =>
    calm <= late /\ Left >= WindowTicks - 1 - late
WaitsInTime(s) ==
  \/ timerOn /\ PollsEnd(s) <= Left + 1
  \/ ~timerOn /\ timeRemaining = 0 /\ PollsEnd(s) = 0 /\ calm <= MaxLate + 1
WaitingInv ==
  raced = {} /\ TellsToWait =>
    /\ pc = "fork" => Left >= WindowTicks - 1 - late
    /\ timerOn => calm <= MaxLate + Pending
    /\ \A s \in Scripts : script[s].pc = "start" => Left >= ScriptTicks
    /\ \A s \in Scripts : script[s].pc = "waiting" => WaitsInTime(s)
TimingInv == CalmInv /\ DueInv /\ WaitingInv

ObeyInv == IInv /\ CalledInv /\ ForkedInv /\ ToldInv /\ TimingInv

-----------------------------------------------------------------------------
(* What scripts read in the status file.                                   *)

(* A write changes the bytes it covers, and no other.                      *)
LEMMA OverwriteLength ==
  ASSUME NEW content \in Seq(Bytes), NEW at \in Nat, NEW digits \in Seq(Bytes),
         NEW o, o = Overwrite(content, at, digits)
  PROVE  /\ DOMAIN o = 1 .. Larger(Len(content), at + Len(digits))
         /\ Len(o) = Larger(Len(content), at + Len(digits))
<1> DEFINE n == Larger(Len(content), at + Len(digits))
<1>1. n \in Nat
  BY DEF Larger
<1>2. DOMAIN o = 1 .. n
  BY DEF Overwrite
<1>3. o \in Seq(Bytes)
  <2>1. PICK bound \in Nat : Len(content) <= bound /\ at + Len(digits) <= bound
    <3>1. Len(content) <= n /\ at + Len(digits) <= n
      BY DEF Larger
    <3> QED
      BY <1>1, <3>1
  <2> QED
    BY <2>1, OverwriteType
<1> HIDE DEF n
<1>4. Len(o) = n
  BY <1>1, <1>2, <1>3
<1> QED
  BY <1>2, <1>4 DEF n

LEMMA OverwriteByte ==
  ASSUME NEW content \in Seq(Bytes), NEW at \in Nat, NEW digits \in Seq(Bytes),
         NEW o, o = Overwrite(content, at, digits), NEW i \in DOMAIN o
  PROVE  \/ i - at \in 1 .. Len(digits) /\ o[i] = digits[i - at]
         \/ /\ i - at \notin 1 .. Len(digits)
            /\ \/ i \in DOMAIN content /\ o[i] = content[i]
               \/ i \notin DOMAIN content /\ o[i] = NUL
<1>1. i \in 1 .. Larger(Len(content), at + Len(digits))
  BY DEF Overwrite
<1>2. o[i] = IF i \in at + 1 .. at + Len(digits) THEN digits[i - at]
             ELSE IF i <= Len(content) THEN content[i] ELSE NUL
  BY <1>1 DEF Overwrite
<1>3. i \in at + 1 .. at + Len(digits) <=> i - at \in 1 .. Len(digits)
  BY <1>1 DEF Larger
<1>4. i \in DOMAIN content <=> i <= Len(content)
  BY <1>1 DEF Larger
<1> QED
  BY <1>2, <1>3, <1>4

(* The same of digits that are written at the start.                       *)
LEMMA OverwriteStart ==
  ASSUME NEW content \in Seq(Bytes), NEW digits \in Seq(Bytes), Len(digits) > 0,
         NEW at, at = 0, NEW o, o = Overwrite(content, at, digits)
  PROVE  /\ o # <<>> /\ 1 \in DOMAIN o /\ o[1] = digits[1]
         /\ Len(o) = Larger(Len(content), Len(digits))
         /\ \A i \in DOMAIN o : i > Len(digits) => i \in DOMAIN content /\ o[i] = content[i]
<1>1. DOMAIN o = 1 .. Larger(Len(content), at + Len(digits))
      /\ Len(o) = Larger(Len(content), at + Len(digits))
  BY OverwriteLength
<1>2. Len(digits) \in Nat \ {0} /\ at + Len(digits) = Len(digits)
  OBVIOUS
<1>3. 1 \in DOMAIN o /\ Len(o) = Larger(Len(content), Len(digits)) /\ Len(o) # 0
  BY <1>1, <1>2 DEF Larger
<1>4. o[1] = digits[1]
  <2>1. 1 - at \in 1 .. Len(digits) /\ 1 - at = 1
    BY <1>2
  <2> QED
    BY <1>3, <2>1, OverwriteByte
<1>5. ASSUME NEW i \in DOMAIN o, i > Len(digits)
      PROVE  i \in DOMAIN content /\ o[i] = content[i]
  <2>1. i \in DOMAIN content /\ i - at \notin 1 .. Len(digits)
    BY <1>1, <1>2, <1>5 DEF Larger
  <2> QED
    BY <2>1, OverwriteByte
<1> QED
  BY <1>3, <1>4, <1>5

(* One digit at the start does not make a content longer.                  *)
LEMMA OverwriteShort ==
  ASSUME NEW content \in Seq(Bytes), NEW digits \in Seq(Bytes), Len(digits) < 2,
         NEW at \in Nat, at = 0, NEW o, o = Overwrite(content, at, digits)
  PROVE  Len(o) > 1 => Len(content) > 1
<1>1. /\ DOMAIN o = 1 .. Larger(Len(content), at + Len(digits))
      /\ Len(o) = Larger(Len(content), at + Len(digits))
  BY OverwriteLength
<1> PICK m \in Nat : m = Len(content)
  OBVIOUS
<1>0. Len(digits) \in Nat /\ at + Len(digits) = Len(digits)
  OBVIOUS
<1> PICK n \in Nat : n = at + Len(digits) /\ n < 2
  BY <1>0
<1>2. Len(o) = Larger(m, n)
  BY <1>1
<1>3. Larger(m, n) > 1 => m > 1
  BY DEF Larger
<1> QED
  BY <1>2, <1>3

(* The digits of a status.                                                 *)
LEMMA StatusDigits ==
  ASSUME NEW st \in Statuses
  PROVE  /\ st < 10 => Digits(st) = <<st>> /\ Len(Digits(st)) = 1 /\ Digits(st)[1] = st
         /\ st >= 10 => /\ Len(Digits(st)) = 2 /\ Digits(st)[1] = 1
                        /\ Digits(st)[2] \in {0, 1}
         /\ Digits(st) \in Seq(Bytes)
<1>1. st < 10 => Digits(st) = <<st>> /\ Len(Digits(st)) = 1 /\ Digits(st)[1] = st
  BY DEF Digits, Statuses
<1>2. ASSUME st >= 10
      PROVE  Len(Digits(st)) = 2 /\ Digits(st)[1] = 1 /\ Digits(st)[2] \in {0, 1}
  <2>1. Digits(st) = <<st \div 10, st % 10>>
    BY <1>2 DEF Digits, Statuses
  <2>2. st \div 10 = 1 /\ st % 10 \in {0, 1}
    BY <1>2 DEF Statuses
  <2> QED
    BY <2>1, <2>2
<1> QED
  BY <1>1, <1>2, DigitsType

LEMMA OneDigit ==
  ASSUME NEW st \in Statuses, st < 10
  PROVE  Digits(st) \in Seq(Bytes) /\ Len(Digits(st)) = 1 /\ Digits(st)[1] = st
BY StatusDigits

LEMMA TwoDigit ==
  ASSUME NEW st \in Statuses, ~(st < 10)
  PROVE  /\ Digits(st) \in Seq(Bytes) /\ Len(Digits(st)) = 2 /\ Digits(st)[1] = 1
         /\ Digits(st)[2] \in {0, 1} /\ st \in {10, 11}
<1>1. st >= 10 /\ st \in {10, 11}
  BY DEF Statuses
<1> QED
  BY <1>1, StatusDigits

LEMMA FirstDigit ==
  ASSUME NEW st \in Statuses
  PROVE  /\ Digits(st) \in Seq(Bytes) /\ Len(Digits(st)) > 0
         /\ Digits(st)[1] = st \/ (st >= 10 /\ Digits(st)[1] = 1)
<1>1. CASE st < 10
  BY <1>1, OneDigit
<1>2. CASE ~(st < 10)
  <2>1. st >= 10
    BY <1>2 DEF Statuses
  <2> QED
    BY <1>2, <2>1, TwoDigit
<1> QED
  BY <1>1, <1>2

(* What a content shows are its own bytes, from the first on.              *)
LEMMA ShownBytes ==
  ASSUME NEW content \in Seq(Bytes), NEW text \in Seq(Bytes), Shows(content, text)
  PROVE  /\ \A k \in 1 .. Len(text) : \E i \in DOMAIN content : content[i] = text[k]
         /\ content # <<>> /\ content[1] # NUL => text # <<>> /\ text[1] = content[1]
<1>1. PICK at \in [1 .. Len(text) -> DOMAIN content] :
        /\ \A k \in 1 .. Len(text) : text[k] = content[at[k]]
        /\ \A k, l \in 1 .. Len(text) : k < l => at[k] < at[l]
        /\ {at[k] : k \in 1 .. Len(text)} = {i \in DOMAIN content : content[i] # NUL}
  BY DEF Shows
<1>2. ASSUME content # <<>>, content[1] # NUL
      PROVE  text # <<>> /\ text[1] = content[1]
  <2>1. 1 \in DOMAIN content
    BY <1>2
  <2>2. PICK k \in 1 .. Len(text) : at[k] = 1
    BY <1>1, <1>2, <2>1
  <2>3. 1 \in 1 .. Len(text) /\ at[1] \in DOMAIN content
    BY <2>2
  <2>4. ~(at[1] < 1)
    BY <2>3
  <2>5. k = 1
    BY <1>1, <2>2, <2>3, <2>4
  <2> QED
    BY <1>1, <2>2, <2>3, <2>5
<1> QED
  BY <1>1, <1>2

LEMMA ShownDigit ==
  ASSUME NEW content \in Seq(Bytes), NEW b, Shows(content, <<b>>)
  PROVE  \E i \in DOMAIN content : content[i] = b /\ OnlyDigit(content, i)
<1> DEFINE text == <<b>>
<1>1. Len(text) = 1 /\ text[1] = b
  OBVIOUS
<1> HIDE DEF text
<1>2. PICK at \in [1 .. Len(text) -> DOMAIN content] :
        /\ \A k \in 1 .. Len(text) : text[k] = content[at[k]]
        /\ {at[k] : k \in 1 .. Len(text)} = {i \in DOMAIN content : content[i] # NUL}
  BY DEF Shows, text
<1>3. at[1] \in DOMAIN content /\ content[at[1]] = b
  BY <1>1, <1>2
<1>4. \A i \in DOMAIN content : content[i] # NUL => i = at[1]
  BY <1>1, <1>2
<1> QED
  BY <1>3, <1>4 DEF OnlyDigit

(* A script reads what the file shows.                                     *)
LEMMA ReadShown ==
  ASSUME NEW content
  PROVE  /\ StatusRead(content) \in Statuses \union {Undefined}
         /\ StatusRead(content) \in Statuses => Shows(content, Digits(StatusRead(content)))
         /\ (\E st \in Statuses : Shows(content, Digits(st))) => StatusRead(content) \in Statuses
<1>1. CASE \E st \in Statuses : Shows(content, Digits(st))
  BY <1>1 DEF StatusRead
<1>2. CASE ~\E st \in Statuses : Shows(content, Digits(st))
  <2>1. StatusRead(content) = Undefined
    BY <1>2 DEF StatusRead
  <2> QED
    BY <1>2, <2>1 DEF Undefined, Statuses
<1> QED
  BY <1>1, <1>2

LEMMA ReadFirst ==
  ASSUME NEW content \in Seq(Bytes), content # <<>>, content[1] # NUL,
         StatusRead(content) \in Statuses
  PROVE  StatusRead(content) = content[1] \/ (StatusRead(content) >= 10 /\ content[1] = 1)
<1> PICK st : st = StatusRead(content)
  OBVIOUS
<1>1. st \in Statuses /\ Shows(content, Digits(st))
  BY ReadShown
<1>2. Digits(st)[1] = content[1]
  BY <1>1, StatusDigits, ShownBytes
<1> QED
  BY <1>1, <1>2, FirstDigit

(* A digit that stands alone is the status.                                *)
LEMMA ReadDigit ==
  ASSUME NEW content \in Seq(Bytes), FirstIn(content, 0 .. 9), OnlyDigit(content, 1)
  PROVE  StatusRead(content) = content[1]
<1> PICK b : b = content[1]
  OBVIOUS
<1>1. b \in 0 .. 9 /\ b \in Statuses /\ content # <<>> /\ 1 \in DOMAIN content /\ b # NUL
  BY DEF FirstIn, Statuses, NUL
<1>2. Shows(content, Digits(b))
  <2> DEFINE text == Digits(b)
  <2> DEFINE at == [k \in 1 .. 1 |-> 1]
  <2>1. Len(text) = 1 /\ text[1] = b
    <3>1. b < 10
      BY <1>1
    <3> QED
      BY <1>1, <3>1, OneDigit
  <2> HIDE DEF text
  <2>2. at \in [1 .. Len(text) -> DOMAIN content]
    BY <1>1, <2>1
  <2>3. \A k \in 1 .. Len(text) : k = 1 /\ at[k] = 1
    BY <2>1
  <2> HIDE DEF at
  <2>4. {at[k] : k \in 1 .. Len(text)} = {1}
    BY <2>1, <2>3
  <2>5. {i \in DOMAIN content : content[i] # NUL} = {1}
    BY <1>1 DEF OnlyDigit
  <2>6. \A k \in 1 .. Len(text) : text[k] = content[at[k]]
    BY <2>1, <2>3
  <2>7. \A k, l \in 1 .. Len(text) : k < l => at[k] < at[l]
    BY <2>3
  <2>8. Shows(content, text)
    BY <2>2, <2>4, <2>5, <2>6, <2>7 DEF Shows
  <2> QED
    BY <2>8 DEF text
<1> PICK st : st = StatusRead(content)
  OBVIOUS
<1>3. st \in Statuses /\ Shows(content, Digits(st))
  BY <1>1, <1>2, ReadShown
<1>4. ASSUME st >= 10
      PROVE  FALSE
  <2> DEFINE text == Digits(st)
  <2>1. Len(text) = 2
    BY <1>3, <1>4, StatusDigits
  <2>2. Shows(content, text)
    BY <1>3
  <2> HIDE DEF text
  <2>3. PICK at \in [1 .. Len(text) -> DOMAIN content] :
          /\ \A k, l \in 1 .. Len(text) : k < l => at[k] < at[l]
          /\ {at[k] : k \in 1 .. Len(text)} = {i \in DOMAIN content : content[i] # NUL}
    BY <2>2 DEF Shows
  <2>4. 1 \in 1 .. Len(text) /\ 2 \in 1 .. Len(text)
    BY <2>1
  <2>5. at[1] \in {at[k] : k \in 1 .. Len(text)} /\ at[2] \in {at[k] : k \in 1 .. Len(text)}
    BY <2>4
  <2>6. at[1] = 1 /\ at[2] = 1
    BY <2>3, <2>5 DEF OnlyDigit
  <2> QED
    BY <2>3, <2>4, <2>6
<1> QED
  BY <1>1, <1>3, <1>4, ReadFirst DEF Statuses

LEMMA ReadNothing == StatusRead(<<>>) = Undefined
<1>1. ASSUME NEW st \in Statuses
      PROVE  ~Shows(<<>>, Digits(st))
  <2>1. Digits(st) \in Seq(Bytes) /\ 1 \in 1 .. Len(Digits(st)) /\ <<>> \in Seq(Bytes)
    <3>1. Digits(st) \in Seq(Bytes) /\ Len(Digits(st)) > 0
      BY <1>1, FirstDigit
    <3> PICK n : n = Len(Digits(st))
      OBVIOUS
    <3>2. n \in Nat
      BY <3>1
    <3>5. n > 0
      BY <3>1
    <3>3. 1 \in 1 .. n
      BY <3>2, <3>5
    <3>4. <<>> \in Seq(Bytes)
      OBVIOUS
    <3> QED
      BY <3>1, <3>3, <3>4
  <2>2. DOMAIN <<>> = {}
    OBVIOUS
  <2> QED
    BY <2>1, <2>2, ShownBytes
<1> QED
  BY <1>1 DEF StatusRead

-----------------------------------------------------------------------------
(* The scripts.                                                            *)

(* What lowering the status does to the scripts.                           *)
LEMMA LowerFacts ==
  ASSUME IInv, NEW n \in Int, NEW who \in Lowerings, NEW s \in Scripts
  PROVE  /\ Lower(n, who)[s] \in ScriptStates
         /\ Lower(n, who)[s].pc = script[s].pc /\ Lower(n, who)[s].sleep = script[s].sleep
         /\ Lower(n, who)[s].left = script[s].left
         /\ s <= n => Lower(n, who)[s].lowered # {}
         /\ script[s].lowered # {} => Lower(n, who)[s].lowered # {}
<1>1. script[s] \in ScriptStates /\ s \in Int
  BY DEF IInv, TypeOK, ScriptType, Scripts
<1>2. CASE s > n
  <2>1. Lower(n, who)[s] = script[s]
    BY <1>2 DEF Lower
  <2> QED
    BY <1>1, <1>2, <2>1
<1>3. CASE ~(s > n)
  <2>1. Lower(n, who)[s] = [script[s] EXCEPT !.lowered = @ \union {who}]
    BY <1>3 DEF Lower
  <2>2. [script[s] EXCEPT !.lowered = @ \union {who}] \in ScriptStates
    BY <1>1 DEF ScriptStates
  <2> QED
    BY <1>1, <2>1, <2>2 DEF ScriptStates
<1> QED
  BY <1>2, <1>3

(* A script where it has been, no less lowered.                            *)
Stays(s) ==
  /\ script'[s].pc = script[s].pc /\ script'[s].left = script[s].left
  /\ ~Steady(s) => ~Steady(s)'
Rests(s) == Stays(s) /\ script'[s].sleep = script[s].sleep

LEMMA LowerRests ==
  ASSUME IInv, NEW n \in Int, NEW who \in Lowerings, script' = Lower(n, who)
  PROVE  (\A s \in Scripts : Rests(s)) /\ AllLowered(n)'
  BY LowerFacts DEF Rests, Stays, Steady, AllLowered

LEMMA DecideRests ==
  ASSUME IInv, NEW n \in Int, NEW st, Decide(n, st)
  PROVE  /\ \A s \in Scripts : Rests(s)
         /\ st \in Improved => AllLowered(n - 1)'
         /\ status' = st /\ verdicts' = verdicts \union {st}
<1>1. CASE st \in Improved
  <2>1. n - 1 \in Int /\ "event" \in Lowerings
    BY DEF Lowerings
  <2>2. script' = Lower(n - 1, "event")
    BY <1>1 DEF Decide
  <2> QED
    BY <2>1, <2>2, LowerRests DEF Decide
<1>2. CASE st \notin Improved
  BY <1>2 DEF Decide, Rests, Stays, Steady
<1> QED
  BY <1>1, <1>2

(* All steps but those of the scripts, Fork, Restart and Tick leave them   *)
(* where they are.                                                         *)
LEMMA MainRests ==
  ASSUME IInv, \/ \E e \in Events : Receive(e)
               \/ TestTimer \/ ArmTimer \/ Extend \/ SeekStatus \/ WriteStatus
               \/ epow_timer_handler \/ SensorChanges \/ UNCHANGED vars
  PROVE  \A s \in Scripts : Rests(s)
<1>1. handled \in Int /\ handled + 1 \in Int
  BY DEF IInv, TypeOK, MainType
<1>2. ASSUME UNCHANGED script
      PROVE  \A s \in Scripts : Rests(s)
  BY <1>2 DEF Rests, Stays, Steady
<1>3. CASE \E e \in Events : Receive(e)
  BY <1>1, <1>2, <1>3, DecideRests DEF Receive
<1>4. CASE TestTimer \/ ArmTimer \/ SeekStatus \/ WriteStatus \/ SensorChanges \/ UNCHANGED vars
  BY <1>2, <1>4 DEF TestTimer, ArmTimer, SeekStatus, WriteStatus, SensorChanges, vars
<1>5. CASE Extend
  BY <1>1, <1>5, DecideRests DEF Extend
<1>6. CASE epow_timer_handler
  <2>1. "timer" \in Lowerings
    BY DEF Lowerings
  <2> QED
    BY <1>1, <1>2, <1>6, <2>1, LowerRests DEF epow_timer_handler, TimerExpired, TimerRecovered,
       TimerContinues
<1> QED
  BY <1>3, <1>4, <1>5, <1>6

(* A script that steps moves alone; while it rewrites the status file it   *)
(* lowers the status of all.                                               *)
LEMMA ScriptMoves ==
  ASSUME IInv, NEW s \in Scripts, ScriptStep(s)
  PROVE  /\ ScriptOnly /\ down = "no"
         /\ \A t \in Scripts : t # s => Rests(t)
         /\ ~Steady(s) => ~Steady(s)'
         /\ Truncate(s) \/ Echo(s) => AllLowered(handled)'
<1>1. script \in [Scripts -> ScriptStates] /\ handled \in Int /\ "echo" \in Lowerings
  BY DEF IInv, TypeOK, ScriptType, MainType, Lowerings
<1>2. ScriptOnly /\ down = "no"
  BY DEF ScriptStep, ReadStatus, Poll, Halt, Shutdown, Truncate, Echo, At
<1>3. ASSUME NEW p, Goto(s, p)
      PROVE  (\A t \in Scripts : t # s => Rests(t)) /\ (~Steady(s) => ~Steady(s)')
  BY <1>1, <1>3 DEF Goto, Rests, Stays, Steady, ScriptStates
<1>4. CASE ReadStatus(s)
  <2>1. (\E p : Goto(s, p))
        \/ \E d \in 1 .. 2 : script' = [script EXCEPT
               ![s].pc = "waiting", ![s].sleep = d, ![s].left = ScriptTicks]
    BY <1>4 DEF ReadStatus
  <2>2. ASSUME NEW d \in 1 .. 2, script' = [script EXCEPT
               ![s].pc = "waiting", ![s].sleep = d, ![s].left = ScriptTicks]
        PROVE  (\A t \in Scripts : t # s => Rests(t)) /\ (~Steady(s) => ~Steady(s)')
    BY <1>1, <2>2 DEF Rests, Stays, Steady, ScriptStates
  <2>3. ~Truncate(s) /\ ~Echo(s)
    BY <1>4 DEF ReadStatus, Truncate, Echo, At
  <2> QED
    BY <1>2, <1>3, <2>1, <2>2, <2>3
<1>5. CASE Poll(s)
  <2>1. (\E p : Goto(s, p))
        \/ script' = [script EXCEPT
               ![s].left = @ - 1, ![s].sleep = 1,
               ![s].pc = IF script[s].left > 1 THEN "waiting" ELSE "shutdown"]
    BY <1>5 DEF Poll
  <2>2. ASSUME script' = [script EXCEPT
               ![s].left = @ - 1, ![s].sleep = 1,
               ![s].pc = IF script[s].left > 1 THEN "waiting" ELSE "shutdown"]
        PROVE  (\A t \in Scripts : t # s => Rests(t)) /\ (~Steady(s) => ~Steady(s)')
    BY <1>1, <2>2 DEF Rests, Stays, Steady, ScriptStates
  <2>3. ~Truncate(s) /\ ~Echo(s)
    BY <1>5 DEF Poll, Truncate, Echo, At
  <2> QED
    BY <1>2, <1>3, <2>1, <2>2, <2>3
<1>6. CASE Halt(s) \/ Shutdown(s)
  <2>1. \E p : Goto(s, p)
    BY <1>6 DEF Halt, Shutdown
  <2>2. ~Truncate(s) /\ ~Echo(s)
    BY <1>6 DEF Halt, Shutdown, Truncate, Echo, At
  <2> QED
    BY <1>2, <1>3, <2>1, <2>2
<1>7. ASSUME NEW p, script' = [Lower(handled, "echo") EXCEPT ![s].pc = p]
      PROVE  /\ \A t \in Scripts : t # s => Rests(t)
             /\ ~Steady(s) => ~Steady(s)'
             /\ AllLowered(handled)'
  <2> PICK low : low = Lower(handled, "echo")
    OBVIOUS
  <2>1. \A t \in Scripts :
          /\ low[t] \in ScriptStates
          /\ low[t].pc = script[t].pc /\ low[t].sleep = script[t].sleep
          /\ low[t].left = script[t].left /\ (t <= handled => low[t].lowered # {})
          /\ script[t].lowered # {} => low[t].lowered # {}
    BY <1>1, LowerFacts
  <2>2. DOMAIN low = Scripts
    BY DEF Lower
  <2>3. \A t \in Scripts : t # s => script'[t] = low[t]
    BY <1>7, <2>2
  <2>4. script'[s].lowered = low[s].lowered
    BY <1>7, <2>1, <2>2 DEF ScriptStates
  <2>5. handled' = handled
    BY <1>2 DEF ScriptOnly, mainVars
  <2>6. \A t \in Scripts : t <= handled => script'[t].lowered # {}
    BY <2>1, <2>3, <2>4
  <2> QED
    BY <2>1, <2>3, <2>4, <2>5, <2>6 DEF Rests, Stays, Steady, AllLowered
<1>8. CASE Truncate(s) \/ Echo(s)
  BY <1>2, <1>7, <1>8 DEF Truncate, Echo
<1> QED
  BY <1>4, <1>5, <1>6, <1>8 DEF ScriptStep

LEMMA TickScripts ==
  ASSUME IInv, Tick
  PROVE  \A s \in Scripts :
           /\ Stays(s)
           /\ script'[s].sleep = IF Sleeping(s) THEN script[s].sleep - 1 ELSE script[s].sleep
           /\ Sleeping(s) \/ Over(s)
<1>1. script \in [Scripts -> ScriptStates]
  BY DEF IInv, TypeOK, ScriptType
<1>2. ASSUME NEW s \in Scripts
      PROVE  Stays(s) /\ script'[s].sleep = IF Sleeping(s) THEN script[s].sleep - 1 ELSE script[s].sleep
  <2>1. script'[s] = IF Sleeping(s) THEN [script[s] EXCEPT !.sleep = @ - 1] ELSE script[s]
    BY DEF Tick
  <2> PICK r : r = script[s]
    OBVIOUS
  <2>2. r \in ScriptStates
    BY <1>1
  <2>3. CASE Sleeping(s)
    BY <2>1, <2>2, <2>3 DEF Stays, Steady, ScriptStates
  <2>4. CASE ~Sleeping(s)
    BY <2>1, <2>4 DEF Stays, Steady
  <2> QED
    BY <2>3, <2>4
<1> QED
  BY <1>2 DEF Tick

LEMMA RestartScripts ==
  ASSUME Restart
  PROVE  \A s \in Scripts : script'[s].pc \in {"none", "ended"} /\ (Forked(s)' => Forked(s))
  BY DEF Restart, NoScript, Forked

LEMMA ForkScripts ==
  ASSUME IInv, Fork
  PROVE  \A s \in Scripts :
           \/ Rests(s)
           \/ s = handled /\ script'[s].pc = "start" /\ script'[s].lowered = script[s].lowered
<1>1. script \in [Scripts -> ScriptStates]
  BY DEF IInv, TypeOK, ScriptType
<1>2. CASE UNCHANGED script
  BY <1>2 DEF Rests, Stays, Steady
<1>3. CASE script' = [script EXCEPT ![handled].pc = "start"]
  <2>1. \A s \in Scripts : s # handled => script'[s] = script[s]
    BY <1>1, <1>3
  <2>2. handled \in Scripts =>
          script'[handled].pc = "start" /\ script'[handled].lowered = script[handled].lowered
    BY <1>1, <1>3 DEF ScriptStates
  <2> QED
    BY <2>1, <2>2 DEF Rests, Stays, Steady
<1> QED
  BY <1>2, <1>3 DEF Fork

-----------------------------------------------------------------------------
(* Nothing is done that has not been decided.                              *)

LEMMA OtherSevere ==
  ASSUME NEW e, NEW state \in SensorValues,
         OtherStatus(e, state) \in 1 .. 7 \union {11}
  PROVE  state >= SYSTEM_SHUTDOWN
<1> USE DEF SensorValues, Unreadable, RESET, WARN_COOLING, WARN_POWER, SYSTEM_SHUTDOWN,
            SYSTEM_HALT, MAIN_ENCLOSURE, POWER_OFF
<1>1. state # Unreadable /\ e.extended /\ e.section
  BY DEF OtherStatus
<1>2. e.code # WARN_COOLING /\ e.code # WARN_POWER
  BY <1>1 DEF OtherStatus
<1>3. (e.code = SYSTEM_HALT /\ state = SYSTEM_HALT)
      \/ (e.code \in {MAIN_ENCLOSURE, POWER_OFF} /\ state \in {MAIN_ENCLOSURE, POWER_OFF})
  BY <1>1, <1>2 DEF OtherStatus
<1> QED
  BY <1>3

(* What scripts read has been decided.                                     *)
LEMMA ReadDecided ==
  ASSUME IInv, FileInv
  PROVE  /\ StatusRead(file) \in 1 .. 3 => verdicts \cap 1 .. 3 # {}
         /\ StatusRead(file) \in {4, 5, 6, 7, 10, 11} =>
              verdicts \cap ({1, 10, 11} \union 4 .. 7) # {}
         /\ IsSeven(file) => 7 \in verdicts
<1>1. file \in Seq(Bytes)
  BY DEF IInv, TypeOK, FileType
<1> PICK st : st = StatusRead(file)
  OBVIOUS
<1>2. ASSUME st \in Statuses
      PROVE  /\ Shows(file, Digits(st)) /\ Digits(st) \in Seq(Bytes) /\ 1 \in 1 .. Len(Digits(st))
             /\ \E i \in DOMAIN file : file[i] = Digits(st)[1]
  <2>1. Shows(file, Digits(st)) /\ Digits(st) \in Seq(Bytes) /\ 1 \in 1 .. Len(Digits(st))
    <3>1. Shows(file, Digits(st))
      BY <1>2, ReadShown
    <3>2. Digits(st) \in Seq(Bytes) /\ (Len(Digits(st)) = 1 \/ Len(Digits(st)) = 2)
      BY <1>2, StatusDigits DEF Statuses
    <3>3. 1 \in 1 .. Len(Digits(st))
      BY <3>2
    <3> QED
      BY <3>1, <3>2, <3>3
  <2> QED
    BY <1>1, <2>1, ShownBytes
<1>3. ASSUME st \in 2 .. 7
      PROVE  st \in verdicts
  <2>1. st \in Statuses /\ Digits(st)[1] = st
    BY <1>3, StatusDigits DEF Statuses
  <2>2. PICK i \in DOMAIN file : file[i] = st
    BY <1>2, <2>1
  <2> QED
    BY <1>3, <2>2 DEF FileInv, Accounted
<1>4. ASSUME st \in {10, 11}
      PROVE  verdicts \cap {1, 10, 11} # {}
  <2>1. st \in Statuses /\ Digits(st)[1] = 1
    BY <1>4, StatusDigits DEF Statuses
  <2>2. PICK i \in DOMAIN file : file[i] = 1
    BY <1>2, <2>1
  <2> QED
    BY <2>2 DEF FileInv, Accounted
<1>5. ASSUME st = 1
      PROVE  1 \in verdicts
  <2>1. 1 \in Statuses /\ Digits(st) = <<1>>
    BY <1>5, StatusDigits DEF Statuses
  <2>2. Shows(file, <<1>>)
    BY <1>2, <1>5, <2>1
  <2> QED
    BY <1>1, <2>2, ShownDigit DEF FileInv
<1>6. ASSUME IsSeven(file)
      PROVE  7 \in verdicts
  <2>1. Len(file) \in DOMAIN file /\ file[Len(file)] = 7
    BY <1>1, <1>6 DEF IsSeven
  <2> QED
    BY <2>1 DEF FileInv, Accounted
<1>7. st \in 1 .. 3 => verdicts \cap 1 .. 3 # {}
  BY <1>3, <1>5
<1>8. st \in {4, 5, 6, 7, 10, 11} => verdicts \cap ({1, 10, 11} \union 4 .. 7) # {}
  BY <1>3, <1>4
<1> QED
  BY <1>6, <1>7, <1>8

(* What accounts for the bytes that are written accounts for the file.     *)
LEMMA FileWritten ==
  ASSUME IInv, FileInv, UNCHANGED verdicts, NEW at \in Nat, NEW digits \in Seq(Bytes),
         digits # <<>>, \A k \in 1 .. Len(digits) : digits[k] # NUL /\ Accounted(digits[k]),
         Len(digits) = 1 /\ digits[1] = 1 => 1 \in verdicts,
         file' = Overwrite(file, at, digits)
  PROVE  FileInv'
<1> PICK o : o = file'
  OBVIOUS
<1>1. file \in Seq(Bytes) /\ o = Overwrite(file, at, digits)
  BY DEF IInv, TypeOK, FileType
<1>2. DOMAIN o = 1 .. Larger(Len(file), at + Len(digits)) /\ Len(digits) \in Nat \ {0}
  BY <1>1, OverwriteLength
<1>3. ASSUME NEW i \in DOMAIN o
      PROVE  Accounted(o[i])
  <2>1. Accounted(NUL)
    BY DEF Accounted, NUL
  <2>2. \/ i - at \in 1 .. Len(digits) /\ o[i] = digits[i - at]
        \/ i \in DOMAIN file /\ o[i] = file[i]
        \/ o[i] = NUL
    BY <1>1, OverwriteByte
  <2> QED
    BY <2>1, <2>2 DEF FileInv
<1>4. ASSUME NEW i \in DOMAIN o, o[i] = 1, OnlyDigit(o, i)
      PROVE  1 \in verdicts
  <2>1. ASSUME NEW k \in 1 .. Len(digits)
        PROVE  at + k = i /\ o[i] = digits[k]
    <3>1. at + k \in DOMAIN o /\ (at + k) - at = k
      BY <1>2 DEF Larger
    <3> PICK j : j = at + k
      OBVIOUS
    <3>2. o[j] = digits[k]
      <4>1. j \in DOMAIN o /\ j - at = k
        BY <3>1
      <4>2. \/ j - at \in 1 .. Len(digits) /\ o[j] = digits[j - at]
            \/ j - at \notin 1 .. Len(digits)
        BY <1>1, <4>1, OverwriteByte
      <4> QED
        BY <4>1, <4>2
    <3>3. j = i
      BY <1>4, <3>1, <3>2 DEF OnlyDigit
    <3> QED
      BY <3>2, <3>3
  <2>2. 1 \in 1 .. Len(digits)
    BY <1>2
  <2>3. Len(digits) = 1
    <3>1. CASE 2 \in 1 .. Len(digits)
      <4>1. at + 1 = i /\ at + 2 = i
        BY <2>1, <2>2, <3>1
      <4> QED
        BY <4>1
    <3> PICK m \in Nat \ {0} : m = Len(digits)
      BY <1>2
    <3>2. ~(2 \in 1 .. m)
      BY <3>1
    <3> QED
      BY <3>2
  <2> QED
    BY <1>4, <2>1, <2>2, <2>3
<1>5. \A i \in DOMAIN o : o[i] = 1 /\ OnlyDigit(o, i) => 1 \in verdicts
  BY <1>4
<1> QED
  BY <1>3, <1>5 DEF FileInv, Accounted

(* A digit of a status that is not a reason to take the machine down.      *)
LEMMA FileLowered ==
  ASSUME IInv, FileInv, UNCHANGED verdicts, NEW b \in {0, 8, 9},
         file' = Overwrite(file, 0, <<b>>)
  PROVE  FileInv'
<1> DEFINE d == <<b>>
<1>1. d \in Seq(Bytes) /\ d # <<>> /\ Len(d) = 1 /\ d[1] = b
  BY DEF Bytes
<1>2. \A k \in 1 .. Len(d) : d[k] # NUL /\ Accounted(d[k])
  BY <1>1 DEF Accounted, NUL
<1>3. file' = Overwrite(file, 0, d) /\ 0 \in Nat
  OBVIOUS
<1> HIDE DEF d
<1> QED
  BY <1>1, <1>2, <1>3, FileWritten

LEMMA FileSame ==
  ASSUME FileInv, UNCHANGED file, verdicts \subseteq verdicts'
  PROVE  FileInv'
<1>1. \A b : Accounted(b) => Accounted(b)'
  BY DEF Accounted
<1> QED
  BY <1>1 DEF FileInv, OnlyDigit

(* Steps that decide nothing or something, and take nothing down.          *)
LEMMA VerdictsGrow ==
  ASSUME TakenDownOnlyIfCalledFor, ScriptInv, UNCHANGED <<down, autoPowerOn>>,
         severe => severe', NEW st, verdicts' = verdicts \/ verdicts' = verdicts \union {st},
         verdicts' # verdicts /\ st \in 1 .. 7 \union {11} => severe',
         \A s \in Scripts :
           script'[s].pc \in {"halt", "waiting", "shutdown"} => script'[s].pc = script[s].pc
  PROVE  TakenDownOnlyIfCalledFor' /\ ScriptInv'
<1>1. TakenDownOnlyIfCalledFor'
  BY DEF TakenDownOnlyIfCalledFor
<1>2. ScriptInv'
  BY DEF ScriptInv
<1> QED
  BY <1>1, <1>2

LEMMA CalledInit == Init => CalledInv
<1> SUFFICES ASSUME Init PROVE CalledInv
  OBVIOUS
<1>1. file = <<0>> /\ verdicts = {} /\ down = "no" /\ autoPowerOn = FALSE /\ pc = "idle"
      /\ severe = (sensor >= SYSTEM_SHUTDOWN)
  BY DEF Init
<1>2. TakenDownOnlyIfCalledFor
  BY <1>1 DEF TakenDownOnlyIfCalledFor
<1>3. SevereInv /\ StatusInv
  BY <1>1 DEF SevereInv, StatusInv
<1>4. FileInv
  BY <1>1 DEF FileInv, Accounted
<1>5. ScriptInv
  BY DEF Init, NoScript, ScriptInv
<1> QED
  BY <1>2, <1>3, <1>4, <1>5 DEF CalledInv

LEMMA CalledMain ==
  ASSUME IInv, CalledInv,
         \/ \E e \in Events : Receive(e)
         \/ TestTimer \/ ArmTimer \/ Extend \/ SeekStatus \/ WriteStatus
         \/ epow_timer_handler \/ SensorChanges \/ UNCHANGED vars
  PROVE  CalledInv'
<1> USE DEF CalledInv
<1>1. \A s \in Scripts :
        script'[s].pc \in {"halt", "waiting", "shutdown"} => script'[s].pc = script[s].pc
  BY MainRests DEF Rests, Stays
<1>2. sensor \in SensorValues /\ handled \in Int /\ handled + 1 \in Int
  BY ConstantsAssumption DEF IInv, TypeOK, PlatformType, MainType
<1>3. ASSUME UNCHANGED <<down, autoPowerOn, severe, verdicts>>
      PROVE  TakenDownOnlyIfCalledFor' /\ ScriptInv'
  BY <1>1, <1>3, VerdictsGrow
<1>4. CASE \E e \in Events : Receive(e)
  <2>1. PICK e \in Events : Receive(e)
    BY <1>4
  <2>2. UNCHANGED <<down, autoPowerOn, severe, sensor, file>>
    BY <2>1 DEF Receive, machine, platform, statusFile
  <2>3. CASE BeginsShutdown(e, sensor) /\ pc' = "test" /\ UNCHANGED verdicts
    <3>1. SevereInv'
      BY <2>2, <2>3 DEF SevereInv, BeginsShutdown, SYSTEM_SHUTDOWN
    <3> QED
      BY <1>3, <2>2, <2>3, <3>1, FileSame DEF StatusInv
  <2>4. CASE pc' = "seek" /\ Decide(handled + 1, OtherStatus(e, sensor))
    <3> PICK st : st = OtherStatus(e, sensor)
      OBVIOUS
    <3>1. status' = st /\ verdicts' = verdicts \union {st}
      BY <2>4 DEF Decide
    <3>2. st \in 1 .. 7 \union {11} => severe
      BY <1>2, OtherSevere DEF SevereInv
    <3>3. TakenDownOnlyIfCalledFor' /\ ScriptInv'
      BY <1>1, <2>2, <3>1, <3>2, VerdictsGrow
    <3>4. SevereInv' /\ StatusInv' /\ FileInv'
      BY <2>2, <2>4, <3>1, FileSame DEF SevereInv, StatusInv
    <3> QED
      BY <3>3, <3>4
  <2> QED
    BY <2>1, <2>3, <2>4 DEF Receive
<1>5. CASE TestTimer \/ ArmTimer \/ SeekStatus \/ UNCHANGED vars
  <2>1. UNCHANGED <<down, autoPowerOn, severe, sensor, file, verdicts, status>>
        /\ (pc' \in {"test", "arm", "extend"} => pc \in {"test", "arm", "extend"})
        /\ (pc' \in {"seek", "write"} => pc \in {"seek", "write"})
    BY <1>5 DEF TestTimer, ArmTimer, SeekStatus, vars, machine, platform, statusFile, history,
                mainVars
  <2> QED
    BY <1>3, <2>1, FileSame DEF SevereInv, StatusInv
<1>6. CASE Extend
  <2> PICK st : st = ShutdownStatus(event)
    OBVIOUS
  <2>1. UNCHANGED <<down, autoPowerOn, severe, sensor, file>> /\ severe /\ pc' = "seek"
    BY <1>6 DEF Extend, machine, platform, statusFile, SevereInv
  <2>2. status' = st /\ verdicts' = verdicts \union {st}
    BY <1>6 DEF Extend, Decide
  <2>3. TakenDownOnlyIfCalledFor' /\ ScriptInv'
    BY <1>1, <2>1, <2>2, VerdictsGrow
  <2> QED
    BY <2>1, <2>2, <2>3, FileSame DEF SevereInv, StatusInv
<1>7. CASE WriteStatus
  <2>1. UNCHANGED <<down, autoPowerOn, severe, sensor, verdicts>> /\ pc' \in {"fork", "idle"}
        /\ file' = Overwrite(file, offset, Digits(status)) /\ status \in verdicts
    BY <1>7 DEF WriteStatus, machine, platform, history, StatusInv
  <2> DEFINE d == Digits(status)
  <2>2. offset \in Nat /\ status \in Statuses
    BY DEF IInv, TypeOK, FileType, MainType
  <2>3. d \in Seq(Bytes) /\ d # <<>> /\ \A k \in 1 .. Len(d) : d[k] # NUL /\ Accounted(d[k])
    <3>1. CASE status < 10
      <4>1. d \in Seq(Bytes) /\ Len(d) = 1 /\ d[1] = status
        BY <2>2, <3>1, OneDigit
      <4>2. status # NUL /\ Accounted(status)
        BY <2>1, <2>2 DEF Accounted, NUL, Statuses
      <4>3. \A k \in 1 .. Len(d) : k = 1
        BY <4>1
      <4> QED
        BY <4>1, <4>2, <4>3
    <3>2. CASE ~(status < 10)
      <4>1. status \in {10, 11}
        BY <2>2, <3>2 DEF Statuses
      <4>2. Accounted(0) /\ Accounted(1)
        BY <2>1, <4>1 DEF Accounted
      <4>3. d \in Seq(Bytes) /\ Len(d) = 2 /\ d[1] = 1 /\ d[2] \in {0, 1}
        BY <2>2, <3>2, TwoDigit
      <4>4. \A k \in 1 .. Len(d) : k = 1 \/ k = 2
        BY <4>3
      <4>5. 0 # NUL /\ 1 # NUL /\ d # <<>>
        BY <4>3 DEF NUL
      <4> QED
        BY <4>2, <4>3, <4>4, <4>5
    <3> QED
      BY <3>1, <3>2
  <2>4. ASSUME Len(d) = 1, d[1] = 1
        PROVE  1 \in verdicts
    <3>1. CASE status < 10
      <4>1. d[1] = status
        BY <2>2, <3>1, OneDigit
      <4> QED
        BY <2>1, <2>4, <4>1
    <3>2. CASE ~(status < 10)
      BY <2>2, <2>4, <3>2, TwoDigit
    <3> QED
      BY <3>1, <3>2
  <2>5. FileInv'
    <3> HIDE DEF d
    <3>1. file' = Overwrite(file, offset, d)
      BY <2>1 DEF d
    <3> QED
      BY <2>1, <2>2, <2>3, <2>4, <3>1, FileWritten
  <2> QED
    BY <1>3, <2>1, <2>5 DEF SevereInv, StatusInv
<1>8. CASE epow_timer_handler
  <2>1. UNCHANGED <<down, autoPowerOn, severe, sensor, verdicts, pc, status>>
    BY <1>8 DEF epow_timer_handler, mainVars, machine, platform
  <2>2. FileInv'
    <3>1. CASE TimerExpired \/ TimerContinues
      BY <2>1, <3>1, FileSame DEF TimerExpired, TimerContinues, statusFile
    <3>2. CASE TimerRecovered
      <4> DEFINE st == CASE sensor = RESET -> 0
                         [] sensor = WARN_COOLING -> 8
                         [] sensor = WARN_POWER -> 9
      <4>1. sensor \in RESET .. SYSTEM_SHUTDOWN - 1 /\ file' = Overwrite(file, 0, Digits(st))
        BY <3>2 DEF TimerRecovered
      <4>2. st \in {0, 8, 9}
        BY <4>1 DEF RESET, WARN_COOLING, WARN_POWER, SYSTEM_SHUTDOWN
      <4> HIDE DEF st
      <4>3. Digits(st) = <<st>>
        BY <4>2 DEF Digits
      <4> QED
        BY <2>1, <4>1, <4>2, <4>3, FileLowered
    <3> QED
      BY <1>8, <3>1, <3>2 DEF epow_timer_handler
  <2> QED
    BY <1>3, <2>1, <2>2 DEF SevereInv, StatusInv
<1>9. CASE SensorChanges
  <2>1. UNCHANGED <<down, autoPowerOn, verdicts, pc, status, file>>
        /\ severe' = (severe \/ sensor' >= SYSTEM_SHUTDOWN)
    BY <1>9 DEF SensorChanges, machine, statusFile, mainVars, history
  <2>2. severe => severe'
    BY <2>1
  <2>3. TakenDownOnlyIfCalledFor' /\ ScriptInv'
    BY <1>1, <2>1, <2>2, VerdictsGrow
  <2> QED
    BY <2>1, <2>2, <2>3, FileSame DEF SevereInv, StatusInv
<1> QED
  BY <1>4, <1>5, <1>6, <1>7, <1>8, <1>9

LEMMA CalledRest ==
  ASSUME IInv, CalledInv, Fork \/ Restart \/ Tick
  PROVE  CalledInv'
<1> USE DEF CalledInv
<1>1. \A s \in Scripts :
        script'[s].pc \in {"halt", "waiting", "shutdown"} => script'[s].pc = script[s].pc
  BY ForkScripts, RestartScripts, TickScripts DEF Rests, Stays
<1>2. UNCHANGED <<down, autoPowerOn, severe, verdicts, sensor>>
      /\ (pc' = "idle" \/ UNCHANGED <<pc, status>>)
  BY DEF Fork, Restart, Tick, machine, platform, history
<1>3. TakenDownOnlyIfCalledFor' /\ ScriptInv'
  BY <1>1, <1>2, VerdictsGrow
<1>4. SevereInv' /\ StatusInv'
  BY <1>2 DEF SevereInv, StatusInv
<1>5. FileInv'
  <2>1. CASE Restart
    <3>1. file' = <<0>>
      BY <2>1 DEF Restart
    <3> QED
      BY <3>1 DEF FileInv, Accounted
  <2>2. CASE Fork \/ Tick
    BY <1>2, <2>2, FileSame DEF Fork, Tick, statusFile
  <2> QED
    BY <2>1, <2>2
<1> QED
  BY <1>3, <1>4, <1>5

LEMMA CalledScript ==
  ASSUME IInv, CalledInv, NEW s \in Scripts, ScriptStep(s)
  PROVE  CalledInv'
<1> USE DEF CalledInv
<1>1. UNCHANGED <<severe, verdicts, sensor, pc, status>> /\ \A t \in Scripts : t # s => Rests(t)
  BY ScriptMoves DEF ScriptOnly, mainVars, history, platform
<1>2. SevereInv' /\ StatusInv'
  BY <1>1 DEF SevereInv, StatusInv
<1>3. script \in [Scripts -> ScriptStates]
  BY DEF IInv, TypeOK, ScriptType
<1>4. ASSUME NEW p, Goto(s, p)
      PROVE  script'[s].pc = p
  BY <1>3, <1>4 DEF Goto, ScriptStates
<1>5. ASSUME script'[s].pc = "halt" => verdicts \cap 1 .. 3 # {},
             script'[s].pc \in {"waiting", "shutdown"} =>
               verdicts \cap ({1, 10, 11} \union 4 .. 7) # {}
      PROVE  ScriptInv'
  BY <1>1, <1>5 DEF ScriptInv, Rests, Stays
<1>6. CASE ReadStatus(s)
  <2>1. UNCHANGED <<down, autoPowerOn, file>>
    BY <1>6 DEF ReadStatus, machine
  <2>2. \/ script'[s].pc \notin {"halt", "waiting", "shutdown"}
        \/ StatusRead(file) \in 1 .. 3 /\ script'[s].pc = "halt"
        \/ StatusRead(file) \in {4, 5, 10, 11} /\ script'[s].pc = "shutdown"
        \/ StatusRead(file) \in {6, 7} /\ script'[s].pc = "waiting"
    <3>1. ASSUME NEW d, script' = [script EXCEPT
               ![s].pc = "waiting", ![s].sleep = d, ![s].left = ScriptTicks]
          PROVE  script'[s].pc = "waiting"
      BY <1>3, <3>1 DEF ScriptStates
    <3> QED
      BY <1>4, <1>6, <3>1 DEF ReadStatus
  <2>3. ScriptInv'
    BY <1>5, <2>2, ReadDecided
  <2>4. TakenDownOnlyIfCalledFor'
    BY <1>1, <2>1 DEF TakenDownOnlyIfCalledFor
  <2> QED
    BY <1>1, <1>2, <2>1, <2>3, <2>4, FileSame
<1>7. CASE Poll(s)
  <2>1. UNCHANGED <<down, autoPowerOn, file>>
    BY <1>7 DEF Poll, machine
  <2>2. script[s].pc = "waiting" /\ script'[s].pc # "halt"
    <3>1. ASSUME script' = [script EXCEPT
               ![s].left = @ - 1, ![s].sleep = 1,
               ![s].pc = IF script[s].left > 1 THEN "waiting" ELSE "shutdown"]
          PROVE  script'[s].pc \in {"waiting", "shutdown"}
      BY <1>3, <3>1 DEF ScriptStates
    <3> QED
      BY <1>4, <1>7, <3>1 DEF Poll, At
  <2>3. ScriptInv'
    BY <1>5, <2>2 DEF ScriptInv
  <2>4. TakenDownOnlyIfCalledFor'
    BY <1>1, <2>1 DEF TakenDownOnlyIfCalledFor
  <2> QED
    BY <1>1, <1>2, <2>1, <2>3, <2>4, FileSame
<1>8. CASE Halt(s)
  <2>1. UNCHANGED <<autoPowerOn, file>> /\ down' \in {"halt", "no"} /\ script[s].pc = "halt"
        /\ script'[s].pc = "ended"
    BY <1>4, <1>8 DEF Halt, At
  <2>2. TakenDownOnlyIfCalledFor'
    BY <1>1, <2>1 DEF TakenDownOnlyIfCalledFor, ScriptInv
  <2> QED
    BY <1>1, <1>2, <1>5, <2>1, <2>2, FileSame
<1>9. CASE Shutdown(s)
  <2>1. UNCHANGED file /\ down' \in {"shutdown", "no"} /\ script[s].pc = "shutdown"
        /\ script'[s].pc = "ended"
    BY <1>4, <1>9 DEF Shutdown, At
  <2>2. autoPowerOn' => autoPowerOn \/ IsSeven(file)
    BY <1>9 DEF Shutdown
  <2>3. autoPowerOn' => 7 \in verdicts
    BY <2>2, ReadDecided DEF TakenDownOnlyIfCalledFor
  <2>4. TakenDownOnlyIfCalledFor'
    BY <1>1, <2>1, <2>3 DEF TakenDownOnlyIfCalledFor, ScriptInv
  <2> QED
    BY <1>1, <1>2, <1>5, <2>1, <2>4, FileSame
<1>10. CASE Truncate(s) \/ Echo(s)
  <2>1. UNCHANGED <<down, autoPowerOn>>
    BY <1>10 DEF Truncate, Echo, machine
  <2>2. script'[s].pc \in {"echo", "ended"}
    <3>1. Lower(handled, "echo")[s] \in ScriptStates /\ DOMAIN Lower(handled, "echo") = Scripts
      BY LowerFacts DEF IInv, TypeOK, MainType, Lowerings, Lower
    <3> QED
      BY <1>10, <3>1 DEF Truncate, Echo, ScriptStates
  <2>3. TakenDownOnlyIfCalledFor' /\ ScriptInv'
    BY <1>1, <1>5, <2>1, <2>2 DEF TakenDownOnlyIfCalledFor
  <2>4. FileInv'
    <3>1. CASE Truncate(s)
      <4>1. file' = <<>>
        BY <3>1 DEF Truncate
      <4> QED
        BY <4>1 DEF FileInv
    <3>2. CASE Echo(s)
      BY <1>1, <3>2, FileLowered DEF Echo
    <3> QED
      BY <1>10, <3>1, <3>2
  <2> QED
    BY <1>2, <2>3, <2>4
<1> QED
  BY <1>6, <1>7, <1>8, <1>9, <1>10 DEF ScriptStep

-----------------------------------------------------------------------------
(* No script gives up what has not been lowered.                           *)

LEMMA ForkedNext ==
  ASSUME IInv, ForkedInv, [Next]_vars
  PROVE  ForkedInv'
<1>1. handled \in Nat /\ \A s \in Scripts : s \in Int
  BY DEF IInv, TypeOK, MainType, Scripts
<1>2. CASE \E e \in Events : Receive(e)
  <2>1. handled' = handled + 1 /\ pc = "idle"
    BY <1>2 DEF Receive
  <2>2. \A s \in Scripts : Forked(s)' => Forked(s)
    BY <1>2, MainRests DEF Rests, Stays, Forked
  <2> QED
    BY <1>1, <2>1, <2>2 DEF ForkedInv
<1>3. CASE TestTimer \/ ArmTimer \/ Extend \/ SeekStatus \/ WriteStatus
           \/ epow_timer_handler \/ SensorChanges \/ UNCHANGED vars
  <2>1. handled' = handled /\ (pc' # "idle" => pc # "idle")
    BY <1>3 DEF TestTimer, ArmTimer, Extend, SeekStatus, WriteStatus, epow_timer_handler,
                SensorChanges, vars, mainVars
  <2>2. \A s \in Scripts : Forked(s)' => Forked(s)
    BY <1>3, MainRests DEF Rests, Stays, Forked
  <2> QED
    BY <2>1, <2>2 DEF ForkedInv
<1>4. CASE Fork
  <2>1. handled' = handled /\ pc' = "idle"
    BY <1>4 DEF Fork
  <2>2. \A s \in Scripts : Forked(s)' => Forked(s) \/ s = handled
    BY <1>4, ForkScripts DEF Rests, Stays, Forked
  <2> QED
    BY <1>1, <2>1, <2>2 DEF ForkedInv
<1>5. CASE Restart
  <2>1. handled' = handled /\ pc' = "idle"
    BY <1>5 DEF Restart
  <2> QED
    BY <1>5, <2>1, RestartScripts DEF ForkedInv
<1>6. CASE Tick
  <2>1. handled' = handled /\ pc' = pc
    BY <1>6 DEF Tick
  <2>2. \A s \in Scripts : Forked(s)' => Forked(s)
    BY <1>6, TickScripts DEF Stays, Forked
  <2> QED
    BY <2>1, <2>2 DEF ForkedInv
<1>7. CASE \E s \in Scripts : ScriptStep(s)
  <2>1. PICK s \in Scripts : ScriptStep(s)
    BY <1>7
  <2>2. handled' = handled /\ pc' = pc /\ \A t \in Scripts : t # s => Rests(t)
    BY <2>1, ScriptMoves DEF ScriptOnly, mainVars
  <2>3. Forked(s)
    BY <2>1 DEF ScriptStep, ReadStatus, Poll, Halt, Shutdown, Truncate, Echo, At, Forked
  <2>4. \A t \in Scripts : Forked(t)' => Forked(t)
    BY <2>2, <2>3 DEF Rests, Stays, Forked
  <2> QED
    BY <2>2, <2>4 DEF ForkedInv
<1> QED
  BY <1>2, <1>3, <1>4, <1>5, <1>6, <1>7 DEF Next, ScriptStep

(* What scripts know stays true while they learn nothing new.              *)
LEMMA StillGivesUp ==
  ASSUME GivesUpOnlyIfLowered, verdicts \subseteq verdicts', raced \subseteq raced',
         NEW S \in SUBSET Scripts,
         \A s \in S : script'[s].pc \in {"normal", "cancelled", "undefined"} =>
           script'[s].pc = script[s].pc /\ (~Steady(s) => ~Steady(s)')
  PROVE  \A s \in S :
           script'[s].pc \in {"normal", "cancelled", "undefined"} =>
             ~Steady(s)' \/ (script'[s].pc = "undefined" /\ TwoDigits')
  BY DEF GivesUpOnlyIfLowered, Steady, TwoDigits

LEMMA GivesUpFrom ==
  ASSUME \A s \in Scripts :
           script'[s].pc \in {"normal", "cancelled", "undefined"} =>
             ~Steady(s)' \/ (script'[s].pc = "undefined" /\ TwoDigits')
  PROVE  GivesUpOnlyIfLowered'
  BY DEF GivesUpOnlyIfLowered, Steady, TwoDigits

LEMMA AllStillGiveUp ==
  ASSUME GivesUpOnlyIfLowered, verdicts \subseteq verdicts', raced \subseteq raced',
         \A s \in Scripts : Stays(s)
  PROVE  GivesUpOnlyIfLowered'
<1>1. \A s \in Scripts :
           script'[s].pc \in {"normal", "cancelled", "undefined"} =>
             ~Steady(s)' \/ (script'[s].pc = "undefined" /\ TwoDigits')
  BY StillGivesUp DEF Stays
<1> QED
  BY <1>1, GivesUpFrom

LEMMA FileTold ==
  ASSUME LengthInv, ReadyInv, UNCHANGED file, verdicts \subseteq verdicts', raced \subseteq raced',
         \A s \in Scripts : Stays(s), pc' # "fork" \/ UNCHANGED <<pc, handled>>
  PROVE  LengthInv' /\ ReadyInv'
<1>1. LengthInv'
  BY DEF LengthInv, TwoDigits
<1>2. \A S : FirstIn(file, S)' = FirstIn(file, S)
  BY DEF FirstIn
<1>3. ReadyInv'
  BY <1>2 DEF ReadyInv, Stays, OnlyDigit, FirstIn
<1> QED
  BY <1>1, <1>3

LEMMA ToldInit == Init => ToldInv /\ ForkedInv
<1> SUFFICES ASSUME Init PROVE ToldInv /\ ForkedInv
  OBVIOUS
<1>1. pc = "idle" /\ file = <<0>> /\ \A s \in Scripts : script[s].pc = "none"
  BY DEF Init, NoScript
<1>2. GivesUpOnlyIfLowered /\ WriteInv /\ ReadyInv
  BY <1>1 DEF GivesUpOnlyIfLowered, WriteInv, ReadyInv
<1>3. LengthInv
  BY <1>1 DEF LengthInv
<1> QED
  BY <1>1, <1>2, <1>3 DEF ToldInv, ForkedInv, Forked

LEMMA ToldMain ==
  ASSUME IInv, ToldInv,
         \/ \E e \in Events : Receive(e)
         \/ TestTimer \/ ArmTimer \/ Extend \/ SeekStatus \/ SensorChanges \/ UNCHANGED vars
  PROVE  ToldInv'
<1> USE DEF ToldInv
<1>1. \A s \in Scripts : Stays(s)
  BY MainRests DEF Rests
<1>2. UNCHANGED <<file, raced>> /\ verdicts \subseteq verdicts'
  BY DEF Receive, Decide, TestTimer, ArmTimer, Extend, SeekStatus, SensorChanges, vars,
         statusFile, history
<1>3. pc' # "fork" \/ UNCHANGED <<pc, handled>>
  BY DEF Receive, TestTimer, ArmTimer, Extend, SeekStatus, SensorChanges, vars, mainVars
<1>4. GivesUpOnlyIfLowered' /\ LengthInv' /\ ReadyInv'
  BY <1>1, <1>2, <1>3, AllStillGiveUp, FileTold
<1>5. WriteInv'
  <2>1. CASE \E e \in Events : Receive(e)
    <3>1. PICK e \in Events : Receive(e)
      BY <2>1
    <3>2. CASE pc' = "test"
      BY <3>2 DEF WriteInv
    <3>3. CASE pc' = "seek" /\ Decide(handled + 1, OtherStatus(e, sensor))
      <4> PICK n \in Int : n = handled + 1
        BY DEF IInv, TypeOK, MainType
      <4>1. status' \in Improved => AllLowered(n - 1)'
        BY <3>3, DecideRests
      <4>2. handled' = n
        BY <3>1 DEF Receive
      <4> QED
        BY <3>3, <4>1, <4>2 DEF WriteInv, AllLowered
    <3> QED
      BY <3>1, <3>2, <3>3 DEF Receive
  <2>2. CASE Extend
    <3> PICK n \in Int : n = handled
      BY DEF IInv, TypeOK, MainType
    <3>1. status' \in Improved => AllLowered(n - 1)'
      BY <2>2, DecideRests DEF Extend
    <3>2. handled' = n /\ pc' = "seek"
      BY <2>2 DEF Extend
    <3> QED
      BY <3>1, <3>2 DEF WriteInv, AllLowered
  <2>3. CASE TestTimer \/ ArmTimer
    <3>1. pc' \in {"arm", "extend"}
      BY <2>3 DEF TestTimer, ArmTimer
    <3> QED
      BY <3>1 DEF WriteInv
  <2>4. CASE SeekStatus \/ SensorChanges \/ UNCHANGED vars
    <3>1. UNCHANGED <<handled, status>> /\ ((offset' = 0 /\ pc = "seek") \/ UNCHANGED <<pc, offset>>)
      BY <2>4 DEF SeekStatus, SensorChanges, vars, mainVars, statusFile
    <3>2. AllLowered(handled) => AllLowered(handled)'
      BY <1>1, <3>1 DEF AllLowered, Stays
    <3>3. AllLowered(handled - 1) => AllLowered(handled - 1)'
      BY <1>1, <3>1 DEF AllLowered, Stays
    <3> QED
      BY <1>2, <3>1, <3>2, <3>3 DEF WriteInv
  <2> QED
    BY <2>1, <2>2, <2>3, <2>4
<1> QED
  BY <1>4, <1>5

LEMMA ToldWrite ==
  ASSUME IInv, StatusInv, ForkedInv, ToldInv, WriteStatus
  PROVE  ToldInv'
<1> USE DEF ToldInv
<1> PICK d : d = Digits(status)
  OBVIOUS
<1>1. /\ pc = "write" /\ file' = Overwrite(file, offset, d)
      /\ pc' \in {"fork", "idle"} /\ (pc' = "fork" => status > 0)
      /\ UNCHANGED <<script, verdicts, raced, handled>>
  BY DEF WriteStatus, history
<1>2. \A s \in Scripts : Stays(s)
  BY <1>1 DEF Stays, Steady
<1>3. GivesUpOnlyIfLowered' /\ WriteInv'
  BY <1>1, <1>2, AllStillGiveUp DEF WriteInv
<1>4. file \in Seq(Bytes) /\ offset \in Nat /\ status \in Statuses /\ handled \in Nat
  BY DEF IInv, TypeOK, FileType, MainType
<1>5. d \in Seq(Bytes) /\ Len(d) > 0
      /\ \/ Len(d) = 1 /\ d[1] = status /\ status < 10
         \/ Len(d) = 2 /\ d[1] = 1 /\ status \in {10, 11}
  <2>1. CASE status < 10
    <3>1. d \in Seq(Bytes) /\ Len(d) = 1 /\ d[1] = status
      BY <1>4, <2>1, OneDigit
    <3>2. Len(d) > 0
      BY <3>1
    <3>3. Len(d) = 1 /\ d[1] = status /\ status < 10
      BY <2>1, <3>1
    <3> QED
      BY <3>1, <3>2, <3>3, Zenon
  <2>2. CASE ~(status < 10)
    <3>1. Len(d) = 2 /\ d[1] = 1 /\ status \in {10, 11} /\ d \in Seq(Bytes)
      BY <1>4, <2>2, TwoDigit
    <3>2. Len(d) > 0
      BY <3>1
    <3> QED
      BY <3>1, <3>2, Zenon
  <2> QED
    BY <2>1, <2>2
<1>6. status \in verdicts
  BY <1>1 DEF StatusInv
<1>7. ASSUME offset = 0
      PROVE  /\ file' # <<>> /\ file'[1] = d[1] /\ Len(file') = Larger(Len(file), Len(d))
             /\ \A i \in DOMAIN file' : i > Len(d) => i \in DOMAIN file /\ file'[i] = file[i]
  BY <1>1, <1>4, <1>5, <1>7, OverwriteStart
<1>8. LengthInv'
  <2>1. ASSUME offset # 0
        PROVE  TwoDigits'
    BY <1>1, <2>1 DEF WriteInv, TwoDigits
  <2>2. ASSUME offset = 0, Len(file') > 1
        PROVE  TwoDigits'
    <3>1. Len(file) > 1 \/ Len(d) = 2
      <4> PICK m, n \in Nat : m = Len(file) /\ n = Len(d)
        BY <1>4, <1>5
      <4>1. Len(file') = Larger(m, n)
        BY <1>7, <2>2
      <4>2. m > 1 \/ n > 1
        BY <2>2, <4>1 DEF Larger
      <4>3. n = 1 \/ n = 2
        BY <1>5
      <4> QED
        BY <4>2, <4>3
    <3> QED
      BY <1>1, <1>5, <1>6, <3>1 DEF LengthInv, TwoDigits
  <2> QED
    BY <2>1, <2>2 DEF LengthInv
<1>9. ASSUME NEW s \in Scripts, Steady(s)'
      PROVE  /\ script'[s].pc = "start" \/ (pc' = "fork" /\ s = handled') => FirstIn(file', 1 .. 9)
             /\ script'[s].pc = "waiting" => FirstIn(file', 1 .. 7) /\ OnlyDigit(file', 1)
  <2>1. Steady(s) /\ s \in Int
    BY <1>1, <1>9 DEF Steady, Scripts
  <2>2. ASSUME script[s].pc \in {"start", "waiting"}
        PROVE  offset = 0 /\ status \in 1 .. 7
    <3>1. s <= handled /\ s <= handled - 1
      BY <1>1, <1>4, <2>1, <2>2 DEF ForkedInv, Forked
    <3>2. offset = 0 /\ status \notin Improved
      BY <1>1, <2>1, <3>1 DEF WriteInv, AllLowered
    <3> QED
      BY <1>4, <3>2 DEF Improved, Statuses
  <2>3. CASE script'[s].pc = "start"
    <3>1. offset = 0 /\ status \in 1 .. 7
      BY <1>1, <2>2, <2>3
    <3> QED
      BY <1>5, <1>7, <2>3, <3>1 DEF FirstIn
  <2>4. CASE pc' = "fork" /\ s = handled'
    <3>1. offset = 0
      BY <1>1, <1>4, <2>1, <2>4 DEF WriteInv, AllLowered
    <3>2. d[1] \in 1 .. 9
      BY <1>1, <1>4, <1>5, <2>4 DEF Statuses
    <3>3. FirstIn(file', 1 .. 9)
      BY <1>7, <3>1, <3>2 DEF FirstIn
    <3>4. script[s].pc # "waiting"
      BY <1>1, <1>4, <2>4 DEF ForkedInv, Forked
    <3> QED
      BY <1>1, <3>3, <3>4
  <2>5. CASE script'[s].pc = "waiting"
    <3>1. offset = 0 /\ status \in 1 .. 7 /\ OnlyDigit(file, 1)
      BY <1>1, <2>1, <2>2, <2>5 DEF ReadyInv
    <3>2. FirstIn(file', 1 .. 7) /\ FirstIn(file', 1 .. 9)
      BY <1>5, <1>7, <3>1 DEF FirstIn
    <3>3. ASSUME NEW j \in DOMAIN file', j # 1
          PROVE  file'[j] = NUL
      <4>1. DOMAIN file' = 1 .. Larger(Len(file), offset + Len(d))
        BY <1>1, <1>4, <1>5, OverwriteLength
      <4>2. Len(d) = 1
        BY <1>5, <3>1
      <4>3. j > Len(d)
        BY <3>3, <4>1, <4>2
      <4> QED
        BY <1>7, <3>1, <3>3, <4>3 DEF OnlyDigit
    <3> QED
      BY <3>2, <3>3 DEF OnlyDigit
  <2> QED
    BY <2>3, <2>4, <2>5
<1>10. ReadyInv'
  BY <1>9 DEF ReadyInv, FirstIn, OnlyDigit, Steady
<1> QED
  BY <1>3, <1>8, <1>10

LEMMA ToldTimer ==
  ASSUME IInv, ForkedInv, ToldInv, epow_timer_handler
  PROVE  ToldInv'
<1> USE DEF ToldInv
<1>1. \A s \in Scripts : Stays(s)
  BY MainRests DEF Rests
<1>2. UNCHANGED <<pc, status, handled, verdicts>>
  BY DEF epow_timer_handler, mainVars
<1>3. raced \subseteq raced'
  BY DEF epow_timer_handler, TimerExpired, TimerRecovered, TimerContinues
<1>4. GivesUpOnlyIfLowered'
  BY <1>1, <1>2, <1>3, AllStillGiveUp
<1>5. CASE TimerExpired \/ TimerContinues
  <2>1. UNCHANGED <<file, offset, script>>
    BY <1>5 DEF TimerExpired, TimerContinues, statusFile
  <2>2. LengthInv' /\ ReadyInv'
    BY <1>1, <1>2, <1>3, <2>1, FileTold
  <2>3. WriteInv'
    BY <1>2, <1>3, <2>1 DEF WriteInv, AllLowered, Steady
  <2> QED
    BY <1>4, <2>2, <2>3
<1>6. CASE TimerRecovered
  <2> DEFINE st == CASE sensor = RESET -> 0
                     [] sensor = WARN_COOLING -> 8
                     [] sensor = WARN_POWER -> 9
  <2>1. /\ sensor \in RESET .. SYSTEM_SHUTDOWN - 1
        /\ file' = Overwrite(file, 0, Digits(st)) /\ script' = Lower(handled, "timer")
        /\ raced' = raced \union Rearming \union Hiding
    BY <1>6 DEF TimerRecovered
  <2>2. st \in {0, 8, 9}
    BY <2>1 DEF RESET, WARN_COOLING, WARN_POWER, SYSTEM_SHUTDOWN
  <2> HIDE DEF st
  <2>3. AllLowered(handled)'
    <3> PICK n \in Int : n = handled
      BY DEF IInv, TypeOK, MainType
    <3>1. "timer" \in Lowerings /\ script' = Lower(n, "timer")
      BY <2>1 DEF Lowerings
    <3>2. AllLowered(n)'
      BY <3>1, LowerRests
    <3> QED
      BY <1>2, <3>2 DEF AllLowered
  <2>4. AllLowered(handled - 1)'
    BY <1>2, <2>3 DEF AllLowered, IInv, TypeOK, MainType, Scripts
  <2>5. pc = "write" => "write" \in raced'
    BY <2>1 DEF Hiding
  <2>6. WriteInv'
    BY <1>2, <2>3, <2>4, <2>5 DEF WriteInv
  <2>7. ReadyInv'
    BY <1>2, <2>3, <1>1 DEF ReadyInv, AllLowered, ForkedInv, Forked, Stays, IInv, TypeOK, MainType,
       Scripts
  <2>8. LengthInv'
    <3> PICK d : d = Digits(st)
      OBVIOUS
    <3>1. d \in Seq(Bytes) /\ Len(d) < 2
      <4>1. st < 10 /\ st \in Statuses
        BY <2>2 DEF Statuses
      <4>2. Digits(st) \in Seq(Bytes) /\ Len(Digits(st)) = 1
        BY <4>1, OneDigit
      <4>3. d \in Seq(Bytes) /\ Len(d) = 1
        BY <4>2, Zenon
      <4> QED
        BY <4>3
    <3> PICK start \in Nat : start = 0
      OBVIOUS
    <3>2. file \in Seq(Bytes) /\ file' = Overwrite(file, start, d)
      BY <2>1 DEF IInv, TypeOK, FileType
    <3> PICK o : o = file'
      OBVIOUS
    <3>3. o = Overwrite(file, start, d) /\ file \in Seq(Bytes) /\ d \in Seq(Bytes) /\ Len(d) < 2
      BY <3>1, <3>2
    <3>4. Len(o) > 1 => Len(file) > 1
      BY <3>1, <3>3, OverwriteShort
    <3>5. Len(file') > 1 => Len(file) > 1
      BY <3>4
    <3> QED
      BY <1>2, <1>3, <3>5 DEF LengthInv, TwoDigits
  <2> QED
    BY <1>4, <2>6, <2>7, <2>8
<1> QED
  BY <1>5, <1>6 DEF epow_timer_handler

LEMMA ToldRest ==
  ASSUME IInv, ForkedInv, ToldInv, Fork \/ Restart \/ Tick
  PROVE  ToldInv'
<1> USE DEF ToldInv
<1>1. CASE Fork
  <2>1. UNCHANGED <<file, verdicts, raced, handled>> /\ pc = "fork" /\ pc' = "idle"
    BY <1>1 DEF Fork, statusFile, history
  <2>2. \A s \in Scripts :
          script'[s].pc \in {"normal", "cancelled", "undefined"} =>
             ~Steady(s)' \/ (script'[s].pc = "undefined" /\ TwoDigits')
    BY <1>1, <2>1, ForkScripts, StillGivesUp DEF Rests, Stays
  <2>3. GivesUpOnlyIfLowered'
    BY <2>2, GivesUpFrom
  <2>4. WriteInv' /\ LengthInv'
    BY <2>1 DEF WriteInv, LengthInv, TwoDigits
  <2>5. ReadyInv'
    BY <1>1, <2>1, ForkScripts DEF ReadyInv, Rests, Stays, Steady, FirstIn, OnlyDigit
  <2> QED
    BY <2>3, <2>4, <2>5
<1>2. CASE Restart
  <2>1. pc' = "idle" /\ file' = <<0>> /\ \A s \in Scripts : script'[s].pc \in {"none", "ended"}
    BY <1>2, RestartScripts DEF Restart
  <2>2. GivesUpOnlyIfLowered' /\ WriteInv' /\ ReadyInv'
    BY <2>1 DEF GivesUpOnlyIfLowered, WriteInv, ReadyInv
  <2>3. LengthInv'
    BY <2>1 DEF LengthInv
  <2> QED
    BY <2>2, <2>3
<1>3. CASE Tick
  <2>1. UNCHANGED <<pc, status, handled, file, offset, verdicts, raced>>
    BY <1>3 DEF Tick, statusFile, history
  <2>2. \A s \in Scripts : Stays(s)
    BY <1>3, TickScripts
  <2>3. GivesUpOnlyIfLowered' /\ LengthInv' /\ ReadyInv'
    BY <2>1, <2>2, AllStillGiveUp, FileTold
  <2>4. WriteInv'
    BY <2>1, <2>2 DEF WriteInv, AllLowered, Stays
  <2> QED
    BY <2>3, <2>4
<1> QED
  BY <1>1, <1>2, <1>3

(* What becomes of the script that steps.                                  *)
LEMMA GotoFacts ==
  ASSUME IInv, NEW s \in Scripts, NEW p, Goto(s, p)
  PROVE  script'[s].pc = p /\ (Steady(s)' <=> Steady(s))
  BY DEF Goto, Steady, IInv, TypeOK, ScriptType, ScriptStates

LEMMA WaitFacts ==
  ASSUME IInv, NEW s \in Scripts, NEW d,
         script' = [script EXCEPT ![s].pc = "waiting", ![s].sleep = d, ![s].left = ScriptTicks]
  PROVE  /\ script'[s].pc = "waiting" /\ script'[s].sleep = d /\ script'[s].left = ScriptTicks
         /\ Steady(s)' <=> Steady(s)
  BY DEF Steady, IInv, TypeOK, ScriptType, ScriptStates

LEMMA PollFacts ==
  ASSUME IInv, NEW s \in Scripts,
         script' = [script EXCEPT
               ![s].left = @ - 1, ![s].sleep = 1,
               ![s].pc = IF script[s].left > 1 THEN "waiting" ELSE "shutdown"]
  PROVE  /\ script'[s].pc = IF script[s].left > 1 THEN "waiting" ELSE "shutdown"
         /\ script'[s].sleep = 1 /\ script'[s].left = script[s].left - 1
         /\ Steady(s)' <=> Steady(s)
  BY DEF Steady, IInv, TypeOK, ScriptType, ScriptStates

(* A script that steps without touching the file.                          *)
LEMMA ToldOne ==
  ASSUME IInv, ToldInv, NEW s \in Scripts, ScriptStep(s), UNCHANGED file,
         Steady(s)' =>
           /\ script'[s].pc # "start"
           /\ script'[s].pc = "waiting" => FirstIn(file, 1 .. 7) /\ OnlyDigit(file, 1)
           /\ script'[s].pc \notin {"normal", "cancelled"}
           /\ script'[s].pc = "undefined" => TwoDigits
  PROVE  ToldInv'
<1> USE DEF ToldInv
<1>1. UNCHANGED <<pc, status, handled, offset, verdicts, raced>>
      /\ \A t \in Scripts : t # s => Rests(t)
  BY ScriptMoves DEF ScriptOnly, mainVars, history
<1>2. ~Steady(s) => ~Steady(s)'
  BY ScriptMoves
<1>3. \A t \in Scripts :
          script'[t].pc \in {"normal", "cancelled", "undefined"} =>
             ~Steady(t)' \/ (script'[t].pc = "undefined" /\ TwoDigits')
  <2>1. \A t \in Scripts \ {s} :
          script'[t].pc \in {"normal", "cancelled", "undefined"} =>
             ~Steady(t)' \/ (script'[t].pc = "undefined" /\ TwoDigits')
    BY <1>1, StillGivesUp DEF Rests, Stays
  <2>2. TwoDigits' <=> TwoDigits
    BY <1>1 DEF TwoDigits
  <2> QED
    BY <2>1, <2>2
<1>4. GivesUpOnlyIfLowered'
  BY <1>3, GivesUpFrom
<1>5. WriteInv'
  BY <1>1, <1>2 DEF WriteInv, AllLowered, Rests, Stays
<1>6. LengthInv'
  BY <1>1 DEF LengthInv, TwoDigits
<1>7. ReadyInv'
  <2>1. ASSUME NEW t \in Scripts, Steady(t)'
        PROVE  /\ script'[t].pc = "start" \/ (pc = "fork" /\ t = handled) => FirstIn(file, 1 .. 9)
               /\ script'[t].pc = "waiting" => FirstIn(file, 1 .. 7) /\ OnlyDigit(file, 1)
    <3>1. CASE t # s
      BY <1>1, <2>1, <3>1 DEF ReadyInv, Rests, Stays
    <3>2. CASE t = s
      BY <1>2, <2>1, <3>2 DEF ReadyInv
    <3> QED
      BY <3>1, <3>2
  <2> QED
    BY <1>1, <2>1 DEF ReadyInv, FirstIn, OnlyDigit, Steady
<1> QED
  BY <1>4, <1>5, <1>6, <1>7

LEMMA ToldScript ==
  ASSUME IInv, ForkedInv, ToldInv, NEW s \in Scripts, ScriptStep(s)
  PROVE  ToldInv'
<1>1. file \in Seq(Bytes) /\ handled \in Nat /\ s \in Int
  BY DEF IInv, TypeOK, FileType, MainType, Scripts
<1> PICK st : st = StatusRead(file)
  OBVIOUS
<1>2. CASE ReadStatus(s)
  <2>1. UNCHANGED file /\ script[s].pc = "start"
    BY <1>2 DEF ReadStatus, At
  <2>2. ASSUME Steady(s)
        PROVE  FirstIn(file, 1 .. 9)
    BY <2>1, <2>2 DEF ToldInv, ReadyInv
  <2>3. ASSUME Steady(s)
        PROVE  st # 0 /\ (st = Undefined => TwoDigits)
               /\ (st \in {6, 7} => FirstIn(file, 1 .. 7) /\ OnlyDigit(file, 1))
    <3>1. file # <<>> /\ file[1] \in 1 .. 9 /\ file[1] # NUL /\ FirstIn(file, 0 .. 9)
      BY <2>2, <2>3 DEF FirstIn, NUL
    <3>2. st # 0
      BY <1>1, <3>1, ReadFirst DEF Statuses
    <3>3. ASSUME st = Undefined
          PROVE  TwoDigits
      <4>1. ~OnlyDigit(file, 1)
        <5>1. file[1] # Undefined
          BY <3>1 DEF Undefined
        <5> QED
          BY <1>1, <3>1, <3>3, <5>1, ReadDigit
      <4>2. Len(file) > 1
        BY <1>1, <4>1 DEF OnlyDigit
      <4> QED
        BY <4>2 DEF ToldInv, LengthInv
    <3>4. ASSUME st \in {6, 7}
          PROVE  FirstIn(file, 1 .. 7) /\ OnlyDigit(file, 1)
      <4>1. st \in Statuses /\ Digits(st) = <<st>>
        BY <3>4 DEF Statuses, Digits
      <4>2. file[1] = st
        BY <1>1, <3>1, <3>4, <4>1, ReadFirst
      <4>3. PICK i \in DOMAIN file : OnlyDigit(file, i)
        BY <1>1, <4>1, ReadShown, ShownDigit
      <4>4. i = 1
        BY <1>1, <3>1, <4>3 DEF OnlyDigit
      <4> QED
        BY <3>1, <3>4, <4>2, <4>3, <4>4 DEF FirstIn
    <3> QED
      BY <3>2, <3>3, <3>4
  <2>4. \/ st = 0 /\ Goto(s, "normal")
        \/ (\E p \in {"halt", "shutdown", "truncate"} : Goto(s, p))
        \/ st \in {6, 7} /\ \E d \in 1 .. 2 : script' = [script EXCEPT
               ![s].pc = "waiting", ![s].sleep = d, ![s].left = ScriptTicks]
        \/ st = Undefined /\ Goto(s, "undefined")
    BY <1>2 DEF ReadStatus
  <2>5. Steady(s)' =>
           /\ script'[s].pc # "start"
           /\ script'[s].pc = "waiting" => FirstIn(file, 1 .. 7) /\ OnlyDigit(file, 1)
           /\ script'[s].pc \notin {"normal", "cancelled"}
           /\ script'[s].pc = "undefined" => TwoDigits
    <3>1. CASE \E p \in {"halt", "shutdown", "truncate"} : Goto(s, p)
      <4>1. script'[s].pc \in {"halt", "shutdown", "truncate"}
        BY <3>1, GotoFacts
      <4> QED
        BY <4>1
    <3>2. CASE st = 0 /\ Goto(s, "normal")
      BY <2>3, <3>2, GotoFacts
    <3>3. CASE st = Undefined /\ Goto(s, "undefined")
      <4>1. script'[s].pc = "undefined" /\ (Steady(s)' => Steady(s))
        BY <3>3, GotoFacts
      <4> QED
        BY <2>3, <3>3, <4>1
    <3>4. CASE st \in {6, 7} /\ \E d \in 1 .. 2 : script' = [script EXCEPT
               ![s].pc = "waiting", ![s].sleep = d, ![s].left = ScriptTicks]
      <4>1. script'[s].pc = "waiting" /\ (Steady(s)' => Steady(s))
        BY <3>4, WaitFacts
      <4> QED
        BY <2>3, <3>4, <4>1
    <3> QED
      BY <2>4, <3>1, <3>2, <3>3, <3>4
  <2> QED
    BY <2>1, <2>5, ToldOne
<1>3. CASE Poll(s)
  <2>1. UNCHANGED file /\ script[s].pc = "waiting"
    BY <1>3 DEF Poll, At
  <2>2. ASSUME Steady(s)
        PROVE  /\ FirstIn(file, 1 .. 7) /\ OnlyDigit(file, 1)
               /\ st \notin Improved /\ st # Undefined
    <3>1. FirstIn(file, 1 .. 7) /\ OnlyDigit(file, 1)
      BY <2>1, <2>2 DEF ToldInv, ReadyInv
    <3>2. FirstIn(file, 0 .. 9) /\ file[1] \in 1 .. 7
      BY <3>1 DEF FirstIn
    <3>3. st = file[1]
      BY <1>1, <3>1, <3>2, ReadDigit
    <3> QED
      BY <3>1, <3>2, <3>3 DEF Improved, Undefined
  <2>3. \/ st \in Improved /\ Goto(s, "cancelled")
        \/ st = Undefined /\ Goto(s, "undefined")
        \/ script' = [script EXCEPT
               ![s].left = @ - 1, ![s].sleep = 1,
               ![s].pc = IF script[s].left > 1 THEN "waiting" ELSE "shutdown"]
    BY <1>3 DEF Poll
  <2>4. Steady(s)' =>
           /\ script'[s].pc # "start"
           /\ script'[s].pc = "waiting" => FirstIn(file, 1 .. 7) /\ OnlyDigit(file, 1)
           /\ script'[s].pc \notin {"normal", "cancelled"}
           /\ script'[s].pc = "undefined" => TwoDigits
    BY <2>2, <2>3, GotoFacts, PollFacts
  <2> QED
    BY <2>1, <2>4, ToldOne
<1>4. CASE Halt(s) \/ Shutdown(s)
  <2>1. UNCHANGED file /\ Goto(s, "ended")
    BY <1>4 DEF Halt, Shutdown
  <2> QED
    BY <2>1, GotoFacts, ToldOne
<1>5. CASE Truncate(s) \/ Echo(s)
  <2>1. UNCHANGED <<pc, status, handled, offset, verdicts, raced>>
        /\ \A t \in Scripts : t # s => Rests(t)
    BY ScriptMoves DEF ScriptOnly, mainVars, history
  <2>2. AllLowered(handled)' /\ (~Steady(s) => ~Steady(s)')
    BY <1>5, ScriptMoves
  <2>3. AllLowered(handled - 1)'
    BY <1>1, <2>1, <2>2 DEF AllLowered, Scripts
  <2>4. WriteInv'
    BY <2>1, <2>2, <2>3 DEF WriteInv, ToldInv
  <2>5. \A t \in Scripts : Forked(t)' => t <= handled
    <3>1. Forked(s)
      BY DEF ScriptStep, ReadStatus, Poll, Halt, Shutdown, Truncate, Echo, At, Forked
    <3> QED
      BY <2>1, <3>1 DEF ForkedInv, Forked, Rests, Stays
  <2>6. \A t \in Scripts : Forked(t)' \/ t = handled => ~Steady(t)'
    BY <1>1, <2>1, <2>2, <2>5 DEF AllLowered
  <2>7. GivesUpOnlyIfLowered' /\ ReadyInv'
    BY <2>1, <2>6 DEF GivesUpOnlyIfLowered, ReadyInv, Forked, Steady
  <2>8. LengthInv'
    <3>1. Len(file') > 1 => Len(file) > 1
      <4>1. CASE Truncate(s)
        BY <4>1 DEF Truncate
      <4>2. CASE Echo(s)
        <5> PICK d : d = <<0>>
          OBVIOUS
        <5>1. d \in Seq(Bytes) /\ Len(d) < 2
          BY DEF Bytes
        <5> PICK start \in Nat : start = 0
          OBVIOUS
        <5>2. file' = Overwrite(file, start, d)
          BY <4>2 DEF Echo
        <5> PICK o : o = file'
          OBVIOUS
        <5>3. o = Overwrite(file, start, d) /\ file \in Seq(Bytes) /\ d \in Seq(Bytes) /\ Len(d) < 2
          BY <1>1, <5>1, <5>2
        <5>4. Len(o) > 1 => Len(file) > 1
          BY <5>1, <5>3, OverwriteShort
        <5> QED
          BY <5>4
      <4> QED
        BY <1>5, <4>1, <4>2
    <3> QED
      BY <2>1, <3>1 DEF ToldInv, LengthInv, TwoDigits
  <2> QED
    BY <2>4, <2>7, <2>8 DEF ToldInv
<1> QED
  BY <1>2, <1>3, <1>4, <1>5 DEF ScriptStep

-----------------------------------------------------------------------------
(* The timer outlasts the scripts that wait.                               *)

LEMMA TimingTypes ==
  ASSUME IInv
  PROVE  /\ timeRemaining \in Nat /\ Pending \in 0 .. 1 /\ Left \in Int
         /\ calm \in Nat /\ late \in 0 .. MaxLate /\ MaxLate \in Nat
         /\ WindowTicks \in Nat /\ ScriptTicks \in Nat \ {0}
         /\ WindowTicks > ScriptTicks + MaxLate
         /\ timerOn \in BOOLEAN /\ alarm \in BOOLEAN
  BY ConstantsAssumption DEF IInv, TypeOK, TimerType, MainType, PlatformType, Pending, Left

LEMMA ScriptBounds ==
  ASSUME IInv, NEW s \in Scripts
  PROVE  /\ script[s].sleep \in 0 .. 2 /\ script[s].left \in 0 .. ScriptTicks
         /\ PollsEnd(s) \in Int /\ PollsEnd(s) <= ScriptTicks + 1
         /\ script[s].pc = "waiting" => script[s].left > 0
<1>1. script[s] \in ScriptStates
  BY DEF IInv, TypeOK, ScriptType
<1>2. script[s].sleep \in 0 .. 2 /\ script[s].left \in 0 .. ScriptTicks
      /\ (script[s].pc = "waiting" => script[s].left > 0)
  BY <1>1 DEF ScriptStates
<1> QED
  BY <1>2, ConstantsAssumption DEF PollsEnd

(* While time remains and no alarm has hit an update, the timer runs.      *)
LEMMA TimerRuns ==
  ASSUME IInv, raced = {}, timeRemaining > 0
  PROVE  timerOn
  BY DEF IInv, TimerInv

(* A file that tells scripts to wait begins with that digit.               *)
LEMMA WaitFirst ==
  ASSUME NEW content \in Seq(Bytes), content # <<>>, content[1] # NUL,
         StatusRead(content) \in {6, 7}
  PROVE  content[1] = StatusRead(content)
  BY ReadFirst DEF Statuses

LEMMA LoweredNoWait ==
  ASSUME file \in Seq(Bytes), NEW d \in Seq(Bytes), Len(d) > 0, d[1] \in {0, 8, 9},
         NEW start \in Nat, start = 0, file' = Overwrite(file, start, d)
  PROVE  ~TellsToWait'
<1> PICK o : o = file'
  OBVIOUS
<1>2. o = Overwrite(file, start, d)
  OBVIOUS
<1>3. o # <<>> /\ o[1] = d[1]
  BY <1>2, OverwriteStart
<1>4. o \in Seq(Bytes)
  <2> PICK bound \in Nat : Len(file) <= bound /\ start + Len(d) <= bound
    <3>1. Len(file) \in Nat /\ start + Len(d) \in Nat
      OBVIOUS
    <3> PICK m \in Nat, n \in Nat : m = Len(file) /\ n = start + Len(d)
      BY <3>1
    <3>2. m <= m + n /\ n <= m + n /\ m + n \in Nat
      OBVIOUS
    <3> QED
      BY <3>2
  <2> QED
    BY <1>2, OverwriteType
<1>5. d[1] # NUL /\ d[1] \notin {6, 7}
  BY DEF NUL
<1>6. StatusRead(o) \notin {6, 7}
  BY <1>3, <1>4, <1>5, WaitFirst
<1> QED
  BY <1>6 DEF TellsToWait

(* Steps that change neither the file nor the timer nor a script.          *)
LEMMA WaitingKept ==
  ASSUME IInv, WaitingInv, UNCHANGED <<file, timerOn, timeRemaining, alarm>>,
         calm' = calm \/ calm' = 0, raced \subseteq raced', \A s \in Scripts : Rests(s),
         pc' # "fork" \/ UNCHANGED <<pc, late>>
  PROVE  WaitingInv'
<1>1. (TellsToWait' <=> TellsToWait) /\ Left' = Left /\ Pending' = Pending /\ calm' <= calm
  BY TimingTypes DEF TellsToWait, Left, Pending
<1>2. SUFFICES ASSUME raced = {}, TellsToWait
      PROVE  /\ pc' = "fork" => Left' >= WindowTicks - 1 - late'
             /\ timerOn' => calm' <= MaxLate + Pending'
             /\ \A s \in Scripts : script'[s].pc = "start" => Left' >= ScriptTicks
             /\ \A s \in Scripts : script'[s].pc = "waiting" => WaitsInTime(s)'
  BY <1>1 DEF WaitingInv
<1>3. pc' = "fork" => Left' >= WindowTicks - 1 - late'
  BY <1>1, <1>2 DEF WaitingInv
<1>4. timerOn' => calm' <= MaxLate + Pending'
  BY <1>1, <1>2, TimingTypes DEF WaitingInv
<1>5. \A s \in Scripts : script'[s].pc = "start" => Left' >= ScriptTicks
  BY <1>1, <1>2 DEF WaitingInv, Rests, Stays
<1>6. ASSUME NEW s \in Scripts, script'[s].pc = "waiting"
      PROVE  WaitsInTime(s)'
  <2>1. WaitsInTime(s) /\ PollsEnd(s)' = PollsEnd(s)
    BY <1>2, <1>6 DEF WaitingInv, Rests, Stays, PollsEnd
  <2> QED
    BY <1>1, <2>1, TimingTypes DEF WaitsInTime
<1> QED
  BY <1>3, <1>4, <1>5, <1>6

LEMMA TimingInit == Init => TimingInv
<1> SUFFICES ASSUME Init PROVE TimingInv
  OBVIOUS
<1>1. pc = "idle" /\ alarm = FALSE /\ calm = 0 /\ file = <<0>>
      /\ \A s \in Scripts : script[s].pc = "none"
  BY DEF Init, NoScript
<1>2. CalmInv /\ DueInv
  BY <1>1 DEF CalmInv, DueInv
<1>3. WaitingInv
  <2>1. calm <= MaxLate + Pending
    BY <1>1, ConstantsAssumption DEF Pending
  <2> QED
    BY <1>1, <2>1 DEF WaitingInv
<1> QED
  BY <1>2, <1>3 DEF TimingInv

(* What tells scripts to wait is the status that is being written.         *)
LEMMA WriteTells ==
  ASSUME IInv, WriteInv, WriteStatus, raced = {}, TellsToWait'
  PROVE  status \in {6, 7}
<1> PICK d : d = Digits(status)
  OBVIOUS
<1> PICK o : o = file'
  OBVIOUS
<1>1. pc = "write" /\ o = Overwrite(file, offset, d)
  BY DEF WriteStatus
<1>2. file \in Seq(Bytes) /\ offset \in Nat /\ status \in Statuses
  BY DEF IInv, TypeOK, FileType, MainType
<1>3. offset = 0
  BY <1>1 DEF WriteInv
<1>4. d \in Seq(Bytes) /\ Len(d) > 0 /\ (d[1] = status \/ d[1] = 1)
  BY <1>2, FirstDigit
<1>5. o # <<>> /\ o[1] = d[1]
  BY <1>1, <1>2, <1>3, <1>4, OverwriteStart
<1>6. o \in Seq(Bytes) /\ StatusRead(o) \in {6, 7}
  <2>1. file' \in Seq(Bytes)
    BY WriteStatusInv DEF IInv, TypeOK, FileType
  <2> QED
    BY <2>1 DEF TellsToWait
<1>7. o[1] # NUL
  BY <1>2, <1>4, <1>5 DEF NUL, Statuses
<1>8. o[1] \in {6, 7}
  BY <1>5, <1>6, <1>7, WaitFirst
<1> QED
  BY <1>4, <1>5, <1>8

LEMMA TimingReceive ==
  ASSUME IInv, TimingInv, NEW e \in Events, Receive(e)
  PROVE  TimingInv'
<1> USE DEF TimingInv
<1>1. UNCHANGED <<file, timerOn, timeRemaining, alarm, calm, raced, sensor>>
      /\ pc' \in {"test", "seek"} /\ late' = 0
  BY DEF Receive, timerVars, statusFile, platform
<1>2. \A s \in Scripts : Rests(s)
  BY MainRests
<1>3. WaitingInv'
  BY <1>1, <1>2, WaitingKept
<1>4. CASE BeginsShutdown(e, sensor) /\ pc' = "test"
  <2>1. ~Calm(sensor)
    BY <1>4 DEF BeginsShutdown, Calm, RESET, SYSTEM_SHUTDOWN
  <2>2. CalmInv' /\ DueInv'
    BY <1>1, <1>4, <2>1 DEF CalmInv, DueInv, Calm
  <2> QED
    BY <1>3, <2>2
<1>5. CASE pc' = "seek" /\ Decide(handled + 1, OtherStatus(e, sensor))
  <2>1. status' \notin {6, 7}
    <3>1. status' = OtherStatus(e, sensor)
      BY <1>5 DEF Decide
    <3> QED
      BY <3>1 DEF OtherStatus, HaltStatus, PowerOffStatus
  <2>2. CalmInv' /\ DueInv'
    BY <1>1, <1>5, <2>1 DEF CalmInv, DueInv, Calm
  <2> QED
    BY <1>3, <2>2
<1> QED
  BY <1>4, <1>5 DEF Receive

LEMMA TimingMain ==
  ASSUME IInv, TimingInv, TestTimer \/ SeekStatus \/ SensorChanges \/ UNCHANGED vars
  PROVE  TimingInv'
<1> USE DEF TimingInv
<1>1. UNCHANGED <<file, timerOn, timeRemaining, alarm, raced, late, status>>
  BY DEF TestTimer, SeekStatus, SensorChanges, vars, timerVars, statusFile, history, mainVars
<1>2. \/ calm' = calm /\ sensor' = sensor
      \/ calm' = IF Calm(sensor') THEN calm ELSE 0
  BY DEF TestTimer, SeekStatus, SensorChanges, vars, platform
<1>3. /\ pc' \in {"test", "arm", "extend"} => pc \in {"test", "arm", "extend"}
      /\ pc' \in {"seek", "write"} => pc \in {"seek", "write"}
      /\ pc' # "fork" \/ UNCHANGED pc
  BY DEF TestTimer, SeekStatus, SensorChanges, vars, mainVars
<1>4. \A s \in Scripts : Rests(s)
  BY MainRests
<1>5. WaitingInv'
  BY <1>1, <1>2, <1>3, <1>4, WaitingKept
<1>6. calm' = calm \/ calm' = 0
  BY <1>2
<1>7. calm <= late => calm' <= late
  BY <1>6, TimingTypes
<1>8. ~Calm(sensor)' => calm' = 0
  BY <1>2 DEF CalmInv, Calm
<1>9. CalmInv'
  BY <1>1, <1>3, <1>7, <1>8 DEF CalmInv
<1>10. DueInv'
  BY <1>1, <1>3, <1>7 DEF DueInv, Left, Pending
<1> QED
  BY <1>5, <1>9, <1>10

LEMMA TimingArm ==
  ASSUME IInv, TimingInv, ArmTimer
  PROVE  TimingInv'
<1> USE DEF TimingInv
<1>1. UNCHANGED <<file, timeRemaining, alarm, raced, late, script, sensor, calm>>
      /\ pc = "arm" /\ pc' = "extend" /\ timerOn' = TRUE
  BY DEF ArmTimer, statusFile, history, platform
<1>2. CalmInv' /\ DueInv'
  BY <1>1 DEF CalmInv, DueInv, Calm
<1>3. SUFFICES ASSUME raced = {}, TellsToWait
      PROVE  /\ calm <= MaxLate + Pending
             /\ \A s \in Scripts : script[s].pc = "start" => Left >= ScriptTicks
             /\ \A s \in Scripts : script[s].pc = "waiting" => PollsEnd(s) <= Left + 1
  BY <1>1, <1>2 DEF WaitingInv, TellsToWait, Left, Pending, WaitsInTime, PollsEnd
<1>4. calm <= MaxLate + Pending
  BY <1>1, TimingTypes DEF CalmInv
<1>5. ASSUME NEW s \in Scripts, script[s].pc = "waiting"
      PROVE  PollsEnd(s) <= Left + 1
  <2>1. WaitsInTime(s)
    BY <1>3, <1>5 DEF WaitingInv
  <2>2. CASE timerOn
    BY <2>1, <2>2 DEF WaitsInTime
  <2>3. CASE ~timerOn
    <3>1. ~alarm
      BY <2>3 DEF CalmInv
    <3>2. Left = 0 /\ PollsEnd(s) = 0
      BY <2>1, <2>3, <3>1 DEF WaitsInTime, Left, Pending
    <3> QED
      BY <3>2
  <2> QED
    BY <2>2, <2>3
<1> QED
  BY <1>3, <1>4, <1>5 DEF WaitingInv

LEMMA TimingExtend ==
  ASSUME IInv, TimingInv, Extend
  PROVE  TimingInv'
<1> USE DEF TimingInv
<1>1. UNCHANGED <<file, alarm, raced, late, sensor, calm, timerOn>>
      /\ pc = "extend" /\ pc' = "seek" /\ timeRemaining' = WindowTicks
  BY DEF Extend, statusFile, platform
<1>2. \A s \in Scripts : Rests(s)
  BY MainRests, ExtendInv, DecideRests DEF Extend, IInv, TypeOK, MainType
<1>3. calm <= late
  BY <1>1 DEF CalmInv
<1>4. Left' >= WindowTicks - 1 /\ Left' >= WindowTicks - 1 - late /\ Left' >= ScriptTicks
      /\ Left' + 1 >= ScriptTicks + 1
  <2>1. Left' = WindowTicks - Pending
    BY <1>1 DEF Left, Pending
  <2> QED
    BY <2>1, TimingTypes
<1>5. CalmInv' /\ DueInv'
  BY <1>1, <1>3, <1>4 DEF CalmInv, DueInv, Calm
<1>6. ASSUME raced = {}
      PROVE  timerOn
  BY <1>1, <1>6 DEF IInv, TimerInv
<1>7. Pending' = Pending /\ (TellsToWait' <=> TellsToWait)
  BY <1>1 DEF Pending, TellsToWait
<1>8. ASSUME NEW s \in Scripts, raced = {}
      PROVE  WaitsInTime(s)'
  <2>1. PollsEnd(s)' = PollsEnd(s)
    BY <1>2 DEF Rests, Stays, PollsEnd
  <2>2. PollsEnd(s) <= ScriptTicks + 1 /\ PollsEnd(s) \in Int
    BY ScriptBounds
  <2>3. Left' \in Int
    BY <1>1, TimingTypes DEF Left, Pending
  <2>4. PollsEnd(s) <= Left' + 1
    BY <1>4, <2>2, <2>3, TimingTypes
  <2> QED
    BY <1>1, <1>6, <1>8, <2>1, <2>4 DEF WaitsInTime
<1>9. WaitingInv'
  BY <1>1, <1>4, <1>7, <1>8 DEF WaitingInv
<1> QED
  BY <1>5, <1>9

LEMMA TimingWrite ==
  ASSUME IInv, WriteInv, TimingInv, WriteStatus
  PROVE  TimingInv'
<1> USE DEF TimingInv
<1>1. UNCHANGED <<alarm, raced, late, sensor, calm, timerOn, timeRemaining, script>>
      /\ pc = "write" /\ pc' \in {"fork", "idle"}
  BY DEF WriteStatus, platform, timerVars, history
<1>2. CalmInv' /\ DueInv'
  BY <1>1 DEF CalmInv, DueInv, Calm
<1>3. Left' = Left /\ Pending' = Pending
  BY <1>1 DEF Left, Pending
<1>4. SUFFICES ASSUME raced = {}, TellsToWait'
      PROVE  /\ Left >= WindowTicks - 1 - late
             /\ calm <= MaxLate + Pending
             /\ Left >= ScriptTicks
             /\ \A s \in Scripts : WaitsInTime(s)
  BY <1>1, <1>2, <1>3 DEF WaitingInv, WaitsInTime, PollsEnd
<1>5. calm <= late /\ Left >= WindowTicks - 1 - late
  BY <1>1, <1>4, WriteTells DEF DueInv
<1>6. Left >= ScriptTicks /\ calm <= MaxLate + Pending
  BY <1>5, TimingTypes
<1>7. timerOn
  <2>1. timeRemaining > 0
    BY <1>6, TimingTypes DEF Left
  <2> QED
    BY <1>4, <2>1, TimerRuns
<1>8. ASSUME NEW s \in Scripts
      PROVE  WaitsInTime(s)
  <2>1. PollsEnd(s) <= Left + 1
    BY <1>6, TimingTypes, ScriptBounds
  <2> QED
    BY <1>7, <2>1 DEF WaitsInTime
<1> QED
  BY <1>5, <1>6, <1>8

LEMMA TimingFork ==
  ASSUME IInv, TimingInv, Fork
  PROVE  TimingInv'
<1> USE DEF TimingInv
<1>1. UNCHANGED <<alarm, raced, late, sensor, calm, timerOn, timeRemaining, file>>
      /\ pc = "fork" /\ pc' = "idle"
  BY DEF Fork, platform, timerVars, history, statusFile
<1>2. CalmInv' /\ DueInv'
  BY <1>1 DEF CalmInv, DueInv, Calm
<1>3. SUFFICES ASSUME raced = {}, TellsToWait
      PROVE  /\ \A s \in Scripts : script'[s].pc = "start" => Left >= ScriptTicks
             /\ \A s \in Scripts : script'[s].pc = "waiting" => WaitsInTime(s)'
  BY <1>1, <1>2 DEF WaitingInv, TellsToWait, Left, Pending
<1>4. ASSUME NEW s \in Scripts, script'[s].pc = "start"
      PROVE  Left >= ScriptTicks
  BY <1>1, <1>3, TimingTypes DEF WaitingInv
<1>5. ASSUME NEW s \in Scripts, script'[s].pc = "waiting"
      PROVE  WaitsInTime(s)'
  <2>1. Rests(s)
    BY <1>5, ForkScripts
  <2>2. WaitsInTime(s)
    BY <1>3, <1>5, <2>1 DEF WaitingInv, Rests, Stays
  <2> QED
    BY <1>1, <2>1, <2>2 DEF WaitsInTime, PollsEnd, Left, Pending, Rests, Stays
<1> QED
  BY <1>4, <1>5

LEMMA TimingRestart ==
  ASSUME IInv, TimingInv, Restart
  PROVE  TimingInv'
<1> USE DEF TimingInv
<1>1. UNCHANGED <<sensor, calm>> /\ pc' = "idle" /\ alarm' = FALSE /\ file' = <<0>>
  BY DEF Restart, platform
<1>2. CalmInv' /\ DueInv'
  BY <1>1 DEF CalmInv, DueInv, Calm
<1>3. ~TellsToWait'
  <2> PICK o : o = file'
    OBVIOUS
  <2>1. o \in Seq(Bytes) /\ o # <<>> /\ o[1] = 0
    BY <1>1 DEF Bytes
  <2>2. StatusRead(o) \notin {6, 7}
    BY <2>1, WaitFirst DEF NUL
  <2> QED
    BY <2>2 DEF TellsToWait
<1> QED
  BY <1>2, <1>3 DEF WaitingInv

LEMMA TimingTick ==
  ASSUME IInv, TimingInv, Tick
  PROVE  TimingInv'
<1> USE DEF TimingInv
<1>1. UNCHANGED <<raced, sensor, timerOn, timeRemaining, file, pc, status>>
      /\ ~alarm /\ alarm' = timerOn
  BY DEF Tick, timerVars, history, statusFile
<1>2. late' = (IF pc = "idle" THEN 0 ELSE late + 1)
      /\ (pc = "idle" \/ late < MaxLate)
  BY DEF Tick
<1>3. calm' = (IF ~Calm(sensor) THEN 0
               ELSE IF calm < CalmTicks THEN calm + 1 ELSE CalmTicks)
  BY DEF Tick
<1>4. calm' \in Nat /\ calm' <= calm + 1
  <2>1. calm \in 0 .. CalmTicks /\ CalmTicks \in Nat
    BY ConstantsAssumption DEF IInv, TypeOK, PlatformType, CalmTicks
  <2> QED
    BY <1>3, <2>1
<1>5. Pending = 0 /\ Left = timeRemaining
      /\ (timerOn => Pending' = 1 /\ Left' = Left - 1)
      /\ (~timerOn => Pending' = 0 /\ Left' = Left)
  BY <1>1, TimingTypes DEF Pending, Left
<1>6. pc # "idle" => late' = late + 1
  BY <1>2
<1>7. CalmInv'
  <2>1. ~Calm(sensor)' => calm' = 0
    BY <1>1, <1>3 DEF Calm
  <2>2. pc \in {"test", "arm", "extend"} => calm' <= late'
    BY <1>4, <1>6, TimingTypes DEF CalmInv
  <2> QED
    BY <1>1, <2>1, <2>2 DEF CalmInv
<1>8. DueInv'
  <2>1. SUFFICES ASSUME raced = {}, pc \in {"seek", "write"}, status \in {6, 7}
        PROVE  calm' <= late' /\ Left' >= WindowTicks - 1 - late'
    BY <1>1 DEF DueInv
  <2>2. calm <= late /\ Left >= WindowTicks - 1 - late /\ late' = late + 1
    BY <1>6, <2>1 DEF DueInv
  <2>3. Left' >= Left - 1 /\ Left' \in Int
    BY <1>1, <1>5, TimingTypes
  <2> QED
    BY <1>4, <2>2, <2>3, TimingTypes
<1>9. WaitingInv'
  <2>1. SUFFICES ASSUME raced = {}, TellsToWait
        PROVE  /\ pc = "fork" => Left' >= WindowTicks - 1 - late'
               /\ timerOn => calm' <= MaxLate + Pending'
               /\ \A s \in Scripts : script'[s].pc = "start" => Left' >= ScriptTicks
               /\ \A s \in Scripts : script'[s].pc = "waiting" => WaitsInTime(s)'
    BY <1>1 DEF WaitingInv, TellsToWait
  <2>2. pc = "fork" => Left' >= WindowTicks - 1 - late'
    <3>1. Left' >= Left - 1 /\ Left' \in Int
      BY <1>1, <1>5, TimingTypes
    <3> QED
      BY <1>6, <2>1, <3>1, TimingTypes DEF WaitingInv
  <2>3. timerOn => calm' <= MaxLate + Pending'
    BY <1>4, <1>5, <2>1, TimingTypes DEF WaitingInv
  <2>4. ASSUME NEW s \in Scripts
        PROVE  script'[s].pc # "start"
    BY TickScripts DEF Stays, Sleeping, Over
  <2>5. ASSUME NEW s \in Scripts, script'[s].pc = "waiting"
        PROVE  WaitsInTime(s)'
    <3>1. script[s].pc = "waiting" /\ Sleeping(s)
          /\ script'[s].left = script[s].left /\ script'[s].sleep = script[s].sleep - 1
      BY <2>5, TickScripts DEF Stays, Over
    <3>2. PollsEnd(s)' = PollsEnd(s) - 1 /\ PollsEnd(s) >= 1 /\ PollsEnd(s) \in Int
      BY <3>1, ScriptBounds DEF PollsEnd, Sleeping
    <3>3. WaitsInTime(s)
      BY <2>1, <3>1 DEF WaitingInv
    <3>4. timerOn /\ PollsEnd(s) <= Left + 1
      BY <3>2, <3>3 DEF WaitsInTime
    <3>5. PollsEnd(s)' <= Left' + 1
      BY <1>5, <3>2, <3>4, TimingTypes
    <3> QED
      BY <1>1, <3>4, <3>5 DEF WaitsInTime
  <2> QED
    BY <2>2, <2>3, <2>4, <2>5
<1> QED
  BY <1>7, <1>8, <1>9

LEMMA TimingTimer ==
  ASSUME IInv, TimingInv, epow_timer_handler
  PROVE  TimingInv'
<1> USE DEF TimingInv
<1>1. UNCHANGED <<pc, status, late, sensor, calm>> /\ alarm /\ alarm' = FALSE /\ timerOn
  BY DEF epow_timer_handler, mainVars, platform, CalmInv
<1>2. CalmInv'
  BY <1>1 DEF CalmInv, Calm
<1>3. Pending = 1 /\ Left = timeRemaining - 1 /\ Pending' = 0 /\ Left' = timeRemaining'
  BY <1>1, TimerHandlerInv, TimingTypes DEF Pending, Left, IInv, TypeOK, TimerType
<1>4. \A s \in Scripts : Rests(s)
  BY MainRests
<1>5. CASE TimerExpired
  <2>1. timeRemaining = 0 /\ timeRemaining' = 0 /\ timerOn' = FALSE /\ file' = file
        /\ raced \subseteq raced'
    BY <1>5, TimingTypes DEF TimerExpired, statusFile
  <2>2. raced = {} => ~(pc \in {"seek", "write"} /\ status \in {6, 7})
    BY <1>3, <2>1, TimingTypes DEF DueInv
  <2>3. DueInv'
    BY <1>1, <2>1, <2>2 DEF DueInv
  <2>4. SUFFICES ASSUME raced = {}, TellsToWait
        PROVE  /\ pc # "fork"
               /\ \A s \in Scripts : script[s].pc # "start"
               /\ \A s \in Scripts : script[s].pc = "waiting" =>
                    PollsEnd(s) = 0 /\ calm <= MaxLate + 1
    BY <1>1, <1>2, <1>4, <2>1, <2>3 DEF WaitingInv, TellsToWait, WaitsInTime, PollsEnd, Rests, Stays
  <2>5. pc # "fork" /\ \A s \in Scripts : script[s].pc # "start"
    BY <1>3, <2>1, <2>4, TimingTypes DEF WaitingInv
  <2>6. ASSUME NEW s \in Scripts, script[s].pc = "waiting"
        PROVE  PollsEnd(s) = 0 /\ calm <= MaxLate + 1
    <3>1. PollsEnd(s) <= Left + 1 /\ Left = -1
      BY <1>1, <1>3, <2>1, <2>4, <2>6 DEF WaitingInv, WaitsInTime
    <3>2. PollsEnd(s) >= 0 /\ PollsEnd(s) \in Int
      BY <2>6, ScriptBounds DEF PollsEnd
    <3>3. calm <= MaxLate + 1
      BY <1>1, <1>3, <2>4 DEF WaitingInv
    <3> QED
      BY <3>1, <3>2, <3>3
  <2> QED
    BY <2>5, <2>6
<1>6. CASE TimerRecovered
  <2> DEFINE st == CASE sensor = RESET -> 0
                     [] sensor = WARN_COOLING -> 8
                     [] sensor = WARN_POWER -> 9
  <2>1. /\ sensor \in RESET .. SYSTEM_SHUTDOWN - 1
        /\ file' = Overwrite(file, 0, Digits(st))
        /\ raced' = raced \union Rearming \union Hiding
    BY <1>6 DEF TimerRecovered
  <2>2. st \in {0, 8, 9}
    BY <2>1 DEF RESET, WARN_COOLING, WARN_POWER, SYSTEM_SHUTDOWN
  <2> HIDE DEF st
  <2>3. DueInv'
    BY <1>1, <2>1 DEF DueInv, Hiding
  <2>4. ~TellsToWait'
    <3> PICK d : d = Digits(st)
      OBVIOUS
    <3>1. d \in Seq(Bytes) /\ Len(d) > 0 /\ d[1] \in {0, 8, 9}
      BY <2>2 DEF Digits, Bytes
    <3> PICK start \in Nat : start = 0
      OBVIOUS
    <3>2. file \in Seq(Bytes) /\ file' = Overwrite(file, start, d)
      BY <2>1 DEF IInv, TypeOK, FileType
    <3> QED
      BY <3>1, <3>2, LoweredNoWait
  <2> QED
    BY <1>2, <2>3, <2>4 DEF WaitingInv
<1>7. CASE TimerContinues
  <2>1. timeRemaining' = timeRemaining - 1 /\ UNCHANGED <<file, timerOn, raced>> /\ ~Calm(sensor)
    BY <1>7 DEF TimerContinues, statusFile, Calm
  <2>2. Left' = Left /\ calm = 0
    BY <1>3, <2>1, TimingTypes DEF CalmInv
  <2>3. DueInv'
    BY <1>1, <2>1, <2>2 DEF DueInv
  <2>4. SUFFICES ASSUME raced = {}, TellsToWait
        PROVE  /\ pc = "fork" => Left >= WindowTicks - 1 - late
               /\ calm <= MaxLate
               /\ \A s \in Scripts : script[s].pc = "start" => Left >= ScriptTicks
               /\ \A s \in Scripts : script[s].pc = "waiting" => PollsEnd(s) <= Left + 1
    BY <1>1, <1>2, <1>3, <1>4, <2>1, <2>2, <2>3, TimingTypes
       DEF WaitingInv, TellsToWait, WaitsInTime, PollsEnd, Rests, Stays
  <2>5. calm <= MaxLate
    BY <2>2, TimingTypes
  <2> QED
    BY <1>1, <2>4, <2>5 DEF WaitingInv, WaitsInTime
<1> QED
  BY <1>5, <1>6, <1>7 DEF epow_timer_handler

(* A script that steps without touching the file.                          *)
LEMMA TimingOne ==
  ASSUME IInv, TimingInv, NEW s \in Scripts, ScriptStep(s), UNCHANGED file,
         script'[s].pc # "start",
         script'[s].pc = "waiting" /\ raced = {} /\ TellsToWait =>
           \/ timerOn /\ PollsEnd(s)' <= Left + 1
           \/ PollsEnd(s)' = PollsEnd(s) /\ script[s].pc = "waiting"
  PROVE  TimingInv'
<1> USE DEF TimingInv
<1>1. UNCHANGED <<pc, status, late, sensor, calm, alarm, timerOn, timeRemaining, raced>>
      /\ \A t \in Scripts : t # s => Rests(t)
  BY ScriptMoves DEF ScriptOnly, mainVars, timerVars, history, platform
<1>2. CalmInv' /\ DueInv'
  BY <1>1 DEF CalmInv, DueInv, Calm, Left, Pending
<1>3. SUFFICES ASSUME raced = {}, TellsToWait, NEW t \in Scripts
      PROVE  /\ script'[t].pc = "start" => Left >= ScriptTicks
             /\ script'[t].pc = "waiting" => WaitsInTime(t)'
  BY <1>1, <1>2 DEF WaitingInv, TellsToWait, Left, Pending
<1>4. CASE t # s
  <2>1. Rests(t)
    BY <1>1, <1>4
  <2> QED
    BY <1>1, <1>3, <2>1 DEF WaitingInv, WaitsInTime, Rests, Stays, PollsEnd, Left, Pending
<1>5. CASE t = s
  <2>1. ASSUME script'[s].pc = "waiting"
        PROVE  WaitsInTime(s)'
    <3>1. CASE timerOn /\ PollsEnd(s)' <= Left + 1
      BY <1>1, <3>1 DEF WaitsInTime, Left, Pending
    <3>2. CASE PollsEnd(s)' = PollsEnd(s) /\ script[s].pc = "waiting"
      <4>1. WaitsInTime(s)
        BY <1>3, <3>2 DEF WaitingInv
      <4> QED
        BY <1>1, <3>2, <4>1 DEF WaitsInTime, Left, Pending
    <3> QED
      BY <1>3, <2>1, <3>1, <3>2
  <2> QED
    BY <1>5, <2>1
<1> QED
  BY <1>4, <1>5

LEMMA TimingScript ==
  ASSUME IInv, TimingInv, NEW s \in Scripts, ScriptStep(s)
  PROVE  TimingInv'
<1>1. file \in Seq(Bytes)
  BY DEF IInv, TypeOK, FileType
<1>2. CASE ReadStatus(s)
  <2>1. UNCHANGED file /\ script[s].pc = "start"
    BY <1>2 DEF ReadStatus, At
  <2>2. \/ \E p \in {"normal", "halt", "shutdown", "truncate", "undefined"} : Goto(s, p)
        \/ \E d \in 1 .. 2 : script' = [script EXCEPT
               ![s].pc = "waiting", ![s].sleep = d, ![s].left = ScriptTicks]
    BY <1>2 DEF ReadStatus
  <2>3. CASE \E p \in {"normal", "halt", "shutdown", "truncate", "undefined"} : Goto(s, p)
    <3>1. script'[s].pc \notin {"start", "waiting"}
      BY <2>3, GotoFacts
    <3> QED
      BY <2>1, <3>1, TimingOne
  <2>4. CASE \E d \in 1 .. 2 : script' = [script EXCEPT
               ![s].pc = "waiting", ![s].sleep = d, ![s].left = ScriptTicks]
    <3>1. script'[s].pc = "waiting" /\ script'[s].sleep \in 1 .. 2 /\ script'[s].left = ScriptTicks
      BY <2>4, WaitFacts
    <3>2. PollsEnd(s)' <= ScriptTicks + 1 /\ PollsEnd(s)' \in Int
      BY <3>1, TimingTypes DEF PollsEnd
    <3>3. ASSUME raced = {}, TellsToWait
          PROVE  timerOn /\ PollsEnd(s)' <= Left + 1
      <4>1. Left >= ScriptTicks
        BY <2>1, <3>3 DEF TimingInv, WaitingInv
      <4>2. timeRemaining > 0
        BY <4>1, TimingTypes DEF Left
      <4> QED
        BY <3>2, <3>3, <4>1, <4>2, TimingTypes, TimerRuns
    <3> QED
      BY <2>1, <3>1, <3>3, TimingOne
  <2> QED
    BY <2>2, <2>3, <2>4
<1>3. CASE Poll(s)
  <2>1. UNCHANGED file /\ script[s].pc = "waiting" /\ script[s].sleep = 0
    BY <1>3 DEF Poll, At
  <2>2. \/ \E p \in {"cancelled", "undefined"} : Goto(s, p)
        \/ script' = [script EXCEPT
               ![s].left = @ - 1, ![s].sleep = 1,
               ![s].pc = IF script[s].left > 1 THEN "waiting" ELSE "shutdown"]
    BY <1>3 DEF Poll
  <2>3. script'[s].pc # "start" /\ (script'[s].pc = "waiting" => PollsEnd(s)' = PollsEnd(s))
    <3>1. CASE \E p \in {"cancelled", "undefined"} : Goto(s, p)
      BY <3>1, GotoFacts
    <3>2. CASE script' = [script EXCEPT
               ![s].left = @ - 1, ![s].sleep = 1,
               ![s].pc = IF script[s].left > 1 THEN "waiting" ELSE "shutdown"]
      <4>1. script'[s].pc \in {"waiting", "shutdown"} /\ script'[s].sleep = 1
            /\ script'[s].left = script[s].left - 1
        BY <3>2, PollFacts
      <4>2. script[s].left \in Int
        BY ScriptBounds
      <4> QED
        BY <2>1, <4>1, <4>2 DEF PollsEnd
    <3> QED
      BY <2>2, <3>1, <3>2
  <2> QED
    BY <2>1, <2>3, TimingOne
<1>4. CASE Halt(s) \/ Shutdown(s)
  <2>1. UNCHANGED file /\ Goto(s, "ended")
    BY <1>4 DEF Halt, Shutdown
  <2> QED
    BY <2>1, GotoFacts, TimingOne
<1>5. CASE Truncate(s) \/ Echo(s)
  <2>1. UNCHANGED <<pc, status, late, sensor, calm, alarm, timerOn, timeRemaining, raced>>
    BY ScriptMoves DEF ScriptOnly, mainVars, timerVars, history, platform
  <2>2. CalmInv' /\ DueInv'
    BY <2>1 DEF TimingInv, CalmInv, DueInv, Calm, Left, Pending
  <2>3. ~TellsToWait'
    <3>1. CASE Truncate(s)
      <4>1. file' = <<>>
        BY <3>1 DEF Truncate
      <4> QED
        BY <4>1, ReadNothing DEF TellsToWait, Undefined
    <3>2. CASE Echo(s)
      <4> PICK d : d = <<0>>
        OBVIOUS
      <4>1. d \in Seq(Bytes) /\ Len(d) > 0 /\ d[1] \in {0, 8, 9}
        BY DEF Bytes
      <4> PICK start \in Nat : start = 0
        OBVIOUS
      <4>2. file' = Overwrite(file, start, d)
        BY <3>2 DEF Echo
      <4> QED
        BY <1>1, <4>1, <4>2, LoweredNoWait
    <3> QED
      BY <1>5, <3>1, <3>2
  <2> QED
    BY <2>2, <2>3 DEF TimingInv, WaitingInv
<1> QED
  BY <1>2, <1>3, <1>4, <1>5 DEF ScriptStep

-----------------------------------------------------------------------------
(* The theorem.                                                            *)

LEMMA ObeyNext == ObeyInv /\ [Next]_vars => ObeyInv'
<1> SUFFICES ASSUME ObeyInv, [Next]_vars PROVE ObeyInv'
  OBVIOUS
<1>1. IInv /\ CalledInv /\ ForkedInv /\ ToldInv /\ TimingInv
  BY DEF ObeyInv
<1>2. IInv' /\ ForkedInv'
  BY <1>1, NextInv, ForkedNext
<1>3. SUFFICES CalledInv' /\ ToldInv' /\ TimingInv'
  BY <1>2 DEF ObeyInv
<1>4. StatusInv /\ WriteInv
  BY <1>1 DEF CalledInv, ToldInv
<1>5. CASE \E e \in Events : Receive(e)
  BY <1>1, <1>5, CalledMain, ToldMain, TimingReceive
<1>6. CASE TestTimer \/ SeekStatus \/ SensorChanges \/ UNCHANGED vars
  BY <1>1, <1>6, CalledMain, ToldMain, TimingMain
<1>7. CASE ArmTimer
  BY <1>1, <1>7, CalledMain, ToldMain, TimingArm
<1>8. CASE Extend
  BY <1>1, <1>8, CalledMain, ToldMain, TimingExtend
<1>9. CASE WriteStatus
  BY <1>1, <1>4, <1>9, CalledMain, ToldWrite, TimingWrite
<1>10. CASE epow_timer_handler
  BY <1>1, <1>10, CalledMain, ToldTimer, TimingTimer
<1>11. CASE Fork
  BY <1>1, <1>11, CalledRest, ToldRest, TimingFork
<1>12. CASE Restart
  BY <1>1, <1>12, CalledRest, ToldRest, TimingRestart
<1>13. CASE Tick
  BY <1>1, <1>13, CalledRest, ToldRest, TimingTick
<1>14. CASE \E s \in Scripts : ScriptStep(s)
  BY <1>1, <1>14, CalledScript, ToldScript, TimingScript
<1> QED
  BY <1>5, <1>6, <1>7, <1>8, <1>9, <1>10, <1>11, <1>12, <1>13, <1>14 DEF Next, ScriptStep

(* The invariant says when a script may find its time up.                  *)
LEMMA TimeUpWarned ==
  ASSUME ObeyInv, NEW s \in Scripts, TimeUp(s)
  PROVE  calm < CalmTicks \/ raced # {}
<1>1. IInv /\ WaitingInv /\ script[s].pc = "waiting" /\ TellsToWait
  BY DEF ObeyInv, TimingInv, TimeUp, TellsToWait
<1>2. ASSUME raced = {}
      PROVE  calm <= MaxLate + 1
  <2>1. WaitsInTime(s) /\ (timerOn => calm <= MaxLate + Pending)
    BY <1>1, <1>2 DEF WaitingInv
  <2> QED
    BY <1>1, <2>1, TimingTypes DEF WaitsInTime
<1> QED
  BY <1>1, <1>2, TimingTypes DEF CalmTicks

(* The scripts of rc.powerfail do to the machine what check_epow decided   *)
(* about an event, for all events, sensors and windows: the machine goes   *)
(* down only for a status that asks for it, no script gives up a status    *)
(* that was not lowered, and none shuts down a machine that has recovered. *)
THEOREM ScriptsDoAsDecided == Spec => ScriptsObey
<1>1. Init => ObeyInv
  BY InitInv, CalledInit, ToldInit, TimingInit DEF ObeyInv
<1>2. ObeyInv => TakenDownOnlyIfCalledFor /\ GivesUpOnlyIfLowered
  BY DEF ObeyInv, CalledInv, ToldInv
<1>3. ObeyInv => \A s \in Scripts : TimeUp(s) => calm < CalmTicks \/ raced # {}
  BY TimeUpWarned
<1> QED
  BY <1>1, <1>2, <1>3, ObeyNext, PTL DEF Spec, ScriptsObey, RecoveredNotShutDown
=============================================================================

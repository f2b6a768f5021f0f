-------------------------- MODULE RtasErrd_proofs --------------------------
(***************************************************************************)
(* Proofs about RtasErrd: every event that has left the kernel is          *)
(* accounted for, across deaths and restarts; the configuration does not   *)
(* change while an event is handled; and in one life of the daemon each    *)
(* event is acted on once and a SIGHUP is not forgotten.                   *)
(***************************************************************************)
EXTENDS RtasErrd, TLAPS

Booting  == {"dead", "map", "parse", "catchup"}
InHand   == {"received", "clear"} \union Handling
Done(n)  == n \in finished \union excused

Numeric ==
  /\ pc \in MainPoints
  /\ taken \in Nat /\ syslog \in Nat /\ last \in Nat /\ cur \in Nat /\ upto \in Nat

(* The daemon catches up from syslog, or it reads what the kernel queues.  *)
Modes ==
  /\ upto > 0 => pc \in Handling \union {"replay"} /\ cur <= upto
  /\ pc = "replay" => upto > 0
  /\ upto = 0 /\ pc \in InHand => cur \in 1 .. taken

(* The platform log never gets ahead of what is done.                      *)
LogInv ==
  \A n \in 1 .. last : Done(n) \/ (n = cur /\ pc \in {"act", "report"})

(* Reading, all the events consumed are done but for the one in hand.      *)
ReadInv ==
  upto = 0 /\ pc \notin Booting =>
    \A n \in 1 .. taken : Done(n) \/ (n = cur /\ pc \in InHand)

(* Catching up, all the events passed are done but for the one in hand,    *)
(* and so are those consumed that lie beyond what syslog has.              *)
ReplayInv ==
  upto > 0 => /\ \A n \in 1 .. cur : Done(n) \/ (n = cur /\ pc \in InHand)
              /\ \A n \in 1 .. taken : n > upto => Done(n)

IInv == Numeric /\ Modes /\ LogInv /\ ReadInv /\ ReplayInv

-----------------------------------------------------------------------------
LEMMA InitInv == Init => IInv
<1> SUFFICES ASSUME Init PROVE IInv
  OBVIOUS
<1>1. pc = "map" /\ taken = 0 /\ syslog = 0 /\ last = 0 /\ cur = 0 /\ upto = 0
  BY DEF Init
<1> QED BY <1>1 DEF IInv, Numeric, Modes, LogInv, ReadInv, ReplayInv, MainPoints, Booting,
                   InHand, Handling

(* Steps that only move the daemon from a point to another, or change what *)
(* the invariant is not about.                                             *)
LEMMA ElsewhereInv ==
  ASSUME IInv, UNCHANGED <<taken, last, cur, upto, finished, excused>>, syslog' \in Nat,
         pc' \in MainPoints, pc \in InHand => pc' \in InHand,
         pc' \in InHand => pc \in InHand, pc \in Booting => pc' \in Booting,
         pc' \in Booting => pc \in Booting, pc' = "replay" => pc = "replay",
         pc' \in {"act", "report"} <=> pc \in {"act", "report"},
         pc \in Handling \union {"replay"} => pc' = pc
  PROVE  IInv'
<1>1. Numeric'
  BY DEF IInv, Numeric
<1>2. Modes'
  BY DEF IInv, Modes
<1>3. LogInv'
  BY DEF IInv, LogInv, Done
<1>4. ReadInv'
  BY DEF IInv, ReadInv, Done
<1>5. ReplayInv'
  BY DEF IInv, ReplayInv, Done
<1> QED BY <1>1, <1>2, <1>3, <1>4, <1>5 DEF IInv

LEMMA EnvironmentInv ==
  ASSUME IInv, Raise \/ Syslogd \/ Edit \/ Hup \/ sighup_handler \/ UNCHANGED vars
  PROVE  IInv'
<1>1. UNCHANGED <<pc, taken, last, cur, upto, finished, excused>>
  BY DEF Raise, Syslogd, Edit, Hup, sighup_handler, vars, kernel, platform, work, fate
<1>2. syslog' = syslog \/ syslog' = syslog + 1
  BY DEF Raise, Syslogd, Edit, Hup, sighup_handler, vars, kernel
<1>3. syslog' \in Nat /\ pc' \in MainPoints
  BY <1>1, <1>2 DEF IInv, Numeric
<1> QED BY <1>1, <1>3, ElsewhereInv

LEMMA MovesInv ==
  ASSUME IInv, Restart \/ MapConfig \/ LoadFlags \/ TestReceived
  PROVE  IInv'
<1>1. UNCHANGED <<taken, syslog, last, cur, upto, finished, excused>>
  BY DEF Restart, MapConfig, LoadFlags, TestReceived, kernel, platform, work, fate
<1>2. \/ pc = "dead" /\ pc' = "map"
      \/ pc = "map" /\ pc' = "parse"
      \/ pc = "remap" /\ pc' = "reparse"
      \/ pc = "received" /\ pc' = "clear"
      \/ pc = "resume" /\ pc' = "restore"
      \/ pc = "forget" /\ pc' = "unset"
      \/ pc = "test" /\ pc' \in {"remap", "read"}
  BY DEF Restart, MapConfig, LoadFlags, TestReceived, Goto
<1>3. syslog' \in Nat
  BY <1>1 DEF IInv, Numeric
<1> QED BY <1>1, <1>2, <1>3, ElsewhereInv DEF MainPoints, InHand, Booting, Handling

LEMMA ParseConfigInv ==
  ASSUME IInv, ParseConfig
  PROVE  IInv'
<1>1. UNCHANGED <<taken, syslog, last, cur, upto, finished, excused>>
  BY DEF ParseConfig, kernel, platform, work, fate
<1>2. \/ pc = "parse" /\ pc' = "catchup"
      \/ pc = "reparse" /\ pc' = "forget"
  BY DEF ParseConfig, Goto
<1>3. syslog' \in Nat
  BY <1>1 DEF IInv, Numeric
<1> QED BY <1>1, <1>2, <1>3, ElsewhereInv DEF MainPoints, InHand, Booting, Handling

LEMMA StoreFlagsInv ==
  ASSUME IInv, StoreFlags
  PROVE  IInv'
<1>1. UNCHANGED <<taken, syslog, last, cur, upto, finished, excused>>
  BY DEF StoreFlags, StoreFlagsFirst, kernel, platform, work, fate
<1>2. \/ pc = "clear" /\ pc' = "print"
      \/ pc = "restore" /\ pc' = "test"
      \/ pc = "unset" /\ pc' = "read"
  BY DEF StoreFlags, StoreFlagsFirst, Goto
<1>3. syslog' \in Nat
  BY <1>1 DEF IInv, Numeric
<1> QED BY <1>1, <1>2, <1>3, ElsewhereInv DEF MainPoints, InHand, Booting, Handling

LEMMA CatchUpInv ==
  ASSUME IInv, CatchUp
  PROVE  IInv'
<1>1. pc = "catchup" /\ UNCHANGED <<taken, syslog, last, finished>> /\ upto = 0
      /\ taken \in Nat /\ syslog \in Nat /\ last \in Nat /\ cur \in Nat
  BY DEF CatchUp, CatchUpAfter, kernel, platform, IInv, Numeric, Modes, Handling
<1>2. \A n \in 1 .. last : Done(n)
  BY <1>1 DEF IInv, LogInv
<1>3. excused \subseteq excused'
  BY DEF CatchUp, CatchUpAfter
<1>4. \A n \in 1 .. last' : Done(n)'
  BY <1>1, <1>2, <1>3 DEF Done
<1>5. CASE /\ last < syslog /\ pc' = "replay" /\ cur' = last /\ upto' = syslog
           /\ excused' = excused \union {m \in Unfinished : m > syslog}
  <2>1. upto' > 0 /\ cur' <= upto'
    BY <1>1, <1>5
  <2>2. \A n \in 1 .. taken' : n > upto' => Done(n)'
    BY <1>1, <1>5 DEF Done, Unfinished
  <2> QED BY <1>1, <1>4, <1>5, <2>1, <2>2
          DEF IInv, Numeric, Modes, LogInv, ReadInv, ReplayInv, MainPoints, InHand, Handling
<1>6. CASE /\ pc' = "read" /\ UNCHANGED <<cur, upto>>
           /\ \/ /\ last >= syslog
                 /\ excused' = excused \union {m \in Unfinished : m > syslog}
              \/ excused' = excused \union Unfinished
  <2>1. \A n \in 1 .. taken' : Done(n)'
    BY <1>1, <1>2, <1>6 DEF Done, Unfinished
  <2> QED BY <1>1, <1>4, <1>6, <2>1
          DEF IInv, Numeric, Modes, LogInv, ReadInv, ReplayInv, MainPoints, InHand, Handling
<1> QED BY <1>5, <1>6 DEF CatchUp, CatchUpAfter

LEMMA ReplayStepInv ==
  ASSUME IInv, Replay
  PROVE  IInv'
<1>1. pc = "replay" /\ UNCHANGED <<taken, syslog, last, finished>> /\ upto > 0 /\ cur <= upto
      /\ taken \in Nat /\ syslog \in Nat /\ last \in Nat /\ cur \in Nat /\ upto \in Nat
  BY DEF Replay, ReplayNext, kernel, platform, IInv, Numeric, Modes
<1>2. excused \subseteq excused'
  BY DEF Replay, ReplayNext
<1>3. /\ \A n \in 1 .. cur : Done(n)' /\ Done(n)
      /\ \A n \in 1 .. last' : Done(n)'
      /\ \A n \in 1 .. taken : n > upto => Done(n)'
  BY <1>1, <1>2 DEF Done, IInv, ReplayInv, LogInv, InHand, Handling
<1>4. CASE /\ cur < upto /\ cur' = cur + 1 /\ UNCHANGED upto
           /\ \/ pc' = "replay" /\ excused' = excused \union {cur + 1}
              \/ pc' = "print"
  <2>1. \A n \in 1 .. cur' : n \in 1 .. cur \/ n = cur'
    BY <1>1, <1>4
  <2>2. \A n \in 1 .. cur' : Done(n)' \/ (n = cur' /\ pc' \in InHand)
    BY <1>3, <1>4, <2>1 DEF Done, InHand, Handling
  <2>3. cur' \in Nat /\ cur' <= upto'
    BY <1>1, <1>4
  <2> QED BY <1>1, <1>3, <1>4, <2>2, <2>3
          DEF IInv, Numeric, Modes, LogInv, ReadInv, ReplayInv, MainPoints, Handling
<1>5. CASE cur >= upto /\ pc' = "read" /\ cur' = 0 /\ upto' = 0
  <2>1. \A n \in 1 .. taken' : Done(n)'
    BY <1>1, <1>3, <1>5
  <2> QED BY <1>1, <1>3, <1>5, <2>1
          DEF IInv, Numeric, Modes, LogInv, ReadInv, ReplayInv, MainPoints, InHand, Handling
<1> QED BY <1>4, <1>5 DEF Replay, ReplayNext

LEMMA ReadStepInv ==
  ASSUME IInv, Read
  PROVE  IInv'
<1>1. pc = "read" /\ pc' = "received" /\ taken' = taken + 1 /\ cur' = taken + 1
      /\ UNCHANGED <<syslog, last, upto, finished, excused>>
  BY DEF Read, Take, kernel, platform, work, fate
<1>2. upto = 0 /\ taken \in Nat /\ last \in Nat /\ syslog \in Nat
  BY <1>1 DEF IInv, Numeric, Modes, Handling
<1>3. \A n \in 1 .. taken' : n \in 1 .. taken \/ n = cur'
  BY <1>1, <1>2
<1>4. ReadInv'
  BY <1>1, <1>2, <1>3 DEF IInv, ReadInv, Done, InHand, Booting, Handling
<1>5. LogInv'
  BY <1>1 DEF IInv, LogInv, Done
<1>6. cur' \in 1 .. taken'
  BY <1>1, <1>2
<1> QED BY <1>1, <1>2, <1>4, <1>5, <1>6
        DEF IInv, Numeric, Modes, ReplayInv, MainPoints, InHand, Handling

(* Whenever the daemon dies, the events of the platform log are done.      *)
LEMMA DieInv ==
  ASSUME IInv, Die, taken' \in Nat, UNCHANGED <<syslog, last, finished>>,
         excused \subseteq excused', pc \in {"act", "report"} => cur \in excused'
  PROVE  IInv'
<1>1. pc' = "dead" /\ cur' = 0 /\ upto' = 0
  BY DEF Die
<1>2. LogInv'
  BY <1>1 DEF IInv, LogInv, Done
<1> QED BY <1>1, <1>2 DEF IInv, Numeric, Modes, ReadInv, ReplayInv, MainPoints, InHand,
                         Handling, Booting

LEMMA DeathsInv ==
  ASSUME IInv, ReadGarbled \/ Crash
  PROVE  IInv'
<1>1. CASE ReadGarbled
  <2>1. taken' = taken + 1
    BY <1>1 DEF ReadGarbled, Take
  <2>2. taken' \in Nat
    BY <2>1 DEF IInv, Numeric
  <2> QED BY <1>1, <2>2, DieInv DEF ReadGarbled, Take, kernel, platform
<1>2. CASE Crash
  <2>1. taken' \in Nat
    BY <1>2 DEF Crash, kernel, IInv, Numeric
  <2> QED BY <1>2, <2>1, DieInv DEF Crash, kernel, platform
<1> QED BY <1>1, <1>2

LEMMA ReadFailsInv ==
  ASSUME IInv, ReadFails
  PROVE  IInv'
<1>1. pc = "read" /\ UNCHANGED <<kernel, platform, fate>>
  BY DEF ReadFails, ReadFailsTimes
<1>2. UNCHANGED <<taken, syslog, last, finished, excused>> /\ taken' \in Nat
      /\ syslog' \in Nat
  BY <1>1 DEF kernel, platform, fate, IInv, Numeric
<1>3. CASE Die
  BY <1>1, <1>2, <1>3, DieInv
<1>4. CASE UNCHANGED <<pc, cur, upto>>
  BY <1>1, <1>2, <1>4, ElsewhereInv DEF MainPoints, Handling
<1> QED BY <1>3, <1>4 DEF ReadFails, ReadFailsTimes

(* An event that is logged is the first that may be undone, wherever the   *)
(* daemon took it from.                                                    *)
LEMMA BeforeInHand ==
  ASSUME IInv, pc \in Handling
  PROVE  /\ \A n \in 1 .. cur : Done(n) \/ n = cur
         /\ upto = 0 => \A n \in 1 .. taken : Done(n) \/ n = cur
         /\ upto > 0 => \A n \in 1 .. taken : n > upto => Done(n)
<1>1. CASE upto > 0
  BY <1>1 DEF IInv, ReplayInv
<1>2. CASE ~(upto > 0)
  <2>1. upto = 0 /\ pc \in InHand /\ pc \notin Booting
    BY <1>2 DEF IInv, Numeric, InHand, Handling, Booting
  <2>2. cur \in 1 .. taken
    BY <2>1 DEF IInv, Modes
  <2>3. \A n \in 1 .. taken : Done(n) \/ n = cur
    BY <2>1 DEF IInv, ReadInv
  <2>4. \A n \in 1 .. cur : n \in 1 .. taken
    BY <2>2 DEF IInv, Numeric
  <2> QED BY <2>1, <2>3, <2>4
<1> QED BY <1>1, <1>2

(* The event in hand moves on, without being done.                         *)
LEMMA OnwardInv ==
  ASSUME IInv, pc \in Handling, pc' \in {"act", "report"}, last' \in {cur, last},
         UNCHANGED <<taken, syslog, cur, upto, finished, excused>>
  PROVE  IInv'
<1>1. /\ \A n \in 1 .. cur : Done(n) \/ n = cur
      /\ upto = 0 => \A n \in 1 .. taken : Done(n) \/ n = cur
      /\ upto > 0 => \A n \in 1 .. taken : n > upto => Done(n)
  BY BeforeInHand
<1>2. LogInv'
  BY <1>1 DEF IInv, LogInv, Done
<1>3. Numeric' /\ Modes'
  BY DEF IInv, Numeric, Modes, MainPoints, InHand, Handling
<1>4. ReadInv' /\ ReplayInv'
  BY <1>1 DEF ReadInv, ReplayInv, Done, InHand, Handling
<1> QED BY <1>2, <1>3, <1>4 DEF IInv

(* The event in hand is done, or given up.                                 *)
LEMMA DoneInv ==
  ASSUME IInv, pc \in Handling, pc' = AfterHandling,
         UNCHANGED <<taken, syslog, last, cur, upto>>,
         finished \subseteq finished', excused \subseteq excused',
         cur \in finished' \union excused'
  PROVE  IInv'
<1>1. /\ \A n \in 1 .. cur : Done(n) \/ n = cur
      /\ upto = 0 => \A n \in 1 .. taken : Done(n) \/ n = cur
      /\ upto > 0 => \A n \in 1 .. taken : n > upto => Done(n)
  BY BeforeInHand
<1>2. Done(cur)' /\ \A n : Done(n) => Done(n)'
  BY DEF Done
<1>3. LogInv'
  BY <1>2 DEF IInv, LogInv
<1>4. pc' = IF upto > 0 THEN "replay" ELSE "resume"
  BY DEF AfterHandling
<1>5. Numeric' /\ Modes'
  BY <1>4 DEF IInv, Numeric, Modes, MainPoints, InHand, Handling
<1>6. ReadInv' /\ ReplayInv'
  BY <1>1, <1>2 DEF ReadInv, ReplayInv
<1> QED BY <1>3, <1>5, <1>6 DEF IInv

LEMMA HandleInv ==
  ASSUME IInv, PrintEvent \/ Act \/ Report
  PROVE  IInv'
<1>1. CASE PrintEvent
  <2>1. pc = "print" /\ UNCHANGED <<taken, syslog, cur, upto, finished>>
    BY <1>1 DEF PrintEvent, kernel, work
  <2>2. CASE pc' = "act" /\ last' \in {cur, last} /\ UNCHANGED excused
    BY <2>1, <2>2, OnwardInv DEF Handling
  <2>3. CASE pc' = AfterHandling /\ excused' = excused \union {cur} /\ UNCHANGED platform
    BY <2>1, <2>3, DoneInv DEF Handling, platform
  <2> QED BY <1>1, <2>2, <2>3 DEF PrintEvent
<1>2. CASE Act
  <2>1. pc = "act" /\ UNCHANGED <<taken, syslog, last, cur, upto>>
    BY <1>2 DEF Act, kernel, work, platform
  <2>2. CASE pc' = "report" /\ UNCHANGED fate
    BY <2>1, <2>2, OnwardInv DEF Handling, fate
  <2>3. CASE pc' = AfterHandling /\ Finish
    BY <2>1, <2>3, DoneInv DEF Handling, Finish
  <2> QED BY <1>2, <2>2, <2>3 DEF Act
<1>3. CASE Report
  <2>1. pc = "report" /\ pc' = AfterHandling /\ Finish
        /\ UNCHANGED <<taken, syslog, last, cur, upto>>
    BY <1>3 DEF Report, Goto, kernel, work, platform
  <2> QED BY <2>1, DoneInv DEF Handling, Finish
<1> QED BY <1>1, <1>2, <1>3

LEMMA NextInv == IInv /\ [Next]_vars => IInv'
<1> SUFFICES ASSUME IInv, [Next]_vars PROVE IInv'
  OBVIOUS
<1>1. CASE MainStep
  BY <1>1, MovesInv, ParseConfigInv, StoreFlagsInv, CatchUpInv, ReplayStepInv, ReadStepInv,
     DeathsInv, ReadFailsInv, HandleInv DEF MainStep
<1>2. CASE Raise \/ Syslogd \/ Edit \/ Hup \/ sighup_handler \/ UNCHANGED vars
  BY <1>2, EnvironmentInv
<1>3. CASE Crash
  BY <1>3, DeathsInv
<1> QED BY <1>1, <1>2, <1>3 DEF Next

(* Between two events, every event that has left the kernel has been       *)
(* handled to the end or is excused, for any number of events, crashes and *)
(* restarts: what update_rtas_msgs compares, the last number of the        *)
(* platform log, never gets ahead of what has been done.                   *)
THEOREM EventsAccountedFor == Spec => []AccountedFor
<1>1. IInv => AccountedFor
  <2> SUFFICES ASSUME IInv, pc = "read" PROVE \A n \in 1 .. taken : Done(n)
    BY DEF AccountedFor, Done
  <2>1. upto = 0
    BY DEF IInv, Numeric, Modes, Handling
  <2> QED BY <2>1 DEF IInv, ReadInv, Booting, InHand, Handling
<1> QED BY <1>1, InitInv, NextInv, PTL DEF Spec

-----------------------------------------------------------------------------
(* Reconfiguration.                                                        *)

(* Where the main thread has not yet allowed its handler to reconfigure.   *)
Unsafe  == Booting \union {"replay"} \union Handling \union {"resume", "restore"}
SafeInv == pc \in Unsafe => SAFE \notin flags

LEMMA SafeInit == Init => SafeInv
BY DEF Init, SafeInv

LEMMA SafeNext == SafeInv /\ [Next]_vars => SafeInv'
<1> SUFFICES ASSUME SafeInv, [Next]_vars PROVE SafeInv'
  OBVIOUS
<1> USE DEF SafeInv, Unsafe, Booting, Handling
<1>1. CASE Raise \/ Syslogd \/ Edit \/ Hup \/ UNCHANGED vars
  BY <1>1 DEF Raise, Syslogd, Edit, Hup, vars, setup
<1>2. CASE sighup_handler
  BY <1>2 DEF sighup_handler, SAFE, RECEIVED
<1>3. CASE Restart \/ MapConfig \/ ParseConfig \/ CatchUp \/ Replay
  BY <1>3 DEF Restart, MapConfig, ParseConfig, CatchUp, CatchUpAfter, Replay, ReplayNext,
              Goto, setup
<1>4. CASE Read \/ ReadGarbled \/ ReadFails \/ Crash
  BY <1>4 DEF Read, ReadGarbled, ReadFails, ReadFailsTimes, Take, Crash, Die, setup
<1>5. CASE StoreFlags
  BY <1>5 DEF StoreFlags, StoreFlagsFirst, Goto
<1>6. CASE LoadFlags \/ TestReceived
  BY <1>6 DEF LoadFlags, TestReceived, Goto, setup
<1>7. CASE PrintEvent \/ Act \/ Report
  BY <1>7 DEF PrintEvent, Act, Report, AfterHandling, Goto, setup
<1> QED BY <1>1, <1>2, <1>3, <1>4, <1>5, <1>6, <1>7 DEF Next, MainStep

(* The configuration does not change while an event is handled: wherever   *)
(* it handles one, the main thread has cleared SAFE or never set it, so    *)
(* that the SIGHUP handler leaves d_cfg alone.                             *)
THEOREM ConfigurationSteady == Spec => ConfigSteady
<1>1. SafeInv /\ [Next]_vars => [{pc, pc'} \subseteq Handling => config' = config]_vars
  <2> SUFFICES ASSUME SafeInv, [Next]_vars, {pc, pc'} \subseteq Handling
               PROVE  config' = config
    OBVIOUS
  <2>1. SAFE \notin flags /\ pc \in Handling /\ pc' \in Handling
    BY DEF SafeInv, Unsafe
  <2>2. CASE Raise \/ Syslogd \/ Edit \/ Hup \/ UNCHANGED vars
    BY <2>2 DEF Raise, Syslogd, Edit, Hup, vars, setup
  <2>3. CASE sighup_handler
    BY <2>1, <2>3 DEF sighup_handler
  <2>4. CASE Restart \/ MapConfig \/ ParseConfig \/ CatchUp \/ Replay \/ LoadFlags
               \/ StoreFlags \/ TestReceived
    BY <2>1, <2>4 DEF Restart, MapConfig, ParseConfig, CatchUp, CatchUpAfter, Replay,
                      ReplayNext, LoadFlags, StoreFlags, StoreFlagsFirst, TestReceived,
                      Goto, Handling, setup
  <2>5. CASE Read \/ ReadGarbled \/ ReadFails \/ Crash
    BY <2>1, <2>5 DEF Read, ReadGarbled, ReadFails, ReadFailsTimes, Take, Crash, Die,
                      Handling, setup
  <2>6. CASE PrintEvent \/ Act \/ Report
    BY <2>6 DEF PrintEvent, Act, Report, setup
  <2> QED BY <2>2, <2>3, <2>4, <2>5, <2>6 DEF Next, MainStep
<1> QED BY <1>1, SafeInit, SafeNext, PTL DEF Spec, ConfigSteady

-----------------------------------------------------------------------------
(* One life of the daemon.                                                 *)

(* Where a life stands: what it has taken from the kernel comes after what *)
(* it has found in syslog.                                                 *)
Where ==
  /\ pc \in Handling => cur \in Numbers
  /\ pc \in Booting => start = taken /\ replayed = 0
  /\ upto > 0 => start = taken /\ replayed = upto
  /\ upto = 0 /\ pc \in InHand => cur = taken /\ taken > start

(* How often it may have acted on an event: once for syslog, as far as it  *)
(* has come there, and once for the kernel.                                *)
NotYet == {"received", "clear", "print", "act"}
FromSyslog(n) ==
  /\ pc \notin Booting
  /\ IF upto > 0 THEN n < cur \/ (n = cur /\ pc \notin NotYet) ELSE n <= replayed
FromKernel(n) ==
  /\ pc \notin Booting /\ upto = 0 /\ n > start /\ n <= taken
  /\ ~(n = cur /\ pc \in NotYet)
Counted ==
  \A n \in Numbers :
    /\ acts[n] > 0 => FromSyslog(n) \/ FromKernel(n)
    /\ acts[n] > 1 => FromSyslog(n) /\ FromKernel(n)
    /\ acts[n] <= 2

(* What becomes of a SIGHUP: it is noted in the flags, or in those about   *)
(* to be stored, or the file has been read since, or it is a race.         *)
Current == config >= promised \/ raced
MappedCurrent == mapped >= promised \/ raced
Noted(f) == RECEIVED \in f \/ Current
Reading  == {"catchup", "replay", "read", "received", "resume", "test"} \union Handling
Reconfigurable == {"test", "remap", "reparse", "forget", "unset"}
Heard ==
  /\ pc \in {"dead", "map", "parse", "catchup", "replay"} \union Handling => SAFE \notin flags
  /\ pc = "parse" => RECEIVED \in flags \/ MappedCurrent
  /\ pc \in Reading => Noted(flags)
  /\ pc \in {"clear", "restore"} => Noted(loaded)
  /\ pc \in Reconfigurable => SAFE \in flags
  /\ pc = "reparse" => MappedCurrent
  /\ pc \in {"forget", "unset"} \/ (pc = "read" /\ SAFE \in flags) => Current

LifeInv == IInv /\ TypeOK /\ Where /\ Counted /\ Heard

LEMMA LifeInit == Init => LifeInv
<1> SUFFICES ASSUME Init PROVE LifeInv
  OBVIOUS
<1> USE ConstantsAssumption DEF Init
<1>1. TypeOK
  <2>1. KernelType
    BY DEF KernelType
  <2>0. empty \in BOOLEAN /\ sighup \in BOOLEAN /\ raced \in BOOLEAN /\ announced \in BOOLEAN
    BY Zenon
  <2>2. LogType /\ SignalType
    BY <2>0 DEF LogType, SignalType
  <2>3. WorkType /\ FlagsType /\ ConfigType /\ LifeType
    BY DEF WorkType, FlagsType, ConfigType, LifeType, MainPoints
  <2>4. GhostType
    BY <2>0 DEF GhostType
  <2> QED
    BY <2>1, <2>2, <2>3, <2>4 DEF TypeOK
<1>2. Where /\ Counted /\ Heard
  BY DEF Where, Counted, Heard, Booting, Handling, InHand, Reading, Reconfigurable, Noted,
         Current, MappedCurrent
<1> QED
  BY <1>1, <1>2, InitInv DEF LifeInv

(* The types, by the part of the state that an action changes.             *)
LEMMA EnvironmentType ==
  ASSUME TypeOK, Raise \/ Syslogd \/ Edit \/ Hup \/ sighup_handler \/ UNCHANGED vars
  PROVE  TypeOK'
<1> USE DEF TypeOK, LogType, WorkType, LifeType, platform, work, fate, life, setup
<1>1. CASE Raise
  <2>1. PICK k \in Kinds : kind' = [kind EXCEPT ![raised + 1] = k]
    BY <1>1 DEF Raise
  <2>2. raised' = raised + 1 /\ raised' \in 0 .. MaxRaised /\ UNCHANGED <<taken, syslog>>
    BY <1>1, ConstantsAssumption DEF Raise, KernelType
  <2>3. KernelType'
    BY <2>1, <2>2 DEF KernelType, Numbers
  <2>4. GhostType'
    BY <1>1, <2>2 DEF Raise, GhostType, KernelType
  <2>5. LogType' /\ WorkType' /\ LifeType'
    BY <1>1, <2>2 DEF Raise, KernelType
  <2>6. FlagsType' /\ ConfigType' /\ SignalType'
    BY <1>1 DEF Raise, FlagsType, ConfigType, SignalType, signals
  <2> QED
    BY <2>3, <2>4, <2>5, <2>6
<1>2. CASE Syslogd
  <2>1. syslog' = syslog + 1 /\ UNCHANGED <<raised, kind, taken>> /\ syslog' \in 0 .. raised
    BY <1>2 DEF Syslogd, KernelType
  <2>2. KernelType' /\ WorkType' /\ LogType' /\ GhostType' /\ LifeType'
    BY <1>2, <2>1 DEF Syslogd, KernelType, GhostType
  <2>3. FlagsType' /\ ConfigType' /\ SignalType'
    BY <1>2 DEF Syslogd, FlagsType, ConfigType, SignalType, signals
  <2> QED
    BY <2>2, <2>3
<1>3. CASE Edit
  <2>1. ConfigType' /\ FlagsType' /\ SignalType'
    BY <1>3, ConstantsAssumption DEF Edit, ConfigType, FlagsType, SignalType
  <2>2. KernelType' /\ WorkType' /\ LogType' /\ GhostType' /\ LifeType'
    BY <1>3 DEF Edit, kernel, KernelType, GhostType
  <2> QED
    BY <2>1, <2>2
<1>4. CASE Hup
  <2>1. ConfigType' /\ FlagsType' /\ SignalType'
    BY <1>4 DEF Hup, ConfigType, FlagsType, SignalType
  <2>2. KernelType' /\ WorkType' /\ LogType' /\ GhostType' /\ LifeType'
    BY <1>4 DEF Hup, kernel, KernelType, GhostType
  <2> QED
    BY <2>1, <2>2
<1>5. CASE sighup_handler
  <2>1. ConfigType' /\ FlagsType'
    BY <1>5 DEF sighup_handler, ConfigType, FlagsType
  <2>3. sighup' \in BOOLEAN /\ raced' \in BOOLEAN
    BY <1>5 DEF sighup_handler
  <2>2. KernelType' /\ WorkType' /\ LogType' /\ GhostType' /\ LifeType'
    BY <1>5 DEF sighup_handler, kernel, KernelType, GhostType
  <2> QED
    BY <2>1, <2>2, <2>3 DEF SignalType
<1>6. CASE UNCHANGED vars
  BY <1>6 DEF vars, kernel, signals, KernelType, FlagsType, ConfigType, SignalType, GhostType
<1> QED
  BY <1>1, <1>2, <1>3, <1>4, <1>5, <1>6

LEMMA DieType ==
  ASSUME TypeOK, Die, UNCHANGED <<raised, kind, syslog, platform, finished>>,
         taken' \in 0 .. raised, excused' \subseteq 1 .. raised, crashes' \in 0 .. MaxCrashes
  PROVE  TypeOK'
<1> USE DEF TypeOK, Die
<1>0. announced' \in BOOLEAN /\ sighup' \in BOOLEAN /\ raced' \in BOOLEAN
  BY Zenon
<1>1. KernelType' /\ LifeType' /\ FlagsType' /\ ConfigType'
  BY DEF KernelType, LifeType, FlagsType, ConfigType
<1>2. LogType' /\ SignalType'
  BY <1>0 DEF LogType, SignalType, platform
<1>3. WorkType'
  BY DEF WorkType, MainPoints, KernelType
<1>4. GhostType'
  BY <1>0 DEF GhostType, KernelType
<1> QED
  BY <1>1, <1>2, <1>3, <1>4

LEMMA MainType ==
  ASSUME TypeOK, Modes, Where, Counted, MainStep \/ Crash
  PROVE  TypeOK'
<1> USE DEF TypeOK
<1>1. CASE Restart \/ MapConfig \/ ParseConfig \/ LoadFlags \/ StoreFlags \/ TestReceived
  <2>1. UNCHANGED <<kernel, platform, work, crashes, fate, life, signals>>
    BY <1>1 DEF Restart, MapConfig, ParseConfig, LoadFlags, StoreFlags, StoreFlagsFirst,
                TestReceived
  <2>2. FlagsType' /\ ConfigType'
    BY <1>1 DEF Restart, MapConfig, ParseConfig, LoadFlags, StoreFlags, StoreFlagsFirst,
                TestReceived, FlagsType, ConfigType, setup, signals
  <2>3. pc' \in MainPoints
    BY <1>1 DEF Restart, MapConfig, ParseConfig, LoadFlags, StoreFlags, StoreFlagsFirst,
                TestReceived, Goto, MainPoints, Handling
  <2> QED
    BY <2>1, <2>2, <2>3 DEF KernelType, LogType, WorkType, LifeType, SignalType, GhostType,
                            kernel, platform, work, fate, life, signals
<1>2. CASE CatchUp
  <2>1. UNCHANGED <<kernel, platform, retries, setup, crashes, finished, acts, start,
                    announced, signals>>
    BY <1>2 DEF CatchUp, CatchUpAfter
  <2>2. /\ excused' \subseteq excused \union Unfinished
        /\ pc' \in {"replay", "read"}
        /\ \/ cur' = last /\ upto' = syslog /\ replayed' = syslog
           \/ UNCHANGED <<cur, upto, replayed>>
    BY <1>2 DEF CatchUp, CatchUpAfter
  <2>3. Unfinished \subseteq 1 .. raised
    BY DEF Unfinished, KernelType
  <2>4. KernelType' /\ LogType' /\ FlagsType' /\ ConfigType' /\ SignalType' /\ LifeType'
    BY <2>1 DEF kernel, platform, setup, signals, KernelType, LogType, FlagsType, ConfigType,
                SignalType, LifeType
  <2>5. WorkType'
    BY <2>1, <2>2 DEF WorkType, kernel, KernelType, LogType, MainPoints
  <2>6. GhostType'
    BY <2>1, <2>2, <2>3 DEF GhostType, kernel, KernelType
  <2> QED
    BY <2>4, <2>5, <2>6
<1>3. CASE Replay
  <2>1. UNCHANGED <<kernel, platform, retries, setup, crashes, finished, life, signals>>
    BY <1>3 DEF Replay, ReplayNext
  <2>2. KernelType' /\ LogType' /\ FlagsType' /\ ConfigType' /\ SignalType' /\ LifeType'
    BY <2>1 DEF kernel, platform, setup, signals, KernelType, LogType, FlagsType, ConfigType,
                SignalType, LifeType
  <2>3. cur' \in 0 .. raised /\ upto' \in 0 .. syslog /\ excused' \subseteq 1 .. raised
    <3>1. CASE cur < upto /\ cur' = cur + 1 /\ UNCHANGED upto
               /\ excused' \subseteq excused \union {cur + 1}
      <4>1. cur + 1 \in 1 .. raised
        BY <3>1 DEF WorkType, KernelType
      <4> QED
        BY <3>1, <4>1 DEF WorkType, GhostType
    <3>2. CASE cur' = 0 /\ upto' = 0 /\ UNCHANGED excused
      BY <3>2 DEF WorkType, KernelType, GhostType
    <3> QED
      BY <1>3, <3>1, <3>2 DEF Replay, ReplayNext
  <2>4. WorkType' /\ GhostType'
    BY <1>3, <2>1, <2>3 DEF Replay, ReplayNext, WorkType, GhostType, kernel, life, MainPoints,
                            Handling
  <2> QED
    BY <2>2, <2>4
<1>4. CASE Read
  <2>1. /\ taken' = taken + 1 /\ taken < raised /\ cur' = taken + 1 /\ retries' = 0
        /\ pc' = "received"
        /\ UNCHANGED <<raised, kind, syslog, platform, crashes, fate, upto, setup, life, signals>>
    BY <1>4 DEF Read, Take, fate
  <2>2. KernelType' /\ WorkType'
    BY <2>1 DEF KernelType, WorkType, MainPoints
  <2> QED
    BY <2>1, <2>2 DEF LogType, FlagsType, ConfigType, SignalType, LifeType, GhostType,
                      KernelType, platform, fate, setup, life, signals
<1>5. CASE ReadGarbled
  <2>1. taken' \in 0 .. raised /\ excused' \subseteq 1 .. raised
    BY <1>5 DEF ReadGarbled, Take, KernelType, GhostType
  <2> QED
    BY <1>5, <2>1, DieType DEF ReadGarbled, Take, LifeType
<1>6. CASE ReadFails
  <2>1. UNCHANGED <<kernel, platform, fate>>
    BY <1>6 DEF ReadFails, ReadFailsTimes
  <2>2. CASE retries + 1 < 3 /\ retries' = retries + 1
             /\ UNCHANGED <<pc, cur, upto, setup, crashes, life, signals>>
    <3>1. WorkType'
      BY <2>1, <2>2 DEF WorkType, kernel
    <3> QED
      BY <2>1, <2>2, <3>1 DEF KernelType, LogType, FlagsType, ConfigType, SignalType, LifeType,
           GhostType, kernel, platform, fate, setup, life, signals
  <2>3. CASE crashes < MaxCrashes /\ crashes' = crashes + 1 /\ Die
    <3>1. crashes' \in 0 .. MaxCrashes /\ taken' \in 0 .. raised /\ excused' \subseteq 1 .. raised
      BY <2>1, <2>3, ConstantsAssumption DEF LifeType, KernelType, GhostType, kernel, fate
    <3> QED
      BY <2>1, <2>3, <3>1, DieType DEF kernel, fate
  <2> QED
    BY <1>6, <2>2, <2>3 DEF ReadFails, ReadFailsTimes
<1>7. CASE PrintEvent \/ Act \/ Report
  <2>1. cur \in 1 .. raised /\ cur \in Numbers
    BY <1>7 DEF PrintEvent, Act, Report, Goto, Handling, Where, Numbers, WorkType
  <2>2. UNCHANGED <<kernel, work, setup, crashes, start, replayed, signals>>
    BY <1>7 DEF PrintEvent, Act, Report, life
  <2>3. pc' \in MainPoints
    BY <1>7 DEF PrintEvent, Act, Report, AfterHandling, Goto, MainPoints, Handling
  <2>4. LogType'
    <3>1. empty' \in {empty, FALSE} /\ last' \in {cur, last}
      BY <1>7 DEF PrintEvent, Act, Report, platform
    <3>2. empty' \in BOOLEAN
      BY <3>1 DEF LogType
    <3>3. last' \in 0 .. raised'
      BY <2>1, <2>2, <3>1 DEF LogType, kernel
    <3> QED
      BY <3>2, <3>3 DEF LogType
  <2>5. finished' \subseteq 1 .. raised /\ excused' \subseteq 1 .. raised /\ announced' \in BOOLEAN
    BY <1>7, <2>1 DEF PrintEvent, Act, Report, Finish, GhostType, fate, life
  <2>6. CASE UNCHANGED acts
    BY <2>2, <2>3, <2>4, <2>5, <2>6 DEF KernelType, WorkType, FlagsType, ConfigType, SignalType,
         LifeType, GhostType, kernel, work, setup, signals
  <2>7. CASE Act
    <3>1. acts' = [acts EXCEPT ![cur] = @ + 1]
      BY <2>7 DEF Act
    <3>2. acts[cur] + 1 \in 0 .. 2
      <4>1. acts[cur] \in 0 .. 2 /\ (~FromSyslog(cur) \/ ~FromKernel(cur))
        BY <2>1, <2>7 DEF Act, GhostType, FromSyslog, FromKernel, NotYet
      <4> QED
        BY <2>1, <4>1 DEF Counted, GhostType
    <3>3. acts' \in [Numbers -> 0 .. 2]
      BY <2>1, <3>1, <3>2 DEF GhostType
    <3> QED
      BY <2>2, <2>3, <2>4, <2>5, <3>3 DEF KernelType, WorkType, FlagsType, ConfigType, SignalType,
           LifeType, GhostType, kernel, work, setup, signals
  <2> QED
    BY <1>7, <2>6, <2>7 DEF PrintEvent, Report, life
<1>8. CASE Crash
  <2>1. crashes' \in 0 .. MaxCrashes /\ taken' \in 0 .. raised /\ UNCHANGED kernel
    BY <1>8, ConstantsAssumption DEF Crash, LifeType, KernelType, kernel
  <2>2. excused' \subseteq 1 .. raised
    BY <1>8 DEF Crash, Handling, Where, Numbers, WorkType, GhostType
  <2> QED
    BY <1>8, <2>1, <2>2, DieType DEF Crash, kernel
<1> QED
  BY <1>1, <1>2, <1>3, <1>4, <1>5, <1>6, <1>7, <1>8 DEF MainStep

LEMMA BeginsAgain ==
  ASSUME GhostType, Die
  PROVE  Where' /\ Counted' /\ Heard'
<1> USE DEF Die, Booting, Handling, InHand
<1>1. Where'
  BY DEF Where
<1>2. Counted'
  BY DEF Counted, Numbers
<1>3. Heard'
  BY DEF Heard, Reading, Reconfigurable, SAFE
<1> QED
  BY <1>1, <1>2, <1>3

LEMMA WhereNext ==
  ASSUME IInv, TypeOK, Where, [Next]_vars
  PROVE  Where'
<1> USE DEF Where, Booting, Handling, InHand
<1>1. CASE Raise \/ Syslogd \/ Edit \/ Hup \/ sighup_handler \/ UNCHANGED vars
  BY <1>1 DEF Raise, Syslogd, Edit, Hup, sighup_handler, vars, kernel, work, life
<1>2. CASE Restart \/ MapConfig \/ ParseConfig \/ LoadFlags \/ StoreFlags \/ TestReceived
  <2>1. UNCHANGED <<taken, cur, upto, start, replayed>>
    BY <1>2 DEF Restart, MapConfig, ParseConfig, LoadFlags, StoreFlags, StoreFlagsFirst,
                TestReceived, kernel, work, life
  <2>2. cur \in 0 .. raised /\ taken \in 0 .. raised /\ start \in 0 .. taken
        /\ raised \in 0 .. MaxRaised /\ upto \in 0 .. syslog /\ syslog \in 0 .. raised
    BY DEF TypeOK, WorkType, KernelType, GhostType
  <2>3. upto > 0 => pc \in Handling \union {"replay"}
    BY DEF IInv, Modes
  <2> QED
    BY <1>2, <2>1, <2>2, <2>3, ConstantsAssumption
       DEF Restart, MapConfig, ParseConfig, LoadFlags, StoreFlags, StoreFlagsFirst,
           TestReceived, Goto, Numbers
<1>3. CASE CatchUp
  BY <1>3 DEF CatchUp, CatchUpAfter, kernel, IInv, Modes, TypeOK, WorkType, KernelType
<1>4. CASE Replay
  <2>1. cur + 1 \in Nat /\ cur + 1 > 0 /\ upto \in 0 .. MaxRaised
    BY ConstantsAssumption DEF TypeOK, WorkType, KernelType
  <2>2. UNCHANGED <<taken, start, replayed>>
    BY <1>4 DEF Replay, ReplayNext, kernel, life
  <2>3. pc = "replay" /\ upto > 0
    BY <1>4 DEF Replay, ReplayNext, IInv, Modes
  <2>4. CASE cur < upto /\ cur' = cur + 1 /\ UNCHANGED upto /\ pc' \in {"replay", "print"}
    <3>1. cur' \in Numbers
      BY <2>1, <2>4, ConstantsAssumption DEF Numbers, TypeOK, WorkType, KernelType
    <3> QED
      BY <2>2, <2>3, <2>4, <3>1
  <2>5. CASE upto' = 0 /\ pc' = "read"
    BY <2>2, <2>5
  <2> QED
    BY <1>4, <2>4, <2>5 DEF Replay, ReplayNext
<1>5. CASE Read
  BY <1>5 DEF Read, Take, life, TypeOK, KernelType, GhostType, IInv, Modes
<1>6. CASE ReadGarbled \/ ReadFails \/ Crash
  <2>1. CASE Die
    BY <2>1, BeginsAgain DEF TypeOK
  <2>2. CASE UNCHANGED <<pc, cur, upto, life, kernel>>
    BY <2>2 DEF life, kernel
  <2> QED
    BY <1>6, <2>1, <2>2 DEF ReadGarbled, ReadFails, ReadFailsTimes, Crash
<1>7. CASE PrintEvent \/ Act \/ Report
  <2>1. UNCHANGED <<taken, cur, upto, start, replayed>>
    BY <1>7 DEF PrintEvent, Act, Report, kernel, work, life
  <2>2. pc \in Handling /\ pc' \in {"act", "report", "replay", "resume"}
    BY <1>7 DEF PrintEvent, Act, Report, Goto, AfterHandling
  <2> QED
    BY <2>1, <2>2
<1> QED
  BY <1>1, <1>2, <1>3, <1>4, <1>5, <1>6, <1>7 DEF Next, MainStep

LEMMA CountedSame ==
  ASSUME Counted, UNCHANGED acts,
         \A n \in Numbers : /\ FromSyslog(n) => FromSyslog(n)'
                            /\ FromKernel(n) => FromKernel(n)'
  PROVE  Counted'
BY DEF Counted

LEMMA CountedNext ==
  ASSUME IInv, TypeOK, Where, Counted, [Next]_vars
  PROVE  Counted'
<1>0. /\ \A n \in Numbers : n \in Nat
      /\ taken \in Nat /\ cur \in Nat /\ upto \in Nat /\ start \in Nat /\ replayed \in Nat
  BY ConstantsAssumption DEF Numbers, TypeOK, KernelType, WorkType, GhostType
<1> USE DEF Booting, NotYet, FromSyslog, FromKernel
<1>1. CASE Raise \/ Syslogd \/ Edit \/ Hup \/ sighup_handler \/ UNCHANGED vars
  <2>1. UNCHANGED <<pc, taken, cur, upto, acts, start, replayed>>
    BY <1>1 DEF Raise, Syslogd, Edit, Hup, sighup_handler, vars, kernel, work, life
  <2> QED
    BY <2>1, CountedSame
<1>2. CASE Restart \/ MapConfig \/ ParseConfig \/ LoadFlags \/ StoreFlags \/ TestReceived
  <2>1. UNCHANGED <<taken, cur, upto, acts, start, replayed>>
    BY <1>2 DEF Restart, MapConfig, ParseConfig, LoadFlags, StoreFlags, StoreFlagsFirst,
                TestReceived, kernel, work, life
  <2>2. /\ pc \notin Booting => pc' \notin Booting
        /\ pc \notin NotYet => pc' \notin NotYet
    BY <1>2 DEF Restart, MapConfig, ParseConfig, LoadFlags, StoreFlags, StoreFlagsFirst,
                TestReceived, Goto
  <2> QED
    BY <2>1, <2>2, CountedSame
<1>3. CASE CatchUp
  <2>1. pc = "catchup" /\ UNCHANGED acts
    BY <1>3 DEF CatchUp, CatchUpAfter
  <2> QED
    BY <2>1, CountedSame
<1>4. CASE Replay
  <2>1. pc = "replay" /\ upto > 0 /\ cur <= upto /\ replayed = upto
    BY <1>4 DEF Replay, ReplayNext, IInv, Modes, Where
  <2>2. UNCHANGED <<taken, acts, start, replayed>>
    BY <1>4 DEF Replay, ReplayNext, kernel, life
  <2>3. pc' \in {"replay", "print", "read"}
    BY <1>4 DEF Replay, ReplayNext
  <2>4. CASE cur' = cur + 1 /\ UNCHANGED upto
    BY <1>0, <2>1, <2>2, <2>3, <2>4, CountedSame
  <2>5. CASE upto' = 0
    BY <1>0, <2>1, <2>2, <2>3, <2>5, CountedSame
  <2> QED
    BY <1>4, <2>4, <2>5 DEF Replay, ReplayNext
<1>5. CASE Read
  <2>1. upto = 0 /\ pc = "read" /\ pc' = "received" /\ taken' = taken + 1 /\ cur' = taken + 1
        /\ UNCHANGED <<upto, acts, start, replayed>>
    BY <1>0, <1>5 DEF Read, Take, life, IInv, Modes, Handling
  <2> QED
    BY <1>0, <2>1, CountedSame
<1>6. CASE ReadGarbled \/ ReadFails \/ Crash
  <2>1. CASE Die
    BY <2>1, BeginsAgain DEF TypeOK
  <2>2. CASE UNCHANGED <<pc, cur, upto, life, kernel>>
    BY <2>2, CountedSame DEF life, kernel
  <2> QED
    BY <1>6, <2>1, <2>2 DEF ReadGarbled, ReadFails, ReadFailsTimes, Crash
<1>7. CASE PrintEvent \/ Report
  <2>1. UNCHANGED <<taken, cur, upto, acts, start, replayed>>
    BY <1>7 DEF PrintEvent, Report, kernel, work, life
  <2>2. \/ pc = "print" /\ pc' = "act"
        \/ pc \in {"print", "report"} /\ pc' \in {"replay", "resume"}
    BY <1>7 DEF PrintEvent, Report, Goto, AfterHandling
  <2> QED
    BY <2>1, <2>2, CountedSame
<1>8. CASE Act
  <2>1. /\ pc = "act" /\ pc' \in {"report", "replay", "resume"}
        /\ acts' = [acts EXCEPT ![cur] = @ + 1]
        /\ UNCHANGED <<taken, cur, upto, start, replayed>>
    BY <1>8 DEF Act, AfterHandling, kernel, work
  <2>2. cur \in Numbers /\ acts \in [Numbers -> 0 .. 2]
    BY <2>1 DEF Where, Handling, TypeOK, GhostType
  <2>3. SUFFICES ASSUME NEW n \in Numbers
                 PROVE  /\ (acts[n] > 0)' => FromSyslog(n)' \/ FromKernel(n)'
                        /\ (acts[n] > 1)' => FromSyslog(n)' /\ FromKernel(n)'
                        /\ (acts[n] <= 2)'
    BY DEF Counted
  <2>4. (FromSyslog(n) => FromSyslog(n)') /\ (FromKernel(n) => FromKernel(n)')
    BY <2>1
  <2>5. /\ acts[n] > 0 => FromSyslog(n) \/ FromKernel(n)
        /\ acts[n] > 1 => FromSyslog(n) /\ FromKernel(n)
        /\ acts[n] <= 2 /\ acts[n] \in 0 .. 2
    BY <2>2 DEF Counted
  <2>6. CASE n # cur
    <3>1. acts'[n] = acts[n]
      BY <2>1, <2>2, <2>6
    <3> HIDE DEF FromSyslog, FromKernel
    <3> QED
      BY <2>4, <2>5, <3>1
  <2>7. CASE n = cur /\ upto > 0
    <3>1. ~FromSyslog(n) /\ ~FromKernel(n) /\ FromSyslog(n)'
      BY <1>0, <2>1, <2>7
    <3>2. acts'[n] = acts[n] + 1
      BY <2>1, <2>2, <2>7
    <3> HIDE DEF FromSyslog, FromKernel
    <3> QED
      BY <2>5, <3>1, <3>2
  <2>8. CASE n = cur /\ ~(upto > 0)
    <3>1. upto = 0 /\ cur = taken /\ taken > start
      BY <1>0, <2>1, <2>8 DEF Where, InHand, Handling
    <3>2. ~FromKernel(n) /\ FromKernel(n)'
      BY <1>0, <2>1, <2>8, <3>1
    <3>3. acts'[n] = acts[n] + 1
      BY <2>1, <2>2, <2>8
    <3> HIDE DEF FromSyslog, FromKernel
    <3> QED
      BY <2>4, <2>5, <3>2, <3>3
  <2> QED
    BY <2>6, <2>7, <2>8
<1> QED
  BY <1>1, <1>2, <1>3, <1>4, <1>5, <1>6, <1>7, <1>8 DEF Next, MainStep

(* A SIGHUP is not forgotten.                                              *)
LEMMA HandlerHeard ==
  ASSUME TypeOK, Heard, sighup_handler
  PROVE  Heard'
<1>1. promised' = configFile /\ configFile \in Nat /\ UNCHANGED <<pc, loaded, mapped>>
  BY ConstantsAssumption DEF sighup_handler, TypeOK, ConfigType
<1>2. (pc \in {"clear", "restore"} /\ SAFE \notin flags) \/ (pc = "reparse" /\ mapped # configFile)
        => raced'
  BY Zenon DEF sighup_handler
<1>3. CASE SAFE \in flags
  <2>1. config' = configFile /\ flags' = flags
    BY <1>3 DEF sighup_handler
  <2>2. (config >= promised)'
    BY <1>1, <2>1
  <2>3. Current'
    BY <2>2 DEF Current
  <2>4. pc = "reparse" => MappedCurrent'
    <3>1. CASE pc = "reparse" /\ mapped # configFile
      <4>1. raced'
        BY <1>2, <3>1
      <4> QED
        BY <4>1 DEF MappedCurrent
    <3>2. CASE mapped = configFile
      <4>1. (mapped >= promised)'
        BY <1>1, <3>2
      <4> QED
        BY <4>1 DEF MappedCurrent
    <3> QED
      BY <3>1, <3>2
  <2> QED
    BY <1>1, <1>3, <2>1, <2>3, <2>4 DEF Heard, Noted, Handling
<1>4. CASE SAFE \notin flags
  <2>1. flags' = flags \union {RECEIVED}
    BY <1>4 DEF sighup_handler
  <2>2. SAFE \notin flags' /\ RECEIVED \in flags' /\ pc \notin Reconfigurable
    BY <1>4, <2>1 DEF SAFE, RECEIVED, Heard
  <2>3. pc \in {"clear", "restore"} => Noted(loaded)'
    <3>1. CASE pc \in {"clear", "restore"}
      <4>1. raced'
        BY <1>2, <1>4, <3>1
      <4> QED
        BY <4>1 DEF Noted, Current
    <3> QED
      BY <3>1
  <2> QED
    BY <1>1, <2>2, <2>3 DEF Heard, Noted, Reconfigurable
<1> QED
  BY <1>3, <1>4

LEMMA HeardNext ==
  ASSUME TypeOK, Heard, [Next]_vars
  PROVE  Heard'
<1> USE DEF Heard, Reading, Reconfigurable, Noted, Current, MappedCurrent, Handling
<1>1. CASE Raise \/ Syslogd \/ Edit \/ Hup \/ UNCHANGED vars
  BY <1>1 DEF Raise, Syslogd, Edit, Hup, vars, setup, signals
<1>2. CASE Restart \/ MapConfig
  BY <1>2 DEF Restart, MapConfig, Goto, setup, signals, TypeOK, ConfigType
<1>3. CASE ParseConfig
  BY <1>3 DEF ParseConfig, Goto, signals
<1>4. CASE LoadFlags \/ TestReceived
  BY <1>4 DEF LoadFlags, TestReceived, Goto, setup, signals
<1>5. CASE StoreFlags
  BY <1>5 DEF StoreFlags, StoreFlagsFirst, Goto, signals, SAFE, RECEIVED
<1>6. CASE CatchUp \/ Replay \/ Read
  <2>1. pc \in {"catchup", "replay", "read"} /\ pc' \in {"replay", "print", "read", "received"}
        /\ UNCHANGED <<flags, loaded, mapped, config, promised, raced>>
    BY <1>6 DEF CatchUp, CatchUpAfter, Replay, ReplayNext, Read, Take, setup, signals
  <2>2. pc = "read" => pc' = "received"
    BY <1>6 DEF CatchUp, CatchUpAfter, Replay, ReplayNext, Read, Take
  <2> QED
    BY <2>1, <2>2
<1>7. CASE ReadGarbled \/ ReadFails \/ Crash
  <2>1. CASE Die
    BY <2>1, BeginsAgain DEF TypeOK
  <2>2. CASE UNCHANGED <<pc, setup, signals>>
    BY <2>2 DEF setup, signals
  <2> QED
    BY <1>7, <2>1, <2>2 DEF ReadGarbled, ReadFails, ReadFailsTimes, Crash
<1>8. CASE PrintEvent \/ Act \/ Report
  BY <1>8 DEF PrintEvent, Act, Report, AfterHandling, Goto, setup, signals
<1>9. CASE sighup_handler
  BY <1>9, HandlerHeard
<1> QED
  BY <1>1, <1>2, <1>3, <1>4, <1>5, <1>6, <1>7, <1>8, <1>9 DEF Next, MainStep

LEMMA LifeNext == LifeInv /\ [Next]_vars => LifeInv'
<1> SUFFICES ASSUME LifeInv, [Next]_vars PROVE LifeInv'
  OBVIOUS
<1> USE DEF LifeInv
<1>1. TypeOK'
  BY EnvironmentType, MainType DEF Next, IInv
<1> QED
  BY <1>1, NextInv, WhereNext, CountedNext, HeardNext

(* In one life the daemon acts on an event once, or once for syslog and    *)
(* once for the kernel, and at rest its configuration is that of the last  *)
(* SIGHUP, races aside, for any events, deaths, edits and signals.         *)
THEOREM LivesInOrder == Spec => []LifeInOrder
<1>1. LifeInv => OncePerLife
  BY DEF LifeInv, Counted, OncePerLife, FromSyslog, FromKernel, TypeOK, GhostType
<1>2. LifeInv => SighupHonouredUnlessRaced
  BY DEF LifeInv, Heard, SighupHonouredUnlessRaced, AtRest, Current
<1>3. LifeInv => LifeInOrder
  BY <1>1, <1>2 DEF LifeInv, LifeInOrder
<1> QED
  BY <1>3, LifeInit, LifeNext, PTL DEF Spec
=============================================================================

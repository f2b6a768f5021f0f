------------------------------ MODULE RtasErrd ------------------------------
(***************************************************************************)
(* The event loop of rtas_errd: RTAS events, the platform log, restarts    *)
(* and reconfiguration.                                                    *)
(*                                                                         *)
(* The kernel numbers the RTAS events, queues each for /proc and prints it *)
(* to syslog.  The daemon reads them from /proc one at a time; it writes   *)
(* an event to the platform log (/var/log/platform) before it acts on it.  *)
(* When it starts it first compares the two logs and handles the events of *)
(* syslog that the platform log does not reach (update_rtas_msgs).         *)
(*                                                                         *)
(* SIGHUP asks for the configuration file to be read again.  The handler   *)
(* does so at once if the daemon is between two events, or else leaves a   *)
(* flag; flags are set and cleared by a load, an operation and a store     *)
(* that the handler may interrupt.                                         *)
(***************************************************************************)
EXTENDS Integers

CONSTANTS
  Kinds,           \* the kinds of event that the kernel raises
  Wide,            \* unsigned long has 64 bits in this build
  MaxRaised,       \* bound: events
  MaxCrashes,      \* bound: deaths of the daemon but for garbled events
  MaxEdits         \* bound: changes of the configuration file

(* What handle_rtas_event tells apart: an EPOW event that turns out normal *)
(* and a PRRN event end after their action, an event without extended data *)
(* has nothing to report; a garbled event cannot be parsed.                *)
EventKinds == {"serviceable", "normal", "prrn", "short", "garbled"}

ASSUME ConstantsAssumption ==
  /\ Kinds \subseteq EventKinds /\ Wide \in BOOLEAN
  /\ MaxRaised \in Nat /\ MaxCrashes \in Nat /\ MaxEdits \in Nat

-----------------------------------------------------------------------------
VARIABLES
  raised,     \* the kernel has raised the events 1 .. raised
  kind,       \* their kinds
  taken,      \* the events 1 .. taken have left the kernel's queue
  syslog,     \* the events 1 .. syslog are in the syslog file
  empty,      \* the platform log is an empty file
  last,       \* the number of the last event in the platform log, or 0
  pc,         \* the main thread, between two of its steps
  cur,        \* the event it handles
  upto,       \* the last event to take from syslog; 0 once that is over
  retries,    \* reads of /proc that have failed in a row
  flags,      \* d_cfg.flags
  loaded,     \* d_cfg.flags as loaded for an update
  mapped,     \* the version of the configuration file that is being parsed
  config,     \* the version of the configuration in d_cfg
  configFile, \* the version of the configuration file
  sighup,     \* SIGHUP is pending
  crashes,    \* deaths so far
  (* Kept for the properties only: *)
  acts,       \* how often this life of the daemon has acted on each event
  start,      \* taken when this life began
  replayed,   \* the syslog events this life has found
  finished,   \* the events handled to the end
  excused,    \* those that were not, for a reason in the design
  announced,  \* this life has announced that it exits
  promised,   \* the configuration file's version when the last SIGHUP came
  raced       \* a SIGHUP has come amid an update of flags or of d_cfg

kernel   == <<raised, kind, taken, syslog>>
platform == <<empty, last>>
work     == <<cur, upto, retries>>
setup    == <<flags, loaded, mapped, config>>
fate     == <<finished, excused>>
life     == <<acts, start, replayed, announced>>
signals  == <<configFile, sighup, promised, raced>>
vars == <<kernel, platform, pc, work, setup, crashes, fate, life, signals>>

Numbers == 1 .. MaxRaised

(* Where the main thread is: dead, reading its configuration, catching     *)
(* up from syslog, reading /proc, updating d_cfg.flags (the value is       *)
(* loaded, not yet stored), or handling an event.                          *)
Handling   == {"print", "act", "report"}
MainPoints == Handling \union
  {"dead", "map", "parse", "catchup", "replay", "read", "received",
   "clear", "resume", "restore", "test", "remap", "reparse", "forget", "unset"}

SAFE     == "safe"      \* RE_CFG_RECFG_SAFE
RECEIVED == "received"  \* RE_CFG_RECEIVED_SIGHUP

Init ==
  /\ raised = 0 /\ kind = [n \in Numbers |-> "none"] /\ taken = 0 /\ syslog = 0
  /\ empty \in BOOLEAN /\ last = 0
  /\ pc = "map" /\ cur = 0 /\ upto = 0 /\ retries = 0
  /\ flags = {} /\ loaded = {} /\ mapped = 0 /\ config = 0 /\ configFile = 0
  /\ sighup = FALSE /\ crashes = 0
  /\ acts = [n \in Numbers |-> 0] /\ start = 0 /\ replayed = 0
  /\ finished = {} /\ excused = {} /\ announced = FALSE
  /\ promised = 0 /\ raced = FALSE

-----------------------------------------------------------------------------
(* The kernel, syslogd and the operator, as the daemon sees them.          *)

Raise ==
  /\ raised < MaxRaised
  /\ raised' = raised + 1
  /\ \E k \in Kinds : kind' = [kind EXCEPT ![raised + 1] = k]
  /\ UNCHANGED <<taken, syslog, platform, pc, work, setup, crashes, fate, life, signals>>

(* The kernel's messages reach the syslog file in order, some time later.  *)
Syslogd ==
  /\ syslog < raised
  /\ syslog' = syslog + 1
  /\ UNCHANGED <<raised, kind, taken, platform, pc, work, setup, crashes, fate, life,
                 signals>>

Edit ==
  /\ configFile < MaxEdits
  /\ configFile' = configFile + 1
  /\ UNCHANGED <<kernel, platform, pc, work, setup, crashes, fate, life, sighup,
                 promised, raced>>

(* SIGHUP is sent for a change that none has been sent for.  Before its    *)
(* handler is installed it ends the daemon (see Crash).                    *)
Hup ==
  /\ pc # "dead" /\ promised < configFile
  /\ sighup' = TRUE
  /\ UNCHANGED <<kernel, platform, pc, work, setup, crashes, fate, life, configFile,
                 promised, raced>>

-----------------------------------------------------------------------------
(* Starting, and reading the configuration.                                *)

Goto(from, to) == pc = from /\ pc' = to

(* The daemon ends: its memory is gone, and a new life begins.             *)
Die ==
  /\ pc' = "dead"
  /\ cur' = 0 /\ upto' = 0 /\ retries' = 0
  /\ flags' = {} /\ loaded' = {} /\ mapped' = 0 /\ config' = 0
  /\ acts' = [n \in Numbers |-> 0] /\ start' = taken' /\ replayed' = 0
  /\ announced' = FALSE /\ sighup' = FALSE /\ raced' = FALSE
  /\ UNCHANGED <<configFile, promised>>

(* systemd starts it again; init_files keeps the platform log, and main    *)
(* installs the signal handlers before it reads the configuration.         *)
Restart ==
  /\ Goto("dead", "map")
  /\ UNCHANGED <<kernel, platform, work, setup, crashes, fate, life, signals>>

(* diag_cfg, in main and after an event: the file is mapped, then parsed.  *)
MapConfig ==
  /\ Goto("map", "parse") \/ Goto("remap", "reparse")
  /\ mapped' = configFile
  /\ UNCHANGED <<kernel, platform, work, flags, loaded, config, crashes, fate, life,
                 signals>>

ParseConfig ==
  /\ Goto("parse", "catchup") \/ Goto("reparse", "forget")
  /\ config' = mapped /\ mapped' = 0
  /\ UNCHANGED <<kernel, platform, work, flags, loaded, crashes, fate, life, signals>>

-----------------------------------------------------------------------------
(* update_rtas_msgs.                                                       *)

(* The consumed events that were never handled to the end.                 *)
Unfinished == (1 .. taken) \ finished

(* There is nothing to catch up with if syslog cannot be read, if the      *)
(* platform log is empty or if its last event is not older than syslog's.  *)
CatchUpAfter(n) ==
  /\ pc = "catchup"
  /\ \/ /\ ~empty /\ last < syslog
        /\ pc' = "replay" /\ cur' = n /\ upto' = syslog /\ replayed' = syslog
        /\ excused' = excused \union {m \in Unfinished : m > syslog}
     \/ /\ ~empty /\ last >= syslog
        /\ pc' = "read"
        /\ excused' = excused \union {m \in Unfinished : m > syslog}
        /\ UNCHANGED <<cur, upto, replayed>>
     \/ /\ pc' = "read"   \* no syslog, or an empty platform log
        /\ excused' = excused \union Unfinished
        /\ UNCHANGED <<cur, upto, replayed>>
  /\ UNCHANGED <<kernel, platform, retries, setup, crashes, finished, acts, start,
                 announced, signals>>

CatchUpLate == CatchUpAfter(last + 1)
CatchUp     == CatchUpAfter(last)

(* The 32-bit words of an event in syslog are stored one to an unsigned    *)
(* long.  If that has 64 bits, what is parsed is some other event.         *)
Mangled == Wide /\ upto > 0
Seen(n) == IF Mangled THEN EventKinds ELSE {kind[n]}

(* The next event of syslog; one that cannot be parsed is passed over.     *)
ReplayNext(n) ==
  /\ pc = "replay"
  /\ \/ /\ cur < upto
        /\ cur' = n
        /\ \/ "garbled" \in Seen(n) /\ pc' = "replay" /\ excused' = excused \union {n}
           \/ Seen(n) # {"garbled"} /\ pc' = "print" /\ UNCHANGED excused
        /\ UNCHANGED upto
     \/ /\ cur >= upto
        /\ pc' = "read" /\ cur' = 0 /\ upto' = 0
        /\ UNCHANGED excused
  /\ UNCHANGED <<kernel, platform, retries, setup, crashes, finished, life, signals>>

Replay     == ReplayNext(cur + 1)

-----------------------------------------------------------------------------
(* read_rtas_events.                                                       *)

(* An event leaves the kernel.                                             *)
Take ==
  /\ pc = "read" /\ taken < raised
  /\ taken' = taken + 1
  /\ UNCHANGED <<raised, kind, syslog, platform, crashes, finished>>

Read ==
  /\ Take /\ kind[taken + 1] # "garbled"
  /\ pc' = "received" /\ cur' = taken + 1 /\ retries' = 0
  /\ UNCHANGED <<upto, setup, excused, life, signals>>

(* The daemon ends if it cannot parse an event.                            *)
ReadGarbled ==
  /\ Take /\ kind[taken + 1] = "garbled"
  /\ excused' = excused \union {taken + 1}
  /\ Die

(* The read fails; the third failure in a row ends the daemon.             *)
ReadFailsTimes(n) ==
  /\ pc = "read"
  /\ UNCHANGED <<kernel, platform, fate>>
  /\ \/ /\ retries + 1 < n /\ retries' = retries + 1
        /\ UNCHANGED <<pc, cur, upto, setup, crashes, life, signals>>
     \/ /\ retries + 1 >= n /\ crashes < MaxCrashes
        /\ crashes' = crashes + 1 /\ Die

ReadFails     == ReadFailsTimes(3)

(* d_cfg.flags is loaded for one of the three updates ...                  *)
LoadFlags ==
  /\ Goto("received", "clear") \/ Goto("resume", "restore") \/ Goto("forget", "unset")
  /\ loaded' = flags
  /\ UNCHANGED <<kernel, platform, work, flags, mapped, config, crashes, fate, life,
                 signals>>

(* ... and stored: not SAFE before an event is handled, SAFE after it, no  *)
(* longer RECEIVED once the file has been read again.                      *)
StoreFlagsFirst(first) ==
  /\ \/ Goto("clear", "print") /\ flags' = first
     \/ Goto("restore", "test") /\ flags' = loaded \union {SAFE}
     \/ Goto("unset", "read") /\ flags' = loaded \ {RECEIVED}
  /\ loaded' = {}
  /\ UNCHANGED <<kernel, platform, work, mapped, config, crashes, fate, life, signals>>

StoreStillSafe == StoreFlagsFirst(loaded)
StoreFlags     == StoreFlagsFirst(loaded \ {SAFE})

TestForgotten ==
  /\ Goto("test", "read")
  /\ UNCHANGED <<kernel, platform, work, setup, crashes, fate, life, signals>>

TestReceived ==
  /\ Goto("test", IF RECEIVED \in flags THEN "remap" ELSE "read")
  /\ UNCHANGED <<kernel, platform, work, setup, crashes, fate, life, signals>>

-----------------------------------------------------------------------------
(* handle_rtas_event.                                                      *)

(* Where its return leads: to the next event of syslog, or back to the     *)
(* loop that reads /proc, which ignores its return code.                   *)
AfterHandling == IF upto > 0 THEN "replay" ELSE "resume"

(* print_rtas_event.  A short write counts as a success; it may even stop  *)
(* short of the event's number.  After a failed one, handle_rtas_event     *)
(* returns at once.                                                        *)
PrintEvent ==
  /\ pc = "print"
  /\ \/ /\ pc' = "act" /\ last' \in {cur, last} /\ empty' = FALSE
        /\ UNCHANGED <<excused, announced>>
     \/ /\ pc' = AfterHandling /\ announced' = TRUE
        /\ excused' = excused \union {cur}
        /\ UNCHANGED platform
  /\ UNCHANGED <<kernel, work, setup, crashes, finished, acts, start, replayed, signals>>

(* Ghost: the event in hand has been handled to the end, as the kernel     *)
(* raised it or as something else.                                         *)
Finish ==
  \/ ~Mangled /\ finished' = finished \union {cur} /\ UNCHANGED excused
  \/ Mangled /\ excused' = excused \union {cur} /\ UNCHANGED finished

(* The handler of the event's type (check_epow, check_eeh, ...).           *)
Act ==
  /\ pc = "act"
  /\ acts' = [acts EXCEPT ![cur] = @ + 1]
  /\ \/ /\ "serviceable" \in Seen(cur)
        /\ pc' = "report" /\ UNCHANGED fate
     \/ /\ Seen(cur) # {"serviceable"}
        /\ pc' = AfterHandling /\ Finish
  /\ UNCHANGED <<kernel, platform, work, setup, crashes, start, replayed,
                 announced, signals>>

(* log_event: the servicelog gets the event.                               *)
Report ==
  /\ Goto("report", AfterHandling)
  /\ Finish
  /\ UNCHANGED <<kernel, platform, work, setup, crashes, life, signals>>

-----------------------------------------------------------------------------
(* The SIGHUP handler, between any two steps of the main thread.           *)

sighup_handler ==
  /\ pc # "dead" /\ sighup
  /\ sighup' = FALSE /\ promised' = configFile
  /\ \/ SAFE \in flags    /\ config' = configFile /\ UNCHANGED flags
     \/ SAFE \notin flags /\ flags' = flags \union {RECEIVED} /\ UNCHANGED config
  /\ raced' = (raced \/ (pc \in {"clear", "restore"} /\ SAFE \notin flags)
                     \/ (pc = "reparse" /\ mapped # configFile))
  /\ UNCHANGED <<kernel, platform, pc, work, loaded, mapped, crashes, fate, life,
                 configFile>>

(* The daemon dies.  An event in the platform log counts as handled from   *)
(* then on, whatever had been done about it.                               *)
Crash ==
  /\ pc # "dead" /\ crashes < MaxCrashes
  /\ crashes' = crashes + 1
  /\ excused' = IF pc \in {"act", "report"} THEN excused \union {cur} ELSE excused
  /\ UNCHANGED <<kernel, platform, finished>>
  /\ Die

-----------------------------------------------------------------------------
MainStep ==
  \/ Restart \/ MapConfig \/ ParseConfig
  \/ CatchUp \/ Replay \/ Read \/ ReadGarbled \/ ReadFails
  \/ LoadFlags \/ StoreFlags \/ TestReceived
  \/ PrintEvent \/ Act \/ Report

Next ==
  \/ Raise \/ Syslogd \/ Edit \/ Hup
  \/ MainStep \/ sighup_handler \/ Crash

(* The daemon runs and is restarted when it ends, and its signals are      *)
(* delivered; nothing makes syslogd or the operator act.                   *)
Fairness == WF_vars(MainStep) /\ WF_vars(sighup_handler)

Spec == Init /\ [][Next]_vars /\ Fairness

-----------------------------------------------------------------------------
(* Properties.                                                             *)

KernelType ==
  /\ raised \in 0 .. MaxRaised /\ kind \in [Numbers -> Kinds \union {"none"}]
  /\ taken \in 0 .. raised /\ syslog \in 0 .. raised
LogType == empty \in BOOLEAN /\ last \in 0 .. raised
WorkType ==
  /\ pc \in MainPoints /\ cur \in 0 .. raised /\ upto \in 0 .. syslog
  /\ retries \in 0 .. 2
FlagsType == flags \subseteq {SAFE, RECEIVED} /\ loaded \subseteq {SAFE, RECEIVED}
ConfigType ==
  /\ configFile \in 0 .. MaxEdits /\ mapped \in 0 .. configFile
  /\ config \in 0 .. configFile /\ promised \in 0 .. configFile
SignalType == sighup \in BOOLEAN /\ raced \in BOOLEAN
LifeType == crashes \in 0 .. MaxCrashes
GhostType ==
  /\ acts \in [Numbers -> 0 .. 2] /\ start \in 0 .. taken /\ replayed \in 0 .. syslog
  /\ finished \subseteq 1 .. raised /\ excused \subseteq 1 .. raised
  /\ announced \in BOOLEAN

(* Every variable has its type: in particular both logs, the event in hand *)
(* and the events done stay within what the kernel has raised.             *)
TypeOK ==
  /\ KernelType /\ LogType /\ WorkType /\ FlagsType /\ ConfigType /\ SignalType
  /\ LifeType /\ GhostType

(* Between two events, every event that has left the kernel has been       *)
(* handled to the end, in this life of the daemon or an earlier one, but   *)
(* for those that the design gives up: a failed write to the platform log, *)
(* a death after the write, garbled data, and at a restart an empty        *)
(* platform log, a syslog without the event, or the words of syslog stored *)
(* in a 64-bit unsigned long (update_rtas_msgs).                           *)
AccountedFor ==
  pc = "read" => \A n \in 1 .. taken : n \in finished \union excused

(* In one life the daemon acts on an event once, and twice only if the     *)
(* kernel still queued an event that syslog already had when it started.   *)
OncePerLife ==
  \A n \in Numbers : acts[n] <= IF n > start /\ n <= replayed THEN 2 ELSE 1

(* The configuration does not change while an event is handled (flag       *)
(* RE_CFG_RECFG_SAFE against the SIGHUP handler).                          *)
ConfigSteady ==
  [][{pc, pc'} \subseteq Handling => config' = config]_vars

(* The daemon waits, able to reconfigure itself, and no SIGHUP is pending. *)
AtRest == pc = "read" /\ SAFE \in flags /\ ~sighup

(* At rest, the daemon's configuration is at least as new as the file was  *)
(* when the last SIGHUP came, unless a SIGHUP that only left its flag came *)
(* amid an update of flags, or a SIGHUP amid the parsing of an older file. *)
SighupHonouredUnlessRaced == AtRest => config >= promised \/ raced

(* What the daemon does in one life is done once and with the right        *)
(* configuration, and every variable keeps its type.                       *)
LifeInOrder == TypeOK /\ OncePerLife /\ SighupHonouredUnlessRaced

(* The same without the exception: what sighup_handler's comment promises. *)
SighupHonoured == AtRest => config >= promised

(* Once the daemon has announced that it exits to preserve the current     *)
(* event, it takes no other event from the kernel (handle_rtas_event).     *)
ExitsToPreserve == [][announced /\ announced' => taken' = taken]_vars

(* Every event of the kernel is handled in the end, across deaths and      *)
(* restarts, or is one of those that the design gives up.                  *)
EventuallyHandled ==
  \A n \in Numbers : raised >= n ~> n \in finished \union excused
=============================================================================

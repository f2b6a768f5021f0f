------------------------------ MODULE OpalErrd ------------------------------
(***************************************************************************)
(* opal_errd: the daemon that saves the OPAL firmware's error logs.        *)
(*                                                                         *)
(* The firmware shows each error log (elog) as a directory in sysfs until  *)
(* it is acknowledged.  The daemon scans that directory again and again:   *)
(* it writes each elog to a file of its own, acknowledges it whether or    *)
(* not that succeeded, and then deletes the oldest files of the types it   *)
(* has met in this round.                                                  *)
(***************************************************************************)
EXTENDS Integers, FiniteSets

CONSTANTS
  Elogs,        \* the elogs, numbered in the order of their names
  Serviceable,  \* those whose action flags ask for service or a call home
  MaxLogs,      \* option -n
  MaxSrvc,      \* option -c, or 0 if it is not given
  OldFiles,     \* the elogs that an old version left in files without a type
  MaxTime,      \* bound: seconds
  MaxFaults,    \* bound: failures of a system call
  MaxCrashes    \* bound: deaths of the daemon

Types == {"srvc", "info"}
Type(e) == IF e \in Serviceable THEN "srvc" ELSE "info"

ASSUME ConstantsAssumption ==
  /\ Elogs \subseteq Nat /\ Serviceable \subseteq Elogs /\ OldFiles \subseteq Elogs
  /\ IsFiniteSet(OldFiles)
  /\ MaxLogs \in Nat \ {0} /\ MaxSrvc \in Nat
  /\ MaxTime \in Nat \ {0} /\ MaxFaults \in Nat /\ MaxCrashes \in Nat

(* How many files of a type rotate_logs keeps.  Without -c, a fifth of -n  *)
(* is for serviceable elogs, rounded down, and four fifths for the others. *)
Limit(t) ==
  IF MaxSrvc # 0 THEN IF t = "srvc" THEN MaxSrvc ELSE MaxLogs
  ELSE IF t = "srvc" THEN MaxLogs \div 5 ELSE (4 * MaxLogs) \div 5

-----------------------------------------------------------------------------
VARIABLES
  held,     \* the elogs in sysfs: the firmware awaits their acknowledgement
  dir,      \* the files of the output directory
  clock,    \* the time in seconds
  pc,       \* the daemon, between two of its steps
  todo,     \* the elogs found by the scan and not yet processed
  cur,      \* the elog that is being processed
  rotate,   \* rotate_srvc_logs and rotate_info_logs
  faults, crashes,  \* counted for the bounds
  (* Kept for the properties only: *)
  raised,   \* the elogs that the firmware has ever shown
  saved,    \* the elogs ever saved whole
  failed,   \* the elogs that the daemon has failed to save
  rotated,  \* the elogs of which rotation has deleted a file
  unacked,  \* how often the acknowledgement of each elog has failed
  stuck     \* the types of which a file could not be deleted in this round

daemon == <<pc, todo, cur, rotate>>
bounds == <<faults, crashes>>
fate   == <<saved, failed, rotated, unacked, stuck>>
vars   == <<held, dir, clock, daemon, bounds, raised, fate>>

(* A file is named for the time, the elog and its type; files of an old    *)
(* version lack the type.  It is whole unless a write failed.              *)
Files == [time : 0 .. MaxTime, id : Elogs, typed : BOOLEAN, whole : BOOLEAN]

Points == {"down", "rename", "scan", "next", "save", "ack", "rotate", "dump", "poll"}

Nothing == 0 - 1   \* the value of cur when no elog is in hand

Init ==
  /\ held = {} /\ raised = {}
  /\ dir = {[time |-> 0, id |-> e, typed |-> FALSE, whole |-> TRUE] : e \in OldFiles}
  /\ clock = 1
  /\ pc = "rename" /\ todo = {} /\ cur = Nothing /\ rotate = {}
  /\ faults = 0 /\ crashes = 0
  /\ saved = {} /\ failed = {} /\ rotated = {} /\ stuck = {}
  /\ unacked = [e \in Elogs |-> 0]

-----------------------------------------------------------------------------
(* The firmware and the time.                                              *)

Raise(e) ==
  /\ e \notin raised
  /\ held' = held \union {e} /\ raised' = raised \union {e}
  /\ UNCHANGED <<dir, clock, daemon, bounds, fate>>

Tick ==
  /\ clock < MaxTime
  /\ clock' = clock + 1
  /\ UNCHANGED <<held, dir, daemon, bounds, raised, fate>>

-----------------------------------------------------------------------------
(* The daemon.                                                             *)

Goto(from, to) == pc = from /\ pc' = to

(* rename_old_logs gives old files their type, unless their data cannot be *)
(* read or the renaming fails.                                             *)
RenameOldLogs ==
  /\ Goto("rename", "scan")
  /\ \E renamed \in SUBSET {f \in dir : ~f.typed} :
       dir' = (dir \ renamed) \union {[f EXCEPT !.typed = TRUE] : f \in renamed}
  /\ UNCHANGED <<held, clock, todo, cur, rotate, bounds, raised, fate>>

(* find_and_read_elog_events: the scan takes a list of what sysfs shows.   *)
Scan ==
  /\ Goto("scan", "next")
  /\ todo' = held /\ rotate' = {} /\ stuck' = {}
  /\ UNCHANGED <<held, dir, clock, cur, bounds, raised, saved, failed, rotated, unacked>>

(* The elogs of the list are processed in the order of their names.        *)
PickElogAnd(step) ==
  /\ pc = "next"
  /\ \/ /\ todo = {}
        /\ pc' = "rotate" /\ UNCHANGED <<todo, cur, held>>
     \/ \E e \in todo :
          /\ \A other \in todo : e <= other
          /\ pc' = "save" /\ cur' = e /\ todo' = todo \ {e}
          /\ step
  /\ UNCHANGED <<dir, clock, rotate, bounds, raised, fate>>

PickElogAckFirst == PickElogAnd(held' = held \ {cur'})
PickElog         == PickElogAnd(UNCHANGED held)

(* The file that process_elog opens: without O_TRUNC, so that a file of    *)
(* the same second and elog stays whole if only a part is written again.   *)
FileOf(e) == [time |-> clock, id |-> e, typed |-> TRUE, whole |-> TRUE]
Truncated(f) == [f EXCEPT !.whole = FALSE]

(* A failing fsync, here or of the directory, changes nothing but a return *)
(* code that the caller does not use.                                      *)
SaveElog ==
  /\ Goto("save", "ack")
  /\ rotate' = rotate \union {Type(cur)}
  /\ dir' = (dir \ {Truncated(FileOf(cur))}) \union {FileOf(cur)}
  /\ saved' = saved \union {cur}
  /\ UNCHANGED <<held, clock, todo, cur, bounds, raised, failed, rotated, unacked, stuck>>

(* process_elog fails: before it has parsed the elog, or when it creates   *)
(* the file, or when it has written a part of it.                          *)
SaveFails ==
  /\ Goto("save", "ack") /\ faults < MaxFaults
  /\ faults' = faults + 1
  /\ \/ UNCHANGED <<rotate, dir>>
     \/ rotate' = rotate \union {Type(cur)} /\ UNCHANGED dir
     \/ /\ rotate' = rotate \union {Type(cur)}
        /\ dir' = IF FileOf(cur) \in dir THEN dir ELSE dir \union {Truncated(FileOf(cur))}
  /\ failed' = failed \union {cur}
  /\ UNCHANGED <<held, clock, todo, cur, crashes, raised, saved, rotated, unacked, stuck>>

(* ack_elog, whatever process_elog returned.                               *)
AckNever ==
  /\ Goto("ack", "next")
  /\ cur' = Nothing
  /\ UNCHANGED <<held, dir, clock, todo, rotate, bounds, raised, fate>>

AckElog ==
  /\ Goto("ack", "next")
  /\ held' = held \ {cur} /\ cur' = Nothing
  /\ UNCHANGED <<dir, clock, todo, rotate, bounds, raised, fate>>

AckFails ==
  /\ Goto("ack", "next") /\ faults < MaxFaults
  /\ faults' = faults + 1 /\ cur' = Nothing
  /\ unacked' = [unacked EXCEPT ![cur] = @ + 1]
  /\ UNCHANGED <<held, dir, clock, todo, rotate, crashes, raised, saved, failed,
                 rotated, stuck>>

(* scandir's order, the oldest first.                                      *)
Older(f, g) == f.time < g.time \/ (f.time = g.time /\ f.id < g.id)

OfType(t, files) == {f \in files : f.typed /\ Type(f.id) = t}
Count(t)         == Cardinality(OfType(t, dir))
Index(f)         == Cardinality({g \in OfType(Type(f.id), dir) : Older(g, f)})
ExcessNewest(t)  == {f \in OfType(t, dir) : Index(f) >= Limit(t)}
Excess(t)        == {f \in OfType(t, dir) : Index(f) < Count(t) - Limit(t)}

(* rotate_logs for the types met in this round; a file that cannot be      *)
(* deleted is passed over.                                                 *)
RotateLogs ==
  /\ Goto("rotate", "dump")
  /\ LET excess == UNION {Excess(t) : t \in rotate} IN
     \E gone \in SUBSET excess :
       /\ \/ gone = excess /\ UNCHANGED faults
          \/ gone # excess /\ faults < MaxFaults /\ faults' = faults + 1
       /\ dir' = dir \ gone
       /\ rotated' = rotated \union {f.id : f \in gone}
       /\ stuck' = {Type(f.id) : f \in excess \ gone}
  /\ UNCHANGED <<held, clock, todo, cur, rotate, crashes, raised, saved, failed, unacked>>

(* check_platform_dump runs extract_opal_dump and waits for it.            *)
CheckPlatformDump ==
  /\ Goto("dump", "poll")
  /\ UNCHANGED <<held, dir, clock, todo, cur, rotate, bounds, raised, fate>>

(* poll returns after a second at the latest.                              *)
Poll ==
  /\ Goto("poll", "scan")
  /\ UNCHANGED <<held, dir, clock, todo, cur, rotate, bounds, raised, fate>>

(* The daemon dies, or ends after a SIGTERM; systemd starts it again.      *)
Crash ==
  /\ pc # "down" /\ crashes < MaxCrashes
  /\ pc' = "down" /\ crashes' = crashes + 1
  /\ todo' = {} /\ cur' = Nothing /\ rotate' = {} /\ stuck' = {}
  /\ UNCHANGED <<held, dir, clock, faults, raised, saved, failed, rotated, unacked>>

Restart ==
  /\ Goto("down", "rename")
  /\ UNCHANGED <<held, dir, clock, todo, cur, rotate, bounds, raised, fate>>

-----------------------------------------------------------------------------
Daemon == RenameOldLogs \/ Scan \/ PickElog \/ SaveElog \/ SaveFails
            \/ AckElog \/ AckFails \/ RotateLogs \/ CheckPlatformDump \/ Poll
            \/ Restart

Next == (\E e \in Elogs : Raise(e)) \/ Tick \/ Crash \/ Daemon

(* The daemon runs, and is restarted when it ends.                         *)
Spec == Init /\ [][Next]_vars /\ WF_vars(Daemon)

-----------------------------------------------------------------------------
(* Properties.                                                             *)

DaemonType ==
  /\ pc \in Points /\ todo \subseteq Elogs /\ cur \in Elogs \union {Nothing}
  /\ rotate \subseteq Types
FilesType == dir \subseteq Files /\ clock \in 1 .. MaxTime
FateType ==
  /\ held \subseteq Elogs /\ raised \subseteq Elogs
  /\ saved \subseteq Elogs /\ failed \subseteq Elogs /\ rotated \subseteq Elogs
BoundsType ==
  /\ faults \in 0 .. MaxFaults /\ crashes \in 0 .. MaxCrashes
  /\ unacked \in [Elogs -> 0 .. MaxFaults] /\ stuck \subseteq Types

(* Every variable has its type.                                            *)
TypeOK == DaemonType /\ FilesType /\ FateType /\ BoundsType

(* The elogs with a whole file.                                            *)
OnDisk == {f.id : f \in {g \in dir : g.whole}}

(* No elog is lost: every elog the firmware has shown is still held by it, *)
(* or has a whole file, or had one deleted by rotation, or could not be    *)
(* saved when it was processed -- wherever the daemon dies in between.     *)
NoElogLost ==
  \A e \in raised : e \in held \union OnDisk \union rotated \union failed

(* Rotation deletes a file only if as many newer ones of its own type      *)
(* remain as -n and -c allow: informational elogs never displace a         *)
(* serviceable one, nor old elogs a new one (rotate_logs).                 *)
SameName(f, g) == f.time = g.time /\ f.id = g.id /\ f.typed = g.typed
KeepsNewest ==
  [][\A f \in dir :
       \/ ~f.typed
       \/ \E g \in dir' : SameName(f, g)
       \/ Cardinality({g \in OfType(Type(f.id), dir') : Older(f, g)})
            >= Limit(Type(f.id))]_vars

(* At the end of a round each type met in it is within its limit, unless a *)
(* file could not be deleted.                                              *)
WithinLimits ==
  pc \in {"dump", "poll"} => \A t \in rotate \ stuck : Count(t) <= Limit(t)

(* An elog has more than one file only after its acknowledgement failed or *)
(* the daemon died, or if an old version left one.                         *)
DuplicatesExplained ==
  \A e \in Elogs :
    Cardinality({f \in dir : f.id = e})
      <= 1 + unacked[e] + crashes + (IF e \in OldFiles THEN 1 ELSE 0)

(* The log directory is in order: types, limits and their order, and no    *)
(* more copies of an elog than failures explain, after any failures.       *)
DirectoryInOrder == [](TypeOK /\ WithinLimits /\ DuplicatesExplained) /\ KeepsNewest

(* The firmware gets every acknowledgement in the end.                     *)
EventuallyAcknowledged == \A e \in Elogs : e \in held ~> e \notin held

(* The daemon implements Custody.                                          *)
C == INSTANCE Custody WITH Records <- Elogs, firmware <- held, disk <- OnDisk,
                           stored <- saved, failed <- failed
ImplementsCustody == C!Spec
=============================================================================

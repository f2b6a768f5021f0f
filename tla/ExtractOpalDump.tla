--------------------------- MODULE ExtractOpalDump ---------------------------
(***************************************************************************)
(* extract_opal_dump: the tool that saves the OPAL firmware's dumps.       *)
(*                                                                         *)
(* The firmware shows each dump as a directory in sysfs until it is        *)
(* acknowledged.  opal_errd runs the tool once a round.  For each dump it  *)
(* makes room, writes a file with the suffix .tmp, syncs it, renames it    *)
(* and syncs the directory; then it acknowledges the dump, whether or not  *)
(* all that succeeded.  It may die at any point, alone or with the power.  *)
(***************************************************************************)
EXTENDS Integers, FiniteSets

CONSTANTS
  Dumps,       \* the dumps, numbered in the order of their names in sysfs
  Name,        \* the file name that the header of each dump suggests
  Type,        \* the first seven characters of it
  MaxDump,     \* option -m
  Acknowledge, \* FALSE if option -A is given
  MaxTime,     \* bound: seconds
  MaxFaults,   \* bound: failures of a system call
  MaxCrashes   \* bound: deaths of the tool and losses of power

ASSUME ConstantsAssumption ==
  /\ Dumps \subseteq Nat
  /\ \A d, e \in Dumps : Name[d] = Name[e] => Type[d] = Type[e]
  /\ MaxDump \in Nat \ {0} /\ Acknowledge \in BOOLEAN
  /\ MaxTime \in Nat \ {0} /\ MaxFaults \in Nat /\ MaxCrashes \in Nat

-----------------------------------------------------------------------------
VARIABLES
  held,     \* the dumps in sysfs: the firmware awaits their acknowledgement
  dir,      \* the files of the output directory
  clock,    \* the time in seconds
  pc,       \* the tool, between two of its steps
  todo,     \* the dumps found by the scan and not yet processed
  cur,      \* the dump that is being processed
  doomed,   \* the files that are to make room for it
  faults, crashes,  \* counted for the bounds
  (* Kept for the properties only: *)
  raised,   \* the dumps that the firmware has ever shown
  saved,    \* the dumps ever saved
  failed,   \* the dumps that could not be saved, at least once
  evicted,  \* the dumps of which a file has been removed or replaced
  stuck     \* the tool could not make room for the dump in hand

tool   == <<pc, todo, cur, doomed>>
bounds == <<faults, crashes>>
fate   == <<raised, saved, failed, evicted, stuck>>
vars   == <<held, dir, clock, tool, bounds, fate>>

(* A file has the suffix .tmp until it is renamed, and its new name is     *)
(* durable once the directory has been synced.  Its data is incomplete,    *)
(* written or synced as well.                                              *)
Names == {"temporary", "renamed", "durable"}
Data  == {"partial", "written", "synced"}
Files == [dump : Dumps, name : Names, data : Data, time : 0 .. MaxTime]

Points  == {"idle", "next", "read", "duplicate", "list", "unlink", "open", "write",
            "sync", "rename", "syncdir", "ack"}
Nothing == 0 - 1   \* the value of cur when no dump is in hand

Init ==
  /\ held = {} /\ dir = {} /\ clock = 0
  /\ pc = "idle" /\ todo = {} /\ cur = Nothing /\ doomed = {}
  /\ faults = 0 /\ crashes = 0
  /\ raised = {} /\ saved = {} /\ failed = {} /\ evicted = {} /\ stuck = FALSE

-----------------------------------------------------------------------------
(* The firmware and the time.                                              *)

Raise(d) ==
  /\ d \notin raised
  /\ held' = held \union {d} /\ raised' = raised \union {d}
  /\ UNCHANGED <<dir, clock, tool, bounds, saved, failed, evicted, stuck>>

Tick ==
  /\ clock < MaxTime
  /\ clock' = clock + 1
  /\ UNCHANGED <<held, dir, tool, bounds, fate>>

-----------------------------------------------------------------------------
(* find_and_process_dumps.                                                 *)

Goto(from, to) == pc = from /\ pc' = to

(* A system call fails.                                                    *)
Fault == faults < MaxFaults /\ faults' = faults + 1

(* process_dump returns -1, for the caller to acknowledge the dump.        *)
GiveUp ==
  /\ pc' = "ack" /\ failed' = failed \union {cur}
  /\ UNCHANGED <<held, clock, todo, cur, crashes, raised, saved, evicted, stuck>>

Scan ==
  /\ Goto("idle", "next")
  /\ todo' = held
  /\ UNCHANGED <<held, dir, clock, cur, doomed, bounds, fate>>

PickDumpAnd(step) ==
  /\ pc = "next"
  /\ \/ /\ todo = {}
        /\ pc' = "idle" /\ UNCHANGED <<held, todo, cur>>
     \/ \E d \in todo :
          /\ \A other \in todo : d <= other
          /\ pc' = "read" /\ cur' = d /\ todo' = todo \ {d}
          /\ step
  /\ UNCHANGED <<dir, clock, doomed, bounds, fate>>

PickDumpAckFirst == PickDumpAnd(held' = held \ {cur'})
PickDump         == PickDumpAnd(UNCHANGED held)

(* The dump is read into memory whole.                                     *)
ReadDump ==
  \/ /\ Goto("read", "duplicate")
     /\ UNCHANGED <<held, dir, clock, todo, cur, doomed, bounds, fate>>
  \/ /\ pc = "read" /\ Fault /\ GiveUp
     /\ UNCHANGED <<dir, doomed>>

-----------------------------------------------------------------------------
(* remove_dump_files.                                                      *)

Final(f)    == f.name # "temporary"
SameName(f) == Name[f.dump] = Name[cur]
Replaced    == {f \in dir : Final(f) /\ SameName(f)}
OfType      == {f \in dir : Type[f.dump] = Type[cur]}

Evict(files) ==
  dir' = dir \ files /\ evicted' = evicted \union {f.dump : f \in files}

(* check_dup_dump_file: a file with the name of the new one goes first.    *)
RemoveDuplicate ==
  /\ Goto("duplicate", "list")
  /\ \/ Evict(Replaced) /\ UNCHANGED faults
     \/ Fault /\ UNCHANGED <<dir, evicted>>
  /\ UNCHANGED <<held, clock, todo, cur, doomed, crashes, raised, saved, failed, stuck>>

(* The files of the type are listed, the newest first and those of the     *)
(* same second in any order; all but the first MaxDump - 1 are to go.  A   *)
(* temporary file that a dead process has left is listed like any other.   *)
ListKeeping(n) ==
  /\ Goto("list", "unlink")
  /\ \/ \E keep \in SUBSET OfType :
          /\ IF Cardinality(OfType) <= n THEN keep = OfType
             ELSE Cardinality(keep) = n
          /\ \A f \in keep, g \in OfType \ keep : f.time >= g.time
          /\ doomed' = OfType \ keep
          /\ stuck' = FALSE /\ UNCHANGED faults
     \/ Fault /\ stuck' = TRUE /\ UNCHANGED doomed
  /\ UNCHANGED <<held, dir, clock, todo, cur, crashes, raised, saved, failed, evicted>>

ListOldest ==
  /\ Goto("list", "unlink")
  /\ \E keep \in SUBSET OfType :
       /\ Cardinality(keep) < MaxDump
       /\ \A f \in keep, g \in OfType \ keep : f.time <= g.time
       /\ doomed' = OfType \ keep
  /\ stuck' = FALSE
  /\ UNCHANGED <<held, dir, clock, todo, cur, bounds, raised, saved, failed, evicted>>
ListOld     == ListKeeping(MaxDump - 1)

(* They are unlinked in that order; a failure is passed over.              *)
UnlinkOld ==
  /\ pc = "unlink"
  /\ \/ /\ doomed = {}
        /\ pc' = "open" /\ UNCHANGED <<dir, doomed, faults, evicted, stuck>>
     \/ \E f \in doomed :
          /\ \A g \in doomed : f.time >= g.time
          /\ doomed' = doomed \ {f}
          /\ \/ Evict({f}) /\ UNCHANGED <<faults, stuck>>
             \/ Fault /\ stuck' = TRUE /\ UNCHANGED <<dir, evicted>>
          /\ UNCHANGED pc
  /\ UNCHANGED <<held, clock, todo, cur, crashes, raised, saved, failed>>

-----------------------------------------------------------------------------
(* The rest of process_dump.                                               *)

(* The temporary file of the name that is being written.                   *)
Mine == {f \in dir : SameName(f) /\ ~Final(f)}

(* O_EXCL: a temporary file that is left from before makes this fail.      *)
OpenTemporary ==
  /\ pc = "open"
  /\ \/ /\ Mine = {}
        /\ pc' = "write"
        /\ dir' = dir \union {[dump |-> cur, name |-> "temporary", data |-> "partial",
                               time |-> clock]}
        /\ UNCHANGED <<held, clock, todo, cur, bounds, fate>>
     \/ /\ Mine # {} /\ GiveUp
        /\ UNCHANGED <<dir, faults>>
     \/ /\ Fault /\ GiveUp
        /\ UNCHANGED dir
  /\ UNCHANGED doomed

(* After a short write the file is unlinked, unless that fails as well.    *)
WriteDump ==
  /\ pc = "write"
  /\ \/ /\ pc' = "sync"
        /\ dir' = (dir \ Mine)
             \union {[f EXCEPT !.data = "written", !.time = clock] : f \in Mine}
        /\ UNCHANGED <<held, clock, todo, cur, bounds, fate>>
     \/ /\ Fault /\ GiveUp
        /\ dir' \in {dir, dir \ Mine}
  /\ UNCHANGED doomed

SyncForgotten ==
  /\ Goto("sync", "rename")
  /\ UNCHANGED <<held, dir, clock, todo, cur, doomed, bounds, fate>>

(* A temporary file that cannot be synced, or renamed, stays.              *)
SyncDump ==
  /\ pc = "sync"
  /\ \/ /\ pc' = "rename"
        /\ dir' = (dir \ Mine) \union {[f EXCEPT !.data = "synced"] : f \in Mine}
        /\ UNCHANGED <<held, clock, todo, cur, bounds, fate>>
     \/ /\ Fault /\ GiveUp
        /\ UNCHANGED dir
  /\ UNCHANGED doomed


(* A file that the renaming replaces is gone.                              *)
RenameDump ==
  /\ pc = "rename"
  /\ \/ /\ pc' = "syncdir"
        /\ dir' = (dir \ (Replaced \union Mine))
             \union {[f EXCEPT !.name = "renamed"] : f \in Mine}
        /\ evicted' = evicted \union {f.dump : f \in Replaced}
        /\ saved' = saved \union {cur}
        /\ UNCHANGED <<held, clock, todo, cur, bounds, raised, failed, stuck>>
     \/ /\ Fault /\ GiveUp
        /\ UNCHANGED dir
  /\ UNCHANGED doomed

SyncDirectoryForgotten ==
  /\ Goto("syncdir", "ack")
  /\ UNCHANGED <<held, dir, clock, todo, cur, doomed, bounds, fate>>

(* The directory is synced, which makes every renaming in it durable.  A   *)
(* failing fsync is only logged.                                           *)
SyncDirectory ==
  /\ Goto("syncdir", "ack")
  /\ \/ /\ dir' = {IF Final(f) THEN [f EXCEPT !.name = "durable"] ELSE f : f \in dir}
        /\ UNCHANGED <<held, clock, todo, cur, bounds, fate>>
     \/ /\ Fault /\ GiveUp
        /\ UNCHANGED dir
  /\ UNCHANGED doomed

(* ack_dump, whatever process_dump returned, if the tool is to acknowledge *)
(* dumps at all.                                                           *)

AckNever ==
  /\ Goto("ack", "next")
  /\ cur' = Nothing
  /\ UNCHANGED <<held, dir, clock, todo, doomed, bounds, fate>>

AckDump ==
  /\ Goto("ack", "next")
  /\ cur' = Nothing
  /\ \/ Acknowledge /\ held' = held \ {cur} /\ UNCHANGED faults
     \/ Acknowledge /\ Fault /\ UNCHANGED held
     \/ ~Acknowledge /\ UNCHANGED <<held, faults>>
  /\ UNCHANGED <<dir, clock, todo, doomed, crashes, fate>>

-----------------------------------------------------------------------------
Dies ==
  /\ crashes < MaxCrashes /\ crashes' = crashes + 1
  /\ pc' = "idle" /\ todo' = {} /\ cur' = Nothing /\ doomed' = {} /\ stuck' = FALSE
  /\ UNCHANGED <<held, clock, faults, raised, saved, failed, evicted>>

(* The tool is killed.                                                     *)
Crash == pc # "idle" /\ Dies /\ UNCHANGED dir

(* Power is lost: what was not synced may be incomplete, and a renaming    *)
(* that is not durable undone, unless its temporary name is in use again.  *)
Degraded(f) ==
  IF f.name = "renamed" /\ \A g \in dir : Name[g.dump] = Name[f.dump] => Final(g)
  THEN [f EXCEPT !.name = "temporary",
                 !.data = IF f.data = "synced" THEN "synced" ELSE "partial"]
  ELSE [f EXCEPT !.data = IF f.data = "synced" THEN "synced" ELSE "partial"]

PowerLoss ==
  /\ Dies
  /\ \E lost \in SUBSET dir :
       dir' = (dir \ lost) \union {Degraded(f) : f \in lost}

-----------------------------------------------------------------------------
Tool == Scan \/ PickDump \/ ReadDump \/ RemoveDuplicate \/ ListOld \/ UnlinkOld
          \/ OpenTemporary \/ WriteDump \/ SyncDump \/ RenameDump \/ SyncDirectory
          \/ AckDump

Next == (\E d \in Dumps : Raise(d)) \/ Tick \/ Tool \/ Crash \/ PowerLoss

(* opal_errd runs the tool again and again, and waits for it.              *)
Spec == Init /\ [][Next]_vars /\ WF_vars(Tool)

-----------------------------------------------------------------------------
(* Properties.                                                             *)

ToolType ==
  /\ pc \in Points /\ todo \subseteq Dumps /\ cur \in Dumps \union {Nothing}
  /\ doomed \subseteq Files
  /\ cur = Nothing <=> pc \in {"idle", "next"}
FilesType == dir \subseteq Files /\ clock \in 0 .. MaxTime
FateType ==
  /\ held \subseteq raised /\ raised \subseteq Dumps /\ saved \subseteq Dumps
  /\ failed \subseteq Dumps /\ evicted \subseteq Dumps /\ stuck \in BOOLEAN
BoundsType == faults \in 0 .. MaxFaults /\ crashes \in 0 .. MaxCrashes

(* Every variable has its type, and a dump is in hand from its choice to   *)
(* its acknowledgement.                                                    *)
TypeOK == ToolType /\ FilesType /\ FateType /\ BoundsType

(* The dumps with a whole file under its final name.                       *)
OnDisk == {f.dump : f \in {g \in dir : Final(g) /\ g.data # "partial"}}

(* No dump is lost: every dump that the firmware has shown is still held   *)
(* by it, or is on disk, or has made room for a newer one, or could not be *)
(* saved when it was processed -- wherever the tool dies or power is lost. *)
NoDumpLost ==
  \A d \in raised : d \in held \union OnDisk \union evicted \union failed

(* A file without the suffix .tmp is whole, even after a loss of power     *)
(* (process_dump syncs before it renames).                                 *)
WholeOnceNamed == \A f \in dir : Final(f) => f.data # "partial"

(* A dump is given up only after a system call failed or the tool died:    *)
(* what an undisturbed run leaves never makes a later one fail.            *)
GivesUpOnlyIfDisturbed == failed # {} => faults > 0 \/ crashes > 0

(* Once a dump is saved, no more than MaxDump files of its type are there, *)
(* unless one could not be removed (option -m).                            *)
WithinMaximum == pc = "syncdir" => stuck \/ Cardinality(OfType) <= MaxDump

(* A file is removed to make room only if MaxDump - 1 others of its type   *)
(* that are at least as new stay (remove_dump_files).                      *)
KeepsNewest ==
  [][{pc, pc'} = {"unlink"} =>
       \A f \in dir \ dir' :
         Cardinality({g \in OfType \cap dir' : g.time >= f.time}) >= MaxDump - 1]_vars

(* The dump directory is in order: room is made for a new dump at the cost *)
(* of the oldest only, and nothing that is left there makes a later run    *)
(* fail.                                                                   *)
DirectoryInOrder == [](TypeOK /\ WithinMaximum /\ GivesUpOnlyIfDisturbed) /\ KeepsNewest

(* The firmware gets every acknowledgement in the end.                     *)
EventuallyAcknowledged == \A d \in Dumps : Acknowledge /\ d \in held ~> d \notin held

(* The tool implements Custody.                                            *)
C == INSTANCE Custody WITH Records <- Dumps, firmware <- held, disk <- OnDisk,
                           stored <- saved, failed <- failed
ImplementsCustody == C!Spec
=============================================================================

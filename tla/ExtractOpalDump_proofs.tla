----------------------- MODULE ExtractOpalDump_proofs -----------------------
(***************************************************************************)
(* Proofs about ExtractOpalDump: no dump is lost, files are whole once     *)
(* they have their name, the tool implements Custody, and its directory is *)
(* in order.                                                               *)
(***************************************************************************)
EXTENDS ExtractOpalDump, FiniteSetTheorems, FunctionTheorems, TLAPS

AnyFile == [dump : Dumps, name : Names, data : Data, time : Nat]

(* The part of the type invariant that the proofs need.                    *)
Typed ==
  /\ pc \in Points /\ raised \subseteq Dumps
  /\ held \subseteq raised /\ todo \subseteq held
  /\ saved \subseteq raised /\ failed \subseteq raised
  /\ dir \subseteq AnyFile /\ clock \in Nat

(* The dump in hand is held by the firmware and off the list.              *)
InHand == pc \notin {"idle", "next"} => cur \in held \ todo

(* How far the dump in hand has got: the temporary file is its own; before *)
(* it is acknowledged its file is there to stay, or saving it has failed.  *)
Temporary == Mine # {} /\ \A f \in Mine : f.dump = cur
Durable   == {f.dump : f \in {g \in dir : g.name = "durable"}}
Progress ==
  /\ pc \in {"write", "sync", "rename"} => Temporary
  /\ pc = "rename" => \A f \in Mine : f.data = "synced"
  /\ pc = "syncdir" => (\E f \in dir : Final(f) /\ f.dump = cur) /\ cur \in saved
  /\ pc = "ack" => cur \in (saved \cap Durable) \union failed

(* What has a final name is synced.                                        *)
Synced == \A f \in dir : Final(f) => f.data = "synced"

(* What the firmware no longer holds is there to stay, or was evicted, or  *)
(* could not be saved.                                                     *)
Settled == raised \subseteq held \union Durable \union evicted \union failed

IInv == Typed /\ InHand /\ Progress /\ Synced /\ Settled

-----------------------------------------------------------------------------
LEMMA InitInv == Init => IInv
BY DEF Init, IInv, Typed, InHand, Progress, Synced, Settled, Points

(* The steps that leave the output directory alone.                        *)
Same == UNCHANGED <<dir, clock, raised, saved, failed, evicted>>

LEMMA SameFiles ==
  ASSUME IInv, Same
  PROVE  Durable' = Durable /\ Synced' /\ dir' \subseteq AnyFile /\ clock' \in Nat
BY DEF IInv, Same, Durable, Synced, Typed, Final

LEMMA RaiseInv ==
  ASSUME IInv, NEW d \in Dumps, Raise(d)
  PROVE  IInv'
<1>1. UNCHANGED <<dir, clock, pc, todo, cur, saved, failed, evicted>>
      /\ held' = held \union {d} /\ raised' = raised \union {d}
  BY DEF Raise, tool
<1>2. Progress'
  BY <1>1 DEF IInv, Progress, Temporary, Durable, Mine, Final, SameName
<1>3. Durable' = Durable
  BY <1>1 DEF Durable
<1> QED BY <1>1, <1>2, <1>3 DEF IInv, Typed, InHand, Synced, Settled, Final

LEMMA TickInv ==
  ASSUME IInv, Tick
  PROVE  IInv'
<1>1. UNCHANGED <<held, dir, pc, todo, cur, raised, saved, failed, evicted>>
      /\ clock' \in Nat
  BY DEF Tick, tool, fate, IInv, Typed
<1>2. Progress'
  BY <1>1 DEF IInv, Progress, Temporary, Durable, Mine, Final, SameName
<1>3. Durable' = Durable
  BY <1>1 DEF Durable
<1> QED BY <1>1, <1>2, <1>3 DEF IInv, Typed, InHand, Synced, Settled, Final

LEMMA StutterInv ==
  ASSUME IInv, UNCHANGED vars
  PROVE  IInv'
<1>1. UNCHANGED <<held, dir, clock, pc, todo, cur, raised, saved, failed, evicted>>
  BY DEF vars, tool, fate
<1>2. Progress'
  BY <1>1 DEF IInv, Progress, Temporary, Durable, Mine, Final, SameName
<1>3. Durable' = Durable
  BY <1>1 DEF Durable
<1> QED BY <1>1, <1>2, <1>3 DEF IInv, Typed, InHand, Synced, Settled, Final

LEMMA ScanInv ==
  ASSUME IInv, Scan
  PROVE  IInv'
BY SameFiles DEF IInv, Scan, Goto, Same, Typed, InHand, Progress, Settled, Points, fate

LEMMA PickInv ==
  ASSUME IInv, PickDump
  PROVE  IInv'
BY SameFiles DEF IInv, PickDump, PickDumpAnd, Same, Typed, InHand, Progress, Settled, Points, fate

LEMMA CrashInv ==
  ASSUME IInv, Crash
  PROVE  IInv'
BY SameFiles DEF IInv, Crash, Dies, Same, Typed, InHand, Progress, Settled, Points

LEMMA AckInv ==
  ASSUME IInv, AckDump
  PROVE  IInv'
<1>1. pc = "ack" /\ pc' = "next" /\ Same /\ UNCHANGED todo
      /\ (held' = held \/ held' = held \ {cur})
  BY DEF AckDump, Goto, Same, fate
<1> QED BY <1>1, SameFiles DEF IInv, Typed, InHand, Progress, Settled, Same, Points

LEMMA ListInv ==
  ASSUME IInv, ListOld
  PROVE  IInv'
<1>1. pc = "list" /\ pc' = "unlink" /\ Same /\ UNCHANGED <<held, todo, cur>>
  BY DEF ListOld, ListKeeping, Goto, Same
<1> QED BY <1>1, SameFiles DEF IInv, Typed, InHand, Progress, Settled, Same, Points

(* The failure of a step leads to the acknowledgement.                     *)
LEMMA GiveUpInv ==
  ASSUME IInv, pc \notin {"idle", "next"}, GiveUp, evicted' = evicted,
         dir' \subseteq AnyFile, Synced', Durable \subseteq Durable'
  PROVE  IInv'
BY DEF IInv, GiveUp, Typed, InHand, Progress, Settled, Points

(* A step that leaves the directory alone and gives up.                    *)
LEMMA FailureInv ==
  ASSUME IInv, pc \notin {"idle", "next"}, GiveUp, UNCHANGED dir
  PROVE  IInv'
<1>1. Synced' /\ Durable' = Durable /\ dir' \subseteq AnyFile
  BY DEF IInv, Synced, Durable, Typed, Final
<1> QED BY <1>1, GiveUpInv DEF GiveUp

LEMMA ReadInv ==
  ASSUME IInv, ReadDump
  PROVE  IInv'
<1>1. CASE Goto("read", "duplicate") /\ Same /\ UNCHANGED <<held, todo, cur>>
  BY <1>1, SameFiles DEF IInv, Typed, InHand, Progress, Settled, Same, Goto, Points
<1>2. CASE pc = "read" /\ GiveUp /\ UNCHANGED dir
  BY <1>2, FailureInv
<1> QED BY <1>1, <1>2 DEF ReadDump, Same, fate

(* What is evicted is accounted for.                                       *)
LEMMA EvictFiles ==
  ASSUME IInv, NEW files, Evict(files)
  PROVE  /\ dir' \subseteq AnyFile /\ Synced' /\ evicted \subseteq evicted'
         /\ Durable \subseteq Durable' \union evicted'
BY DEF IInv, Typed, Synced, Evict, Durable, Final

LEMMA DuplicateInv ==
  ASSUME IInv, RemoveDuplicate
  PROVE  IInv'
<1>1. pc = "duplicate" /\ pc' = "list"
      /\ UNCHANGED <<held, clock, todo, cur, raised, saved, failed>>
  BY DEF RemoveDuplicate, Goto
<1>2. /\ dir' \subseteq AnyFile /\ Synced' /\ evicted \subseteq evicted'
      /\ Durable \subseteq Durable' \union evicted'
  <2>1. CASE Evict(Replaced)
    BY <2>1, EvictFiles
  <2>2. CASE UNCHANGED <<dir, evicted>>
    BY <2>2 DEF IInv, Typed, Synced, Durable, Final
  <2> QED BY <2>1, <2>2 DEF RemoveDuplicate
<1> QED BY <1>1, <1>2 DEF IInv, Typed, InHand, Progress, Settled, Points

LEMMA UnlinkInv ==
  ASSUME IInv, UnlinkOld
  PROVE  IInv'
<1>1. pc = "unlink" /\ pc' \in {"unlink", "open"}
      /\ UNCHANGED <<held, clock, todo, cur, raised, saved, failed>>
  BY DEF UnlinkOld
<1>2. /\ dir' \subseteq AnyFile /\ Synced' /\ evicted \subseteq evicted'
      /\ Durable \subseteq Durable' \union evicted'
  <2>1. ASSUME NEW f, Evict({f})
        PROVE  /\ dir' \subseteq AnyFile /\ Synced' /\ evicted \subseteq evicted'
               /\ Durable \subseteq Durable' \union evicted'
    BY <2>1, EvictFiles
  <2>2. CASE UNCHANGED <<dir, evicted>>
    BY <2>2 DEF IInv, Typed, Synced, Durable, Final
  <2> QED BY <2>1, <2>2 DEF UnlinkOld
<1> QED BY <1>1, <1>2 DEF IInv, Typed, InHand, Progress, Settled, Points

LEMMA OpenInv ==
  ASSUME IInv, OpenTemporary
  PROVE  IInv'
<1> DEFINE f == [dump |-> cur, name |-> "temporary", data |-> "partial", time |-> clock]
<1>1. CASE /\ Mine = {} /\ pc' = "write" /\ dir' = dir \union {f}
           /\ UNCHANGED <<held, clock, todo, cur, fate>>
  <2>1. pc = "open" /\ cur \in held
    BY DEF OpenTemporary, IInv, InHand
  <2>2. f \in AnyFile
    BY <2>1 DEF IInv, Typed, AnyFile, Names, Data
  <2>3. Temporary'
    <3>1. \A g \in dir : ~Final(g) => ~SameName(g)
      BY <1>1 DEF Mine
    <3>2. f \in dir' /\ \A g \in dir' : g \in dir \/ g = f
      BY <1>1
    <3> HIDE DEF f
    <3>3. f.dump = cur /\ f.name = "temporary"
      BY DEF f
    <3>4. Mine' = {f}
      BY <1>1, <3>1, <3>2, <3>3 DEF Mine, SameName, Final
    <3> QED BY <1>1, <3>3, <3>4 DEF Temporary
  <2>4. Durable' = Durable /\ Synced'
    BY <1>1 DEF Durable, Synced, IInv, Final
  <2> QED BY <1>1, <2>1, <2>2, <2>3, <2>4
          DEF IInv, Typed, InHand, Progress, Settled, Points, fate
<1>2. CASE GiveUp /\ UNCHANGED dir
  BY <1>2, FailureInv DEF OpenTemporary
<1> QED BY <1>1, <1>2 DEF OpenTemporary

(* The temporary file gets other contents: its names stay.                 *)
LEMMA Rewritten ==
  ASSUME IInv, NEW contents \in Data, NEW at \in Nat,
         dir' = (dir \ Mine)
           \union {[f EXCEPT !.data = contents, !.time = at] : f \in Mine},
         cur' = cur
  PROVE  /\ dir' \subseteq AnyFile /\ Synced' /\ Durable' = Durable
         /\ Mine' = {[f EXCEPT !.data = contents, !.time = at] : f \in Mine}
         /\ Temporary => Temporary'
<1> DEFINE new(f) == [f EXCEPT !.data = contents, !.time = at]
<1>1. \A f \in Mine : /\ f \in AnyFile /\ new(f) \in AnyFile /\ new(f).dump = f.dump
                      /\ new(f).name = "temporary" /\ f.name = "temporary"
                      /\ new(f).data = contents
  BY DEF IInv, Typed, Mine, Final, AnyFile
<1>2. dir' \subseteq AnyFile
  BY <1>1 DEF IInv, Typed
<1>3. Synced'
  BY <1>1 DEF Synced, IInv, Final
<1>4. Durable' = Durable
  BY <1>1 DEF Durable
<1>5. Mine' = {new(f) : f \in Mine}
  BY <1>1 DEF Mine, SameName, Final
<1> QED BY <1>1, <1>2, <1>3, <1>4, <1>5 DEF Temporary

LEMMA WriteInv ==
  ASSUME IInv, WriteDump
  PROVE  IInv'
<1>0. pc = "write"
  BY DEF WriteDump
<1>1. CASE /\ pc' = "sync" /\ UNCHANGED <<held, clock, todo, cur, fate>>
           /\ dir' = (dir \ Mine)
                \union {[f EXCEPT !.data = "written", !.time = clock] : f \in Mine}
  <2>1. clock \in Nat /\ "written" \in Data
    BY DEF IInv, Typed, Data
  <2>2. dir' \subseteq AnyFile /\ Synced' /\ Durable' = Durable /\ (Temporary => Temporary')
    BY <1>1, <2>1, Rewritten
  <2> QED BY <1>0, <1>1, <2>2 DEF IInv, Typed, InHand, Progress, Settled, Points, fate
<1>2. CASE GiveUp /\ dir' \in {dir, dir \ Mine}
  <2>1. dir' \subseteq AnyFile /\ Synced'
    BY <1>2 DEF IInv, Typed, Synced, Final
  <2>2. Durable \subseteq Durable'
    BY <1>2 DEF Durable, Mine, Final
  <2> QED BY <1>0, <1>2, <2>1, <2>2, GiveUpInv DEF GiveUp
<1> QED BY <1>1, <1>2 DEF WriteDump

LEMMA SyncInv ==
  ASSUME IInv, SyncDump
  PROVE  IInv'
<1>0. pc = "sync"
  BY DEF SyncDump
<1>1. CASE /\ pc' = "rename" /\ UNCHANGED <<held, clock, todo, cur, fate>>
           /\ dir' = (dir \ Mine) \union {[f EXCEPT !.data = "synced"] : f \in Mine}
  <2> DEFINE new(f) == [f EXCEPT !.data = "synced"]
  <2>1. \A f \in Mine : /\ f \in AnyFile /\ new(f) \in AnyFile /\ new(f).dump = f.dump
                        /\ new(f).name = "temporary" /\ f.name = "temporary"
                        /\ new(f).data = "synced"
    BY DEF IInv, Typed, Mine, Final, AnyFile, Data
  <2>2. dir' \subseteq AnyFile /\ Synced' /\ Durable' = Durable
    <3>1. dir' \subseteq AnyFile
      BY <1>1, <2>1 DEF IInv, Typed
    <3>2. Synced'
      BY <1>1, <2>1 DEF Synced, IInv, Final
    <3>3. Durable' = Durable
      BY <1>1, <2>1 DEF Durable
    <3> QED BY <3>1, <3>2, <3>3
  <2>3. Mine' = {new(f) : f \in Mine}
    BY <1>1, <2>1 DEF Mine, SameName, Final
  <2>4. Temporary' /\ (\A f \in Mine : f.data = "synced")'
    <3>1. Mine # {} /\ \A f \in Mine : f.dump = cur
      BY <1>0 DEF IInv, Progress, Temporary
    <3>2. Mine' # {} /\ \A g \in Mine' : g.dump = cur'
      BY <1>1, <2>1, <2>3, <3>1
    <3>3. \A g \in Mine' : g.data = "synced"
      BY <2>1, <2>3
    <3> QED BY <3>2, <3>3 DEF Temporary
  <2> QED BY <1>0, <1>1, <2>2, <2>4
          DEF IInv, Typed, InHand, Progress, Settled, Points, fate
<1>2. CASE GiveUp /\ UNCHANGED dir
  BY <1>0, <1>2, FailureInv
<1> QED BY <1>1, <1>2 DEF SyncDump

(* A renaming gives the synced temporary file its name.                    *)
LEMMA RenamedFiles ==
  ASSUME IInv, pc = "rename", cur' = cur,
         dir' = (dir \ (Replaced \union Mine))
                  \union {[f EXCEPT !.name = "renamed"] : f \in Mine},
         evicted' = evicted \union {f.dump : f \in Replaced}
  PROVE  /\ dir' \subseteq AnyFile /\ Synced' /\ \E f \in dir' : Final(f) /\ f.dump = cur
         /\ Durable \subseteq Durable' \union evicted'
<1> DEFINE new(f) == [f EXCEPT !.name = "renamed"]
<1>1. \A f \in Mine : /\ f \in AnyFile /\ new(f) \in AnyFile /\ new(f).dump = f.dump
                      /\ new(f).name = "renamed" /\ f.name = "temporary"
                      /\ new(f).data = "synced"
  BY DEF IInv, Typed, Mine, Final, AnyFile, Names, Progress
<1>2. dir' \subseteq AnyFile
  BY <1>1 DEF IInv, Typed
<1>3. Synced'
  BY <1>1 DEF Synced, IInv, Final
<1>4. \E f \in dir' : Final(f) /\ f.dump = cur
  <2>1. PICK f \in Mine : f.dump = cur
    BY DEF IInv, Progress, Temporary
  <2> QED BY <1>1, <2>1 DEF Final
<1>5. Durable \subseteq Durable' \union evicted'
  BY <1>1 DEF Durable
<1> QED BY <1>2, <1>3, <1>4, <1>5

LEMMA RenameInv ==
  ASSUME IInv, RenameDump
  PROVE  IInv'
<1>0. pc = "rename"
  BY DEF RenameDump
<1>1. CASE /\ pc' = "syncdir"
           /\ dir' = (dir \ (Replaced \union Mine))
                \union {[f EXCEPT !.name = "renamed"] : f \in Mine}
           /\ evicted' = evicted \union {f.dump : f \in Replaced}
           /\ saved' = saved \union {cur}
           /\ UNCHANGED <<held, clock, todo, cur, raised, failed>>
  <2>1. /\ dir' \subseteq AnyFile /\ Synced' /\ \E f \in dir' : Final(f) /\ f.dump = cur
        /\ Durable \subseteq Durable' \union evicted'
    BY <1>0, <1>1, RenamedFiles
  <2>2. (\E f \in dir : Final(f) /\ f.dump = cur)'
    BY <1>1, <2>1 DEF Final
  <2> QED BY <1>0, <1>1, <2>1, <2>2 DEF IInv, Typed, InHand, Progress, Settled, Points
<1>2. CASE GiveUp /\ UNCHANGED dir
  BY <1>0, <1>2, FailureInv
<1> QED BY <1>1, <1>2 DEF RenameDump

LEMMA SyncDirectoryInv ==
  ASSUME IInv, SyncDirectory
  PROVE  IInv'
<1>0. pc = "syncdir" /\ pc' = "ack"
  BY DEF SyncDirectory, Goto
<1>1. CASE /\ dir' = {IF Final(f) THEN [f EXCEPT !.name = "durable"] ELSE f : f \in dir}
           /\ UNCHANGED <<held, clock, todo, cur, fate>>
  <2> DEFINE new(f) == IF Final(f) THEN [f EXCEPT !.name = "durable"] ELSE f
  <2>1. \A f \in dir : /\ f \in AnyFile /\ new(f) \in AnyFile /\ new(f).dump = f.dump
                       /\ Final(f) => new(f).name = "durable"
                       /\ new(f).data = f.data
                       /\ ~Final(f) => new(f) = f
    BY DEF IInv, Typed, AnyFile, Names, Final
  <2>2. dir' \subseteq AnyFile
    BY <1>1, <2>1
  <2>3. Synced'
    <3> SUFFICES ASSUME NEW g \in dir', g.name # "temporary" PROVE g.data = "synced"
      BY DEF Synced, Final
    <3>1. PICK f \in dir : g = new(f)
      BY <1>1
    <3>2. Final(f)
      BY <2>1, <3>1 DEF Final
    <3> QED BY <2>1, <3>1, <3>2 DEF IInv, Synced
  <2>4. \A f \in dir : Final(f) => f.dump \in Durable'
    BY <1>1, <2>1 DEF Durable
  <2>5. Durable \subseteq Durable' /\ cur \in Durable'
    BY <1>0, <2>4 DEF Durable, Final, IInv, Progress
  <2> QED BY <1>0, <1>1, <2>2, <2>3, <2>5
          DEF IInv, Typed, InHand, Progress, Settled, Points, fate
<1>2. CASE GiveUp /\ UNCHANGED dir
  BY <1>0, <1>2, FailureInv
<1> QED BY <1>1, <1>2 DEF SyncDirectory

(* A loss of power takes a name only from a file that is not durable yet.  *)
LEMMA DegradedFile ==
  ASSUME IInv, NEW f \in dir
  PROVE  /\ Degraded(f) \in AnyFile /\ Degraded(f).dump = f.dump
         /\ f.name = "durable" => Degraded(f).name = "durable"
         /\ Degraded(f).name \in {f.name, "temporary"}
         /\ f.data = "synced" => Degraded(f).data = "synced"
<1>1. f \in AnyFile
  BY DEF IInv, Typed
<1> QED BY <1>1 DEF Degraded, AnyFile, Names, Data

LEMMA LossFiles ==
  ASSUME IInv, NEW lost \in SUBSET dir,
         dir' = (dir \ lost) \union {Degraded(f) : f \in lost}
  PROVE  dir' \subseteq AnyFile /\ Synced' /\ Durable \subseteq Durable'
           /\ OnDisk' \subseteq OnDisk
<1>1. dir' \subseteq AnyFile
  BY DegradedFile DEF IInv, Typed
<1>2. ASSUME NEW g \in dir', g.name # "temporary"
      PROVE  \E f \in dir : Final(f) /\ f.dump = g.dump /\ f.data = "synced"
                              /\ g.data = "synced"
  <2>1. CASE g \in dir
    BY <1>2, <2>1 DEF IInv, Synced, Final
  <2>2. CASE g \notin dir
    <3>1. PICK f \in lost : g = Degraded(f)
      BY <2>2
    <3> QED BY <1>2, <3>1, DegradedFile DEF IInv, Synced, Final
  <2> QED BY <2>1, <2>2
<1>3. Durable \subseteq Durable'
  <2> SUFFICES ASSUME NEW f \in dir, f.name = "durable" PROVE f.dump \in Durable'
    BY DEF Durable
  <2>1. CASE f \in lost
    BY <2>1, DegradedFile DEF Durable
  <2>2. CASE f \notin lost
    BY <2>2 DEF Durable
  <2> QED BY <2>1, <2>2
<1>4. OnDisk' \subseteq OnDisk
  BY <1>2 DEF OnDisk, Final
<1> QED BY <1>1, <1>2, <1>3, <1>4 DEF Synced, Final

LEMMA PowerLossInv ==
  ASSUME IInv, PowerLoss
  PROVE  IInv'
<1>1. dir' \subseteq AnyFile /\ Synced' /\ Durable \subseteq Durable'
  BY LossFiles DEF PowerLoss
<1>2. pc' = "idle" /\ todo' = {} /\ UNCHANGED <<held, clock, raised, saved, failed, evicted>>
  BY DEF PowerLoss, Dies
<1> QED BY <1>1, <1>2 DEF IInv, Typed, InHand, Progress, Settled, Points

LEMMA NextInv == IInv /\ [Next]_vars => IInv'
<1> SUFFICES ASSUME IInv, [Next]_vars PROVE IInv'
  OBVIOUS
<1>1. CASE \E d \in Dumps : Raise(d)
  BY <1>1, RaiseInv
<1>2. CASE Tool
  BY <1>2, ScanInv, PickInv, ReadInv, DuplicateInv, ListInv, UnlinkInv, OpenInv,
     WriteInv, SyncInv, RenameInv, SyncDirectoryInv, AckInv DEF Tool
<1>3. CASE Tick \/ Crash \/ PowerLoss \/ UNCHANGED vars
  BY <1>3, TickInv, CrashInv, PowerLossInv, StutterInv
<1> QED BY <1>1, <1>2, <1>3 DEF Next

LEMMA InvHolds == Spec => []IInv
BY InitInv, NextInv, PTL DEF Spec

-----------------------------------------------------------------------------
LEMMA DurableOnDisk == ASSUME IInv PROVE Durable \subseteq OnDisk
BY DEF IInv, Synced, Durable, OnDisk, Final

(* No dump is lost, for any dumps, names, maximum, faults and crashes, by  *)
(* the death of the tool or by a loss of power: a dump is acknowledged     *)
(* only after its renaming is durable or its saving has failed.            *)
THEOREM DumpsKept == Spec => []NoDumpLost
<1>1. IInv => NoDumpLost
  BY DurableOnDisk DEF IInv, Settled, NoDumpLost
<1> QED BY <1>1, InvHolds, PTL

(* A file that has its final name is whole, whenever power is lost:        *)
(* process_dump renames only what it has synced.                           *)
THEOREM FilesWhole == Spec => []WholeOnceNamed
<1>1. IInv => WholeOnceNamed
  BY DEF IInv, Synced, WholeOnceNamed
<1> QED BY <1>1, InvHolds, PTL

-----------------------------------------------------------------------------
LEMMA EvictImplements ==
  ASSUME NEW files, Evict(files), UNCHANGED <<held, saved, failed>>
  PROVE  C!Evict
BY DEF Evict, C!Evict, OnDisk

(* A temporary file is not on disk.                                        *)
LEMMA TemporaryOnDisk ==
  ASSUME IInv, OpenTemporary \/ WriteDump \/ SyncDump
  PROVE  OnDisk' = OnDisk
<1>1. CASE OpenTemporary
  BY <1>1 DEF OpenTemporary, OnDisk, Final
<1>2. CASE WriteDump
  <2> DEFINE new(f) == [f EXCEPT !.data = "written", !.time = clock]
  <2>1. \A f \in Mine : new(f).name = "temporary" /\ f.name = "temporary"
    BY DEF Mine, Final, IInv, Typed, AnyFile
  <2>2. CASE dir' = (dir \ Mine) \union {new(f) : f \in Mine}
    BY <2>1, <2>2 DEF OnDisk, Final
  <2>3. CASE dir' \in {dir, dir \ Mine}
    BY <2>1, <2>3 DEF OnDisk, Final
  <2> QED BY <1>2, <2>2, <2>3 DEF WriteDump
<1>3. CASE SyncDump
  <2> DEFINE new(f) == [f EXCEPT !.data = "synced"]
  <2>1. \A f \in Mine : new(f).name = "temporary" /\ f.name = "temporary"
    BY DEF Mine, Final, IInv, Typed, AnyFile
  <2>2. CASE dir' = (dir \ Mine) \union {new(f) : f \in Mine}
    BY <2>1, <2>2 DEF OnDisk, Final
  <2>3. CASE dir' = dir
    BY <2>3 DEF OnDisk, Final
  <2> QED BY <1>3, <2>2, <2>3 DEF SyncDump
<1> QED BY <1>1, <1>2, <1>3

(* Giving up is a Fail, or nothing if the dump was given up before.        *)
LEMMA GiveUpImplements ==
  ASSUME IInv, pc \notin {"idle", "next"}, GiveUp, OnDisk' = OnDisk
  PROVE  C!Next
<1>1. cur \in Dumps /\ cur \in held
  BY DEF IInv, InHand, Typed
<1>2. C!Fail(cur)
  BY <1>1 DEF GiveUp, C!Fail
<1> QED BY <1>1, <1>2 DEF C!Next

LEMMA StepImplements == IInv /\ IInv' /\ [Next]_vars => [C!Next]_(C!custody)
<1> SUFFICES ASSUME IInv, IInv', [Next]_vars PROVE C!Next \/ UNCHANGED C!custody
  OBVIOUS
<1>1. ASSUME NEW d \in Dumps, Raise(d) PROVE C!Next
  <2>1. C!Post(d)
    BY <1>1 DEF IInv, Typed, Raise, C!Post, OnDisk
  <2> QED BY <2>1 DEF C!Next
<1>2. CASE Scan \/ PickDump \/ ListOld \/ Tick \/ Crash \/ UNCHANGED vars
  BY <1>2 DEF Scan, PickDump, PickDumpAnd, ListOld, ListKeeping, Tick, Crash, Dies, vars, fate,
              C!custody, OnDisk
<1>3. CASE ReadDump
  <2>1. OnDisk' = OnDisk
    BY <1>3 DEF ReadDump, OnDisk
  <2>2. CASE GiveUp
    BY <1>3, <2>1, <2>2, GiveUpImplements DEF ReadDump, Goto
  <2>3. CASE UNCHANGED <<held, saved, failed>>
    BY <2>1, <2>3 DEF C!custody
  <2> QED BY <1>3, <2>2, <2>3 DEF ReadDump, fate
<1>4. CASE RemoveDuplicate
  <2>1. CASE Evict(Replaced)
    <3>1. C!Evict
      BY <1>4, <2>1, EvictImplements DEF RemoveDuplicate
    <3> QED BY <3>1 DEF C!Next
  <2>2. CASE UNCHANGED dir
    BY <1>4, <2>2 DEF RemoveDuplicate, C!custody, OnDisk
  <2> QED BY <1>4, <2>1, <2>2 DEF RemoveDuplicate
<1>5. CASE UnlinkOld
  <2>1. ASSUME NEW f, Evict({f}) PROVE C!Next
    <3>1. C!Evict
      BY <1>5, <2>1, EvictImplements DEF UnlinkOld
    <3> QED BY <3>1 DEF C!Next
  <2>2. CASE UNCHANGED dir
    BY <1>5, <2>2 DEF UnlinkOld, C!custody, OnDisk
  <2> QED BY <1>5, <2>1, <2>2 DEF UnlinkOld
<1>6. CASE OpenTemporary \/ WriteDump \/ SyncDump
  <2>1. OnDisk' = OnDisk
    BY <1>6, TemporaryOnDisk
  <2>2. CASE GiveUp
    BY <1>6, <2>1, <2>2, GiveUpImplements DEF OpenTemporary, WriteDump, SyncDump
  <2>3. CASE UNCHANGED <<held, saved, failed>>
    BY <2>1, <2>3 DEF C!custody
  <2> QED BY <1>6, <2>2, <2>3 DEF OpenTemporary, WriteDump, SyncDump, fate
<1>7. CASE RenameDump
  <2>1. CASE GiveUp /\ UNCHANGED dir
    BY <1>7, <2>1, GiveUpImplements DEF RenameDump, OnDisk
  <2>2. CASE /\ dir' = (dir \ (Replaced \union Mine))
                  \union {[f EXCEPT !.name = "renamed"] : f \in Mine}
             /\ saved' = saved \union {cur}
             /\ UNCHANGED <<held, failed>> /\ pc' = "syncdir" /\ cur' = cur
    <3>1. cur \in Dumps /\ cur \in held
      BY <1>7 DEF RenameDump, IInv, InHand, Typed
    <3>2. cur \in OnDisk'
      BY <2>2 DEF IInv, Progress, Synced, OnDisk, Final
    <3>3. OnDisk' \subseteq OnDisk \union {f.dump : f \in Mine}
      <4>1. \A f \in Mine : [f EXCEPT !.name = "renamed"].dump = f.dump
        BY DEF Mine, IInv, Typed, AnyFile
      <4> SUFFICES ASSUME NEW g \in dir', Final(g), g.data # "partial"
                   PROVE  g.dump \in OnDisk \union {f.dump : f \in Mine}
        BY DEF OnDisk, Final
      <4>2. CASE g \in dir
        BY <4>2 DEF OnDisk
      <4>3. CASE g \notin dir
        BY <2>2, <4>1, <4>3
      <4> QED BY <4>2, <4>3
    <3>4. \A f \in Mine : f.dump = cur
      BY <1>7 DEF RenameDump, IInv, Progress, Temporary
    <3>5. C!Store(cur)
      <4>1. OnDisk' \ {cur} \in SUBSET OnDisk
        BY <3>3, <3>4
      <4>2. OnDisk' = (OnDisk' \ {cur}) \union {cur}
        BY <3>2
      <4> QED BY <2>2, <3>1, <4>1, <4>2 DEF C!Store
    <3> QED BY <3>1, <3>5 DEF C!Next
  <2> QED BY <1>7, <2>1, <2>2 DEF RenameDump
<1>8. CASE SyncDirectory
  <2>1. CASE GiveUp /\ UNCHANGED dir
    BY <1>8, <2>1, GiveUpImplements DEF SyncDirectory, Goto, OnDisk
  <2>2. CASE /\ dir' = {IF Final(f) THEN [f EXCEPT !.name = "durable"] ELSE f : f \in dir}
             /\ UNCHANGED <<held, saved, failed>>
    <3> DEFINE new(f) == IF Final(f) THEN [f EXCEPT !.name = "durable"] ELSE f
    <3>1. \A f \in dir : /\ Final(new(f)) <=> Final(f)
                         /\ new(f).dump = f.dump /\ new(f).data = f.data
      BY DEF Final, IInv, Typed, AnyFile
    <3>2. OnDisk' = OnDisk
      <4>1. ASSUME NEW d \in OnDisk PROVE d \in OnDisk'
        <5>1. PICK f \in dir : d = f.dump /\ Final(f) /\ f.data # "partial"
          BY DEF OnDisk
        <5>2. new(f) \in dir'
          BY <2>2
        <5> QED BY <3>1, <5>1, <5>2 DEF OnDisk, Final
      <4>2. ASSUME NEW d \in OnDisk' PROVE d \in OnDisk
        <5>1. PICK g \in dir' : d = g.dump /\ Final(g) /\ g.data # "partial"
          BY DEF OnDisk, Final
        <5>2. PICK f \in dir : g = new(f)
          BY <2>2
        <5> QED BY <3>1, <5>1, <5>2 DEF OnDisk
      <4> QED BY <4>1, <4>2
    <3> QED BY <2>2, <3>2 DEF C!custody
  <2> QED BY <1>8, <2>1, <2>2 DEF SyncDirectory, fate
<1>9. CASE AckDump
  <2>1. cur \in Dumps /\ cur \in held /\ cur \in saved \union failed
    BY <1>9 DEF AckDump, Goto, IInv, InHand, Progress, Typed
  <2>2. CASE held' = held \ {cur}
    <3>1. C!Release(cur)
      BY <1>9, <2>1, <2>2 DEF AckDump, fate, C!Release, OnDisk
    <3> QED BY <2>1, <3>1 DEF C!Next
  <2>3. CASE held' = held
    BY <1>9, <2>3 DEF AckDump, fate, C!custody, OnDisk
  <2> QED BY <1>9, <2>2, <2>3 DEF AckDump
<1>10. CASE PowerLoss
  <2>1. OnDisk' \subseteq OnDisk
    BY <1>10, LossFiles DEF PowerLoss
  <2>2. C!Evict
    BY <1>10, <2>1 DEF PowerLoss, Dies, C!Evict
  <2> QED BY <2>2 DEF C!Next
<1> QED BY <1>1, <1>2, <1>3, <1>4, <1>5, <1>6, <1>7, <1>8,
       <1>9, <1>10 DEF Next, Tool

(* The tool implements Custody, the specification that opal_errd           *)
(* implements as well: it releases a dump to the firmware only after it    *)
(* has stored it or failed to.                                             *)
THEOREM Implementation == Spec => ImplementsCustody
<1>1. Init => C!Init
  BY DEF Init, C!Init, OnDisk
<1> QED BY <1>1, InvHolds, StepImplements, PTL DEF Spec, ImplementsCustody, C!Spec

-----------------------------------------------------------------------------
(* The output directory: types, room and the traces of a failure.          *)

(* What the type invariant says beyond Typed and InHand.                   *)
RestTyped ==
  /\ pc \in {"idle", "next"} => cur = Nothing
  /\ \A f \in dir : f.time <= MaxTime
  /\ clock <= MaxTime
  /\ evicted \subseteq Dumps /\ stuck \in BOOLEAN
  /\ faults \in 0 .. MaxFaults /\ crashes \in 0 .. MaxCrashes

(* Files are marked for removal only until they are unlinked, and only so  *)
(* many that MaxDump - 1 stay which are not older; with the others gone    *)
(* there is room for one more.                                             *)
Kept(keep) ==
  /\ keep \subseteq OfType \ doomed
  /\ Cardinality(keep) = MaxDump - 1
  /\ \A f \in keep, g \in doomed : f.time >= g.time
Marked ==
  /\ doomed \subseteq OfType
  /\ stuck \/ Cardinality(OfType \ doomed) <= MaxDump - 1
  /\ doomed # {} => \E keep : Kept(keep)
Room ==
  /\ IsFiniteSet(dir)
  /\ pc = "unlink" => Marked
  /\ pc # "unlink" => doomed = {}
  /\ pc = "open" => stuck \/ Cardinality(OfType) <= MaxDump - 1
  /\ pc \in {"write", "sync", "rename", "syncdir"} => stuck \/ Cardinality(OfType) <= MaxDump

(* As long as nothing has failed and nobody died, a temporary file is the  *)
(* one that is being written, and nothing was given up.                    *)
Calm == faults = 0 /\ crashes = 0
Clean ==
  Calm => /\ failed = {}
          /\ \A f \in dir : ~Final(f) => SameName(f) /\ pc \in {"write", "sync", "rename"}

DirInv == RestTyped /\ Room /\ Clean

LEMMA DirTyped == IInv /\ DirInv => TypeOK
<1> SUFFICES ASSUME IInv, DirInv PROVE TypeOK
  OBVIOUS
<1>1. dir \subseteq Files
  <2> SUFFICES ASSUME NEW f \in dir PROVE f \in Files
    OBVIOUS
  <2>1. f \in AnyFile /\ f.time <= MaxTime
    BY DEF IInv, Typed, DirInv, RestTyped
  <2>2. f.time \in 0 .. MaxTime
    BY <2>1, ConstantsAssumption DEF AnyFile
  <2> QED
    BY <2>1, <2>2 DEF AnyFile, Files
<1>2. clock \in 0 .. MaxTime
  BY ConstantsAssumption DEF IInv, Typed, DirInv, RestTyped
<1>3. doomed \subseteq Files
  BY <1>1 DEF DirInv, Room, Marked, OfType
<1>4. /\ cur \in Dumps \union {Nothing}
      /\ cur = Nothing <=> pc \in {"idle", "next"}
  <2>1. CASE pc \in {"idle", "next"}
    BY <2>1 DEF DirInv, RestTyped
  <2>2. CASE pc \notin {"idle", "next"}
    <3>1. cur \in Dumps
      BY <2>2 DEF IInv, InHand, Typed
    <3>2. cur # Nothing
      BY <3>1, ConstantsAssumption DEF Nothing
    <3> QED
      BY <2>2, <3>1, <3>2
  <2> QED
    BY <2>1, <2>2
<1>5. ToolType
  BY <1>3, <1>4 DEF ToolType, IInv, Typed
<1>6. FateType
  BY DEF FateType, IInv, Typed, DirInv, RestTyped
<1>7. FilesType /\ BoundsType
  BY <1>1, <1>2 DEF FilesType, BoundsType, DirInv, RestTyped
<1> QED
  BY <1>5, <1>6, <1>7 DEF TypeOK

LEMMA DirInit == Init => DirInv
<1> SUFFICES ASSUME Init PROVE DirInv
  OBVIOUS
<1>1. RestTyped
  <2>1. /\ cur = Nothing /\ dir = {} /\ clock = 0 /\ evicted = {} /\ stuck = FALSE
        /\ faults = 0 /\ crashes = 0
    BY DEF Init
  <2>2. 0 <= MaxTime /\ 0 \in 0 .. MaxFaults /\ 0 \in 0 .. MaxCrashes
    BY ConstantsAssumption
  <2> QED
    BY <2>1, <2>2 DEF RestTyped
<1>2. Room
  BY FS_EmptySet DEF Init, Room
<1>3. Clean
  BY DEF Init, Clean
<1> QED
  BY <1>1, <1>2, <1>3 DEF DirInv

-----------------------------------------------------------------------------
(* Every file is there after a step for one that was there before, of the  *)
(* same dump, but for the temporary file that the tool opens.              *)
IsMap(m) ==
  /\ \A f \in dir : m[f].dump = f.dump /\ m[f].time \in {f.time, clock}
  /\ \A g \in dir' : \E f \in dir : m[f] = g

Opened(x) ==
  /\ pc = "open" /\ pc' = "write" /\ Mine = {}
  /\ x.dump = cur /\ x.time = clock /\ x.name = "temporary"
  /\ dir' = dir \union {x}
  /\ UNCHANGED <<clock, todo, cur, doomed, bounds, fate>>

LEMMA SubsetMaps ==
  ASSUME dir' \subseteq dir
  PROVE  \E m : IsMap(m)
<1> DEFINE m == [f \in dir |-> f]
<1>1. IsMap(m)
  BY DEF IsMap
<1> QED
  BY <1>1

LEMMA WriteMaps ==
  ASSUME IInv, WriteDump \/ SyncDump \/ RenameDump
  PROVE  \E m : IsMap(m)
<1>1. \A f \in Mine : f \in AnyFile
  BY DEF Mine, IInv, Typed
<1>2. CASE dir' \subseteq dir
  BY <1>2, SubsetMaps
<1>3. CASE dir' = (dir \ Mine) \union {[f EXCEPT !.data = "written", !.time = clock] : f \in Mine}
  <2> DEFINE m == [f \in dir |-> IF f \in Mine THEN [f EXCEPT !.data = "written", !.time = clock]
                                 ELSE f]
  <2>1. \A f \in AnyFile : /\ [f EXCEPT !.data = "written", !.time = clock].dump = f.dump
                           /\ [f EXCEPT !.data = "written", !.time = clock].time = clock
    BY DEF AnyFile
  <2>2. IsMap(m)
    BY <1>1, <1>3, <2>1 DEF IsMap, Mine
  <2> QED
    BY <2>2
<1>4. CASE dir' = (dir \ Mine) \union {[f EXCEPT !.data = "synced"] : f \in Mine}
  <2> DEFINE m == [f \in dir |-> IF f \in Mine THEN [f EXCEPT !.data = "synced"] ELSE f]
  <2>1. \A f \in AnyFile : /\ [f EXCEPT !.data = "synced"].dump = f.dump
                           /\ [f EXCEPT !.data = "synced"].time = f.time
    BY DEF AnyFile
  <2>2. IsMap(m)
    BY <1>1, <1>4, <2>1 DEF IsMap, Mine
  <2> QED
    BY <2>2
<1>5. CASE dir' = (dir \ (Replaced \union Mine)) \union {[f EXCEPT !.name = "renamed"] : f \in Mine}
  <2> DEFINE m == [f \in dir |-> IF f \in Mine THEN [f EXCEPT !.name = "renamed"] ELSE f]
  <2>1. \A f \in AnyFile : /\ [f EXCEPT !.name = "renamed"].dump = f.dump
                           /\ [f EXCEPT !.name = "renamed"].time = f.time
    BY DEF AnyFile
  <2>2. IsMap(m)
    BY <1>1, <1>5, <2>1 DEF IsMap, Mine
  <2> QED
    BY <2>2
<1> QED
  BY <1>2, <1>3, <1>4, <1>5 DEF WriteDump, SyncDump, RenameDump

LEMMA DirectoryMaps ==
  ASSUME IInv, SyncDirectory \/ PowerLoss
  PROVE  \E m : IsMap(m)
<1>1. \A f \in dir : f \in AnyFile
  BY DEF IInv, Typed
<1>2. CASE dir' = dir
  BY <1>2, SubsetMaps
<1>3. CASE dir' = {IF Final(f) THEN [f EXCEPT !.name = "durable"] ELSE f : f \in dir}
  <2> DEFINE m == [f \in dir |-> IF Final(f) THEN [f EXCEPT !.name = "durable"] ELSE f]
  <2>1. \A f \in AnyFile : /\ [f EXCEPT !.name = "durable"].dump = f.dump
                           /\ [f EXCEPT !.name = "durable"].time = f.time
    BY DEF AnyFile
  <2>2. IsMap(m)
    BY <1>1, <1>3, <2>1 DEF IsMap
  <2> QED
    BY <2>2
<1>4. ASSUME NEW lost \in SUBSET dir, dir' = (dir \ lost) \union {Degraded(f) : f \in lost}
      PROVE  \E m : IsMap(m)
  <2> DEFINE m == [f \in dir |-> IF f \in lost THEN Degraded(f) ELSE f]
  <2>1. \A f \in dir : Degraded(f).dump = f.dump /\ Degraded(f).time = f.time
    BY <1>1 DEF Degraded, AnyFile
  <2>2. IsMap(m)
    BY <1>4, <2>1 DEF IsMap
  <2> QED
    BY <2>2
<1> QED
  BY <1>2, <1>3, <1>4 DEF SyncDirectory, PowerLoss

LEMMA StepMaps ==
  ASSUME IInv, [Next]_vars
  PROVE  (\E x : Opened(x)) \/ \E m : IsMap(m)
<1>1. CASE OpenTemporary
  <2>1. CASE Mine = {} /\ pc' = "write"
    <3> PICK x : x = [dump |-> cur, name |-> "temporary", data |-> "partial", time |-> clock]
      OBVIOUS
    <3>1. Opened(x) \/ dir' = dir
      BY <1>1, <2>1 DEF OpenTemporary, Opened
    <3> QED
      BY <3>1, SubsetMaps
  <2>2. CASE ~(Mine = {} /\ pc' = "write")
    <3>1. dir' = dir
      BY <1>1, <2>2 DEF OpenTemporary
    <3> QED
      BY <3>1, SubsetMaps
  <2> QED
    BY <2>1, <2>2
<1>2. CASE WriteDump \/ SyncDump \/ RenameDump \/ SyncDirectory \/ PowerLoss
  BY <1>2, WriteMaps, DirectoryMaps
<1>3. CASE \/ \E d \in Dumps : Raise(d)
           \/ Tick \/ Crash \/ Scan \/ PickDump \/ ReadDump \/ ListOld \/ AckDump \/ UNCHANGED vars
           \/ RemoveDuplicate \/ UnlinkOld
  <2>1. dir' \subseteq dir
    BY <1>3 DEF Raise, Tick, Crash, Scan, PickDump, PickDumpAnd, ReadDump, ListOld, ListKeeping, AckDump,
       vars, RemoveDuplicate, UnlinkOld, Evict
  <2> QED
    BY <2>1, SubsetMaps
<1> QED
  BY <1>1, <1>2, <1>3 DEF Next, Tool

(* Such a step leaves the files finite, of known times, and of a type no   *)
(* more than there were.                                                   *)
LEMMA MapFiles ==
  ASSUME IsFiniteSet(dir), NEW m, IsMap(m)
  PROVE  /\ IsFiniteSet(dir') /\ IsFiniteSet(OfType) /\ Cardinality(OfType) \in Nat
         /\ cur' = cur => /\ IsFiniteSet(OfType') /\ Cardinality(OfType') \in Nat
                          /\ Cardinality(OfType') <= Cardinality(OfType)
<1> DEFINE all == {m[f] : f \in dir}
<1> DEFINE k == [f \in dir |-> m[f]]
<1>1. k \in [dir -> all] /\ \A g \in all : \E f \in dir : k[f] = g
  OBVIOUS
<1>2. dir' \in SUBSET all
  BY DEF IsMap
<1> HIDE DEF all, k
<1>3. k \in Surjection(dir, all)
  BY <1>1, Fun_IsSurj
<1>4. IsFiniteSet(all)
  BY <1>3, FS_Surjection
<1>5. IsFiniteSet(dir')
  BY <1>2, <1>4, FS_Subset
<1>6. IsFiniteSet(OfType) /\ Cardinality(OfType) \in Nat
  <2>1. OfType \in SUBSET dir
    BY DEF OfType
  <2> QED
    BY <2>1, FS_Subset, FS_CardinalityType
<1>7. ASSUME cur' = cur
      PROVE  /\ IsFiniteSet(OfType') /\ Cardinality(OfType') \in Nat
             /\ Cardinality(OfType') <= Cardinality(OfType)
  <2> DEFINE h == [f \in OfType |-> m[f]]
  <2> DEFINE img == {m[f] : f \in OfType}
  <2>1. h \in [OfType -> img] /\ \A g \in img : \E f \in OfType : h[f] = g
    OBVIOUS
  <2>2. OfType' \in SUBSET img
    BY <1>7 DEF IsMap, OfType
  <2> HIDE DEF h, img
  <2>3. h \in Surjection(OfType, img)
    BY <2>1, Fun_IsSurj
  <2>4. IsFiniteSet(img) /\ Cardinality(img) <= Cardinality(OfType)
    BY <1>6, <2>3, FS_Surjection
  <2>5. IsFiniteSet(OfType') /\ Cardinality(OfType') <= Cardinality(img)
    BY <2>2, <2>4, FS_Subset
  <2>6. Cardinality(OfType') \in Nat /\ Cardinality(img) \in Nat
    BY <2>4, <2>5, FS_CardinalityType
  <2> QED
    BY <1>6, <2>4, <2>5, <2>6
<1> QED
  BY <1>5, <1>6, <1>7

(* The file that the tool opens is one more.                               *)
LEMMA OpenFiles ==
  ASSUME IsFiniteSet(dir), NEW x, Opened(x)
  PROVE  /\ IsFiniteSet(dir') /\ Cardinality(OfType) \in Nat /\ Cardinality(OfType') \in Nat
         /\ Cardinality(OfType') <= Cardinality(OfType) + 1
<1>1. dir' = dir \union {x} /\ cur' = cur
  BY DEF Opened
<1>2. IsFiniteSet(dir')
  BY <1>1, FS_AddElement
<1>3. OfType \in SUBSET dir
  BY DEF OfType
<1>4. IsFiniteSet(OfType) /\ Cardinality(OfType) \in Nat
  BY <1>3, FS_Subset, FS_CardinalityType
<1>5. OfType' \in SUBSET (OfType \union {x})
  BY <1>1 DEF OfType
<1>6. /\ IsFiniteSet(OfType \union {x})
      /\ Cardinality(OfType \union {x}) =
           IF x \in OfType THEN Cardinality(OfType) ELSE Cardinality(OfType) + 1
  BY <1>4, FS_AddElement
<1>7. IsFiniteSet(OfType') /\ Cardinality(OfType') <= Cardinality(OfType \union {x})
  BY <1>5, <1>6, FS_Subset
<1>8. Cardinality(OfType') \in Nat
  BY <1>7, FS_CardinalityType
<1> QED
  BY <1>2, <1>4, <1>6, <1>7, <1>8

-----------------------------------------------------------------------------
(* The remaining types.                                                    *)

LEMMA RestNext ==
  ASSUME IInv, IInv', DirInv, [Next]_vars
  PROVE  RestTyped'
<1> USE DEF DirInv, RestTyped
<1>1. pc' \in {"idle", "next"} => cur' = Nothing
  <2>1. CASE \/ \E d \in Dumps : Raise(d)
             \/ Tick \/ Crash \/ PowerLoss \/ UNCHANGED vars \/ Scan \/ PickDump \/ AckDump
    BY <2>1 DEF Raise, Tick, Crash, PowerLoss, Dies, vars, tool, Scan, PickDump, PickDumpAnd, AckDump, Goto
  <2>2. CASE \/ ReadDump \/ RemoveDuplicate \/ ListOld \/ UnlinkOld \/ OpenTemporary \/ WriteDump
             \/ SyncDump \/ RenameDump \/ SyncDirectory
    <3>1. pc' \notin {"idle", "next"}
      BY <2>2 DEF ReadDump, RemoveDuplicate, ListOld, ListKeeping, UnlinkOld, OpenTemporary, WriteDump,
         SyncDump, RenameDump, SyncDirectory, GiveUp, Goto
    <3> QED
      BY <3>1
  <2> QED
    BY <2>1, <2>2 DEF Next, Tool
<1>2. clock' <= MaxTime /\ clock <= MaxTime
  <2>1. CASE Tick
    BY <2>1, ConstantsAssumption DEF Tick, IInv, Typed
  <2>2. CASE ~Tick
    <3>1. clock' = clock
      BY <2>2 DEF Next, Tool, Raise, Crash, PowerLoss, Dies, vars, tool, Scan, PickDump, PickDumpAnd,
         AckDump, ReadDump, RemoveDuplicate, ListOld, ListKeeping, UnlinkOld, OpenTemporary, WriteDump,
         SyncDump, RenameDump, SyncDirectory, GiveUp
    <3> QED
      BY <3>1
  <2> QED
    BY <2>1, <2>2
<1>3. \A f \in dir' : f.time <= MaxTime
  <2>1. ASSUME NEW x, Opened(x)
        PROVE  \A f \in dir' : f.time <= MaxTime
    BY <1>2, <2>1 DEF Opened
  <2>2. ASSUME NEW m, IsMap(m)
        PROVE  \A f \in dir' : f.time <= MaxTime
    <3> SUFFICES ASSUME NEW g \in dir' PROVE g.time <= MaxTime
      OBVIOUS
    <3>1. PICK f \in dir : m[f] = g
      BY <2>2 DEF IsMap
    <3>2. g.time = f.time \/ g.time = clock
      BY <2>2, <3>1 DEF IsMap
    <3> QED
      BY <1>2, <3>2
  <2> QED
    BY <2>1, <2>2, StepMaps
<1>4. evicted' \subseteq Dumps
  <2>1. evicted' \subseteq evicted \union {f.dump : f \in dir}
    <3>1. CASE RemoveDuplicate \/ UnlinkOld \/ RenameDump
      <4>1. Replaced \subseteq dir /\ doomed \subseteq dir
        BY DEF Replaced, Room, Marked, OfType
      <4>2. \/ UNCHANGED evicted \/ evicted' = evicted \union {f.dump : f \in Replaced}
            \/ \E f \in doomed : evicted' = evicted \union {f.dump}
        BY <3>1 DEF RemoveDuplicate, UnlinkOld, RenameDump, Evict, GiveUp
      <4> QED
        BY <4>1, <4>2
    <3>2. CASE ~(RemoveDuplicate \/ UnlinkOld \/ RenameDump)
      BY <3>2 DEF Next, Tool, Raise, Tick, Crash, PowerLoss, Dies, vars, fate, Scan, PickDump, PickDumpAnd,
         AckDump, ReadDump, ListOld, ListKeeping, OpenTemporary, WriteDump, SyncDump, SyncDirectory, GiveUp
    <3> QED
      BY <3>1, <3>2
  <2>2. \A f \in dir : f.dump \in Dumps
    BY DEF IInv, Typed, AnyFile
  <2> QED
    BY <2>1, <2>2
<1>5. stuck' \in BOOLEAN
  <2>1. stuck' = stuck \/ stuck' = TRUE \/ stuck' = FALSE
    BY DEF Next, Tool, Raise, Tick, Crash, PowerLoss, Dies, vars, fate, Scan, PickDump, PickDumpAnd,
       AckDump, ReadDump, RemoveDuplicate, ListOld, ListKeeping, UnlinkOld, OpenTemporary, WriteDump,
       SyncDump, RenameDump, SyncDirectory, GiveUp
  <2> QED
    BY <2>1
<1>6. faults' \in 0 .. MaxFaults /\ crashes' \in 0 .. MaxCrashes
  <2>1. faults' = faults \/ Fault
    BY DEF Next, Tool, Raise, Tick, Crash, PowerLoss, Dies, vars, bounds, Scan, PickDump, PickDumpAnd,
       AckDump, ReadDump, RemoveDuplicate, ListOld, ListKeeping, UnlinkOld, OpenTemporary, WriteDump,
       SyncDump, RenameDump, SyncDirectory
  <2>2. crashes' = crashes \/ (crashes < MaxCrashes /\ crashes' = crashes + 1)
    BY DEF Next, Tool, Raise, Tick, Crash, PowerLoss, Dies, vars, bounds, Scan, PickDump, PickDumpAnd,
       AckDump, ReadDump, RemoveDuplicate, ListOld, ListKeeping, UnlinkOld, OpenTemporary, WriteDump,
       SyncDump, RenameDump, SyncDirectory, GiveUp
  <2> QED
    BY <2>1, <2>2, ConstantsAssumption DEF Fault
<1> QED
  BY <1>1, <1>2, <1>3, <1>4, <1>5, <1>6

-----------------------------------------------------------------------------
(* The room for a new dump.                                                *)

LEMMA ListRoom ==
  ASSUME IInv, Room, ListOld
  PROVE  Room'
<1>1. pc = "list" /\ pc' = "unlink" /\ UNCHANGED <<dir, cur>> /\ doomed = {}
  BY DEF ListOld, ListKeeping, Goto, Room
<1>2. IsFiniteSet(dir') /\ OfType' = OfType
  BY <1>1 DEF Room, OfType
<1>3. CASE stuck' = TRUE /\ UNCHANGED doomed
  BY <1>1, <1>2, <1>3 DEF Room, Marked
<1>4. ASSUME NEW keep \in SUBSET OfType,
             IF Cardinality(OfType) <= MaxDump - 1 THEN keep = OfType ELSE Cardinality(keep) = MaxDump - 1,
             \A f \in keep, g \in OfType \ keep : f.time >= g.time,
             doomed' = OfType \ keep
      PROVE  Room'
  <2>1. OfType \ doomed' = keep
    BY <1>4
  <2>2. Cardinality(keep) <= MaxDump - 1
    <3>1. CASE Cardinality(OfType) <= MaxDump - 1
      BY <1>4, <3>1
    <3>2. CASE ~(Cardinality(OfType) <= MaxDump - 1)
      BY <1>4, <3>2, ConstantsAssumption
    <3> QED
      BY <3>1, <3>2
  <2>3. doomed' # {} => Kept(keep)'
    <3> SUFFICES ASSUME doomed' # {} PROVE Kept(keep)'
      OBVIOUS
    <3>1. keep # OfType
      BY <1>4
    <3>2. Cardinality(keep) = MaxDump - 1
      BY <1>4, <3>1
    <3> QED
      BY <1>2, <1>4, <2>1, <3>2 DEF Kept
  <2>4. Marked'
    BY <1>2, <1>4, <2>1, <2>2, <2>3 DEF Marked
  <2> QED
    BY <1>1, <1>2, <2>4 DEF Room
<1> QED
  BY <1>3, <1>4 DEF ListOld, ListKeeping

(* What unlinking leaves.                                                  *)
LEMMA UnlinkRoom ==
  ASSUME IInv, Room, UnlinkOld
  PROVE  Room'
<1>1. pc = "unlink" /\ UNCHANGED cur /\ Marked /\ IsFiniteSet(dir)
  BY DEF UnlinkOld, Room
<1>2. CASE doomed = {} /\ pc' = "open" /\ UNCHANGED <<dir, doomed, stuck>>
  <2>1. OfType' = OfType /\ OfType \ doomed = OfType
    BY <1>1, <1>2 DEF OfType
  <2> QED
    BY <1>1, <1>2, <2>1 DEF Room, Marked
<1>3. ASSUME NEW f \in doomed, pc' = pc, doomed' = doomed \ {f},
             \/ dir' = dir \ {f} /\ UNCHANGED stuck
             \/ stuck' = TRUE /\ UNCHANGED dir
      PROVE  Room'
  <2>1. OfType \ doomed \subseteq OfType' \ doomed'
    BY <1>1, <1>3 DEF OfType
  <2>2. dir' \in SUBSET dir /\ doomed' \subseteq OfType'
    BY <1>1, <1>3 DEF OfType, Marked
  <2>3. IsFiniteSet(dir')
    BY <1>1, <2>2, FS_Subset
  <2>4. stuck' \/ Cardinality(OfType' \ doomed') <= MaxDump - 1
    <3>1. CASE dir' = dir \ {f} /\ UNCHANGED stuck
      <4>1. OfType' \ doomed' = OfType \ doomed
        BY <1>1, <1>3, <3>1 DEF OfType, Marked
      <4> QED
        BY <1>1, <3>1, <4>1 DEF Marked
    <3>2. CASE stuck' = TRUE
      BY <3>2
    <3> QED
      BY <1>3, <3>1, <3>2
  <2>5. \E keep : Kept(keep)'
    <3>1. PICK keep : Kept(keep)
      BY <1>1, <1>3 DEF Marked
    <3>2. Kept(keep)'
      BY <1>3, <2>1, <3>1 DEF Kept
    <3> QED
      BY <3>2
  <2>6. Marked'
    BY <2>2, <2>4, <2>5 DEF Marked
  <2> QED
    BY <1>1, <1>3, <2>3, <2>6 DEF Room
<1> QED
  BY <1>2, <1>3 DEF UnlinkOld, Evict

LEMMA RoomNext ==
  ASSUME IInv, Room, [Next]_vars
  PROVE  Room'
<1>1. CASE ListOld \/ UnlinkOld
  BY <1>1, ListRoom, UnlinkRoom
<1>2. ASSUME NEW x, Opened(x)
      PROVE  Room'
  <2>1. pc = "open" /\ pc' = "write" /\ UNCHANGED <<doomed, stuck>>
    BY <1>2 DEF Opened, fate
  <2>2. /\ IsFiniteSet(dir') /\ Cardinality(OfType) \in Nat /\ Cardinality(OfType') \in Nat
        /\ Cardinality(OfType') <= Cardinality(OfType) + 1
    BY <1>2, OpenFiles DEF Room
  <2>3. stuck \/ Cardinality(OfType) <= MaxDump - 1
    BY <2>1 DEF Room
  <2>4. stuck' \/ Cardinality(OfType') <= MaxDump
    BY <2>1, <2>2, <2>3, ConstantsAssumption
  <2> QED
    BY <2>1, <2>2, <2>4 DEF Room
<1>3. ASSUME NEW m, IsMap(m), ~(ListOld \/ UnlinkOld)
      PROVE  Room'
  <2>1. IsFiniteSet(dir')
    BY <1>3, MapFiles DEF Room
  <2>2. \/ UNCHANGED <<dir, tool, stuck>>
        \/ pc' \in {"idle", "next", "read", "duplicate", "list", "ack"} /\ doomed' = {}
        \/ /\ pc \in {"write", "sync", "rename", "syncdir"}
           /\ pc' \in {"write", "sync", "rename", "syncdir"} /\ UNCHANGED <<cur, doomed, stuck>>
        \/ OpenTemporary /\ pc' = "write"
    <3>1. CASE \/ \E d \in Dumps : Raise(d)
               \/ Tick \/ UNCHANGED vars
      BY <3>1 DEF Raise, Tick, vars, fate
    <3>2. CASE Crash \/ PowerLoss
      BY <3>2 DEF Crash, PowerLoss, Dies
    <3>3. CASE Scan \/ PickDump \/ AckDump \/ ReadDump \/ RemoveDuplicate
      <4>1. pc # "unlink" /\ doomed = {}
        BY <3>3 DEF Scan, PickDump, PickDumpAnd, AckDump, ReadDump, RemoveDuplicate, Goto, Room
      <4> QED
        BY <3>3, <4>1 DEF Scan, PickDump, PickDumpAnd, AckDump, ReadDump, RemoveDuplicate, Goto, GiveUp
    <3>4. CASE OpenTemporary \/ WriteDump \/ SyncDump \/ RenameDump \/ SyncDirectory
      <4>1. pc # "unlink" /\ doomed = {}
        BY <3>4 DEF OpenTemporary, WriteDump, SyncDump, RenameDump, SyncDirectory, Goto, Room
      <4> QED
        BY <3>4, <4>1 DEF OpenTemporary, WriteDump, SyncDump, RenameDump, SyncDirectory, Goto, GiveUp, fate
    <3> QED
      BY <1>3, <3>1, <3>2, <3>3, <3>4 DEF Next, Tool
  <2>3. CASE UNCHANGED <<dir, tool, stuck>>
    <3>1. OfType' = OfType /\ UNCHANGED <<pc, doomed, cur, stuck>>
      BY <2>3 DEF OfType, tool
    <3>2. \A keep : Kept(keep) => Kept(keep)'
      BY <3>1 DEF Kept
    <3>3. Marked => Marked'
      BY <3>1, <3>2 DEF Marked
    <3> QED
      BY <2>1, <3>1, <3>3 DEF Room
  <2>4. CASE pc' \in {"idle", "next", "read", "duplicate", "list", "ack"} /\ doomed' = {}
    BY <2>1, <2>4 DEF Room
  <2>5. CASE /\ pc \in {"write", "sync", "rename", "syncdir"}
             /\ pc' \in {"write", "sync", "rename", "syncdir"} /\ UNCHANGED <<cur, doomed, stuck>>
    <3>1. /\ Cardinality(OfType) \in Nat /\ Cardinality(OfType') \in Nat
          /\ Cardinality(OfType') <= Cardinality(OfType)
      BY <1>3, <2>5, MapFiles DEF Room
    <3>2. stuck \/ Cardinality(OfType) <= MaxDump
      BY <2>5 DEF Room
    <3>3. stuck' \/ Cardinality(OfType') <= MaxDump
      BY <2>5, <3>1, <3>2, ConstantsAssumption
    <3> QED
      BY <2>1, <2>5, <3>3 DEF Room
  <2>6. CASE OpenTemporary /\ pc' = "write"
    <3> PICK x : x = [dump |-> cur, name |-> "temporary", data |-> "partial", time |-> clock]
      OBVIOUS
    <3>1. Opened(x)
      BY <2>6 DEF OpenTemporary, Opened, GiveUp
    <3> QED
      BY <1>2, <3>1
  <2> QED
    BY <2>2, <2>3, <2>4, <2>5, <2>6
<1> QED
  BY <1>1, <1>2, <1>3, StepMaps

-----------------------------------------------------------------------------
(* The traces of a failure.                                                *)

LEMMA CleanNext ==
  ASSUME IInv, DirInv, [Next]_vars
  PROVE  Clean'
<1> SUFFICES ASSUME Calm' PROVE failed' = {} /\ \A f \in dir' :
                      ~Final(f) => SameName(f)' /\ pc' \in {"write", "sync", "rename"}
  BY DEF Clean, Final
<1>1. ~Fault /\ Calm /\ ~Crash /\ ~PowerLoss
  <2>1. faults \in Nat /\ crashes \in Nat
    BY DEF DirInv, RestTyped
  <2>2. ~Fault /\ ~Crash /\ ~PowerLoss
    BY <2>1 DEF Fault, Crash, PowerLoss, Dies, Calm
  <2>3. faults' = faults \/ Fault
    BY DEF Next, Tool, Raise, Tick, Crash, PowerLoss, Dies, vars, bounds, Scan, PickDump, PickDumpAnd,
       AckDump, ReadDump, RemoveDuplicate, ListOld, ListKeeping, UnlinkOld, OpenTemporary, WriteDump,
       SyncDump, RenameDump, SyncDirectory
  <2>4. crashes' = crashes
    BY <2>2 DEF Next, Tool, Raise, Tick, vars, bounds, Scan, PickDump, PickDumpAnd,
       AckDump, ReadDump, RemoveDuplicate, ListOld, ListKeeping, UnlinkOld, OpenTemporary, WriteDump,
       SyncDump, RenameDump, SyncDirectory, GiveUp
  <2> QED
    BY <2>2, <2>3, <2>4 DEF Calm
<1>2. failed = {} /\ \A f \in dir : ~Final(f) => SameName(f) /\ pc \in {"write", "sync", "rename"}
  BY <1>1 DEF DirInv, Clean
<1>3. CASE UNCHANGED <<failed, cur>> /\ dir' \subseteq dir
           /\ (pc \in {"write", "sync", "rename"} => pc' \in {"write", "sync", "rename"})
  BY <1>2, <1>3 DEF SameName, Final
<1>4. CASE \/ \E d \in Dumps : Raise(d)
           \/ Tick \/ UNCHANGED vars \/ RemoveDuplicate \/ ListOld \/ UnlinkOld
  <2>1. /\ UNCHANGED <<failed, cur>> /\ dir' \subseteq dir
        /\ pc \in {"write", "sync", "rename"} => pc' \in {"write", "sync", "rename"}
    BY <1>4 DEF Raise, Tick, vars, tool, fate, RemoveDuplicate, ListOld, ListKeeping, UnlinkOld, Evict, Goto
  <2> QED
    BY <1>3, <2>1
<1>5. CASE Scan \/ PickDump \/ AckDump \/ ReadDump
  <2>1. UNCHANGED <<failed, dir>> /\ pc \notin {"write", "sync", "rename"}
    BY <1>1, <1>5 DEF Scan, PickDump, PickDumpAnd, AckDump, ReadDump, Goto, fate
  <2> QED
    BY <1>2, <2>1
<1>6. CASE OpenTemporary
  <2> PICK x : x = [dump |-> cur, name |-> "temporary", data |-> "partial", time |-> clock]
    OBVIOUS
  <2>1. pc = "open" /\ Mine = {}
    BY <1>2, <1>6 DEF OpenTemporary, Mine
  <2>2. dir' = dir \union {x} /\ pc' = "write" /\ UNCHANGED <<cur, failed>> /\ x.dump = cur
    BY <1>1, <1>6, <2>1 DEF OpenTemporary, fate
  <2> QED
    BY <1>2, <2>1, <2>2 DEF SameName
<1>7. CASE WriteDump \/ SyncDump
  <2>2. /\ pc' \in {"write", "sync", "rename"} /\ UNCHANGED <<cur, failed>>
        /\ \A g \in dir' : g \in dir \/ \E f \in Mine : g.dump = f.dump
    <3>1. \A f \in Mine : f \in AnyFile
      BY DEF Mine, IInv, Typed
    <3>2. \A f \in AnyFile : /\ [f EXCEPT !.data = "written", !.time = clock].dump = f.dump
                             /\ [f EXCEPT !.data = "synced"].dump = f.dump
      BY DEF AnyFile
    <3>3. pc' \in {"write", "sync", "rename"} /\ UNCHANGED <<cur, failed>>
      BY <1>1, <1>7 DEF WriteDump, SyncDump, fate
    <3>4. \/ dir' = (dir \ Mine) \union {[f EXCEPT !.data = "written", !.time = clock] : f \in Mine}
          \/ dir' = (dir \ Mine) \union {[f EXCEPT !.data = "synced"] : f \in Mine}
      BY <1>1, <1>7 DEF WriteDump, SyncDump
    <3>5. ASSUME NEW g \in dir', g \notin dir
          PROVE  \E f \in Mine : g.dump = f.dump
      <4>1. CASE dir' = (dir \ Mine)
                   \union {[f EXCEPT !.data = "written", !.time = clock] : f \in Mine}
        <5>1. PICK f \in Mine : g = [f EXCEPT !.data = "written", !.time = clock]
          BY <3>5, <4>1
        <5> QED
          BY <3>1, <3>2, <5>1
      <4>2. CASE dir' = (dir \ Mine) \union {[f EXCEPT !.data = "synced"] : f \in Mine}
        <5>1. PICK f \in Mine : g = [f EXCEPT !.data = "synced"]
          BY <3>5, <4>2
        <5> QED
          BY <3>1, <3>2, <5>1
      <4> QED
        BY <3>4, <4>1, <4>2
    <3> QED
      BY <3>3, <3>5
  <2>3. ASSUME NEW g \in dir', ~Final(g)
        PROVE  SameName(g)'
    BY <1>2, <2>2, <2>3 DEF SameName, Mine
  <2> QED
    BY <1>2, <2>2, <2>3
<1>8. CASE RenameDump
  <2>1. /\ dir' = (dir \ (Replaced \union Mine)) \union {[f EXCEPT !.name = "renamed"] : f \in Mine}
        /\ UNCHANGED <<failed>>
    BY <1>1, <1>8 DEF RenameDump
  <2>2. \A f \in AnyFile : [f EXCEPT !.name = "renamed"].name = "renamed"
    BY DEF AnyFile
  <2>3. \A f \in Mine : f \in AnyFile
    BY DEF Mine, IInv, Typed
  <2>4. ASSUME NEW g \in dir' PROVE Final(g)
    <3>1. CASE g \in dir \ Mine
      BY <1>2, <3>1 DEF Mine
    <3>2. CASE g \notin dir \ Mine
      BY <2>1, <2>2, <2>3, <3>2 DEF Final
    <3> QED
      BY <3>1, <3>2
  <2> QED
    BY <1>2, <2>1, <2>4
<1>9. CASE SyncDirectory
  <2>1. /\ dir' = {IF Final(f) THEN [f EXCEPT !.name = "durable"] ELSE f : f \in dir}
        /\ UNCHANGED failed /\ pc = "syncdir"
    BY <1>1, <1>9 DEF SyncDirectory, fate, Goto
  <2>2. \A f \in AnyFile : [f EXCEPT !.name = "durable"].name = "durable"
    BY DEF AnyFile
  <2>3. \A f \in dir : f \in AnyFile /\ Final(f)
    BY <1>2, <2>1 DEF IInv, Typed
  <2>4. ASSUME NEW g \in dir' PROVE Final(g)
    <3>1. PICK f \in dir : g = [f EXCEPT !.name = "durable"]
      BY <2>1, <2>3
    <3>2. g.name = "durable"
      BY <2>2, <2>3, <3>1
    <3> QED
      BY <3>2 DEF Final
  <2> QED
    BY <1>2, <2>1, <2>4
<1> QED
  BY <1>1, <1>4, <1>5, <1>6, <1>7, <1>8, <1>9 DEF Next, Tool

-----------------------------------------------------------------------------
LEMMA DirHolds == Spec => []DirInv
<1>1. IInv /\ IInv' /\ DirInv /\ [Next]_vars => DirInv'
  BY RestNext, RoomNext, CleanNext DEF DirInv
<1> QED
  BY <1>1, DirInit, InvHolds, PTL DEF Spec

(* While files are unlinked one goes only if MaxDump - 1 stay that are not *)
(* older.                                                                  *)
LEMMA UnlinkKeeps ==
  ASSUME IInv, Room, [Next]_vars, {pc, pc'} = {"unlink"}, NEW f \in dir \ dir'
  PROVE  Cardinality({g \in OfType \cap dir' : g.time >= f.time}) >= MaxDump - 1
<1>1. pc = "unlink" /\ pc' = "unlink" /\ Marked /\ IsFiniteSet(dir)
  BY DEF Room
<1>2. UnlinkOld
  BY <1>1 DEF Next, Tool, Raise, Tick, Crash, PowerLoss, Dies, vars, Scan, PickDump, PickDumpAnd,
     AckDump, ReadDump, RemoveDuplicate, ListOld, ListKeeping, OpenTemporary, WriteDump,
     SyncDump, RenameDump, SyncDirectory, GiveUp, Goto
<1>3. f \in doomed /\ dir' = dir \ {f}
  BY <1>1, <1>2 DEF UnlinkOld, Evict
<1>4. PICK keep : Kept(keep)
  BY <1>1, <1>3 DEF Marked
<1> DEFINE H == {g \in OfType \cap dir' : g.time >= f.time}
<1>5. keep \in SUBSET H
  BY <1>3, <1>4 DEF Kept, OfType
<1>6. H \in SUBSET dir
  BY DEF OfType
<1> HIDE DEF H
<1>7. IsFiniteSet(H)
  BY <1>1, <1>6, FS_Subset
<1>8. Cardinality(keep) <= Cardinality(H) /\ Cardinality(H) \in Nat
  BY <1>5, <1>7, FS_Subset, FS_CardinalityType
<1>9. Cardinality(H) >= MaxDump - 1
  BY <1>4, <1>8, ConstantsAssumption DEF Kept
<1> QED
  BY <1>9 DEF H

(* The dump directory is in order, for any dumps, names, maximum, failures *)
(* and crashes: there are no more than MaxDump files of a type once a dump *)
(* is saved unless one could not be removed, remove_dump_files removes the *)
(* oldest only, and a dump is given up only after a failure or a death.    *)
THEOREM DirectoryKept == Spec => DirectoryInOrder
<1>1. IInv /\ DirInv => TypeOK /\ WithinMaximum /\ GivesUpOnlyIfDisturbed
  <2> SUFFICES ASSUME IInv, DirInv PROVE TypeOK /\ WithinMaximum /\ GivesUpOnlyIfDisturbed
    OBVIOUS
  <2>1. TypeOK
    BY DirTyped
  <2>2. WithinMaximum
    BY DEF DirInv, Room, WithinMaximum
  <2>3. GivesUpOnlyIfDisturbed
    <3>1. faults \in Nat /\ crashes \in Nat
      BY DEF DirInv, RestTyped
    <3> QED
      BY <3>1 DEF DirInv, Clean, Calm, GivesUpOnlyIfDisturbed
  <2> QED
    BY <2>1, <2>2, <2>3
<1>2. IInv /\ DirInv /\ [Next]_vars =>
        ({pc, pc'} = {"unlink"} =>
           \A f \in dir \ dir' :
             Cardinality({g \in OfType \cap dir' : g.time >= f.time}) >= MaxDump - 1)
  BY UnlinkKeeps DEF DirInv
<1> QED
  BY <1>1, <1>2, InvHolds, DirHolds, PTL DEF Spec, DirectoryInOrder, KeepsNewest
=============================================================================

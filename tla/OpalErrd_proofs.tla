-------------------------- MODULE OpalErrd_proofs --------------------------
(***************************************************************************)
(* Proofs about OpalErrd: no elog is lost, the daemon implements Custody,  *)
(* and its directory is in order.                                          *)
(***************************************************************************)
EXTENDS OpalErrd, FiniteSetTheorems, FunctionTheorems, TLAPS

(* The part of the type invariant that the proofs need.                    *)
Typed ==
  /\ pc \in Points /\ held \subseteq Elogs /\ todo \subseteq held
  /\ saved \subseteq Elogs /\ failed \subseteq Elogs
  /\ dir \subseteq [time : Nat, id : Elogs, typed : BOOLEAN, whole : BOOLEAN]
  /\ clock \in Nat

(* The elog in hand is off the list and the firmware holds it; before it is *)
(* acknowledged it has been saved, or the daemon has failed to save it.    *)
InHand ==
  /\ pc \in {"save", "ack"} => cur \in held \ todo
  /\ pc = "ack" => cur \in saved \union failed

(* An elog that the firmware has shown is held or has been processed; one  *)
(* that has been saved is on disk or has been deleted by rotation.         *)
Processed == raised = held \union saved \union failed
Kept      == saved \subseteq OnDisk \union rotated

IInv == Typed /\ InHand /\ Processed /\ Kept

-----------------------------------------------------------------------------
LEMMA InitInv == Init => IInv
<1> SUFFICES ASSUME Init PROVE IInv
  OBVIOUS
<1>1. dir \subseteq [time : Nat, id : Elogs, typed : BOOLEAN, whole : BOOLEAN]
  <2>1. ASSUME NEW e \in OldFiles
        PROVE  [time |-> 0, id |-> e, typed |-> FALSE, whole |-> TRUE]
                 \in [time : Nat, id : Elogs, typed : BOOLEAN, whole : BOOLEAN]
    BY ConstantsAssumption
  <2>2. dir = {[time |-> 0, id |-> e, typed |-> FALSE, whole |-> TRUE] : e \in OldFiles}
    BY DEF Init
  <2> QED BY <2>1, <2>2
<1>2. pc = "rename" /\ held = {} /\ raised = {} /\ todo = {} /\ saved = {} /\ failed = {}
      /\ clock = 1
  BY DEF Init
<1> QED BY <1>1, <1>2 DEF IInv, Typed, InHand, Processed, Kept, Points

(* The steps that change neither sysfs nor the output directory nor what   *)
(* has been saved.                                                         *)
LEMMA RaiseInv ==
  ASSUME IInv, NEW e \in Elogs, Raise(e)
  PROVE  IInv'
BY DEF IInv, Raise, Typed, InHand, Processed, Kept, OnDisk, daemon, fate

LEMMA TickInv ==
  ASSUME IInv, Tick
  PROVE  IInv'
BY DEF IInv, Tick, Typed, InHand, Processed, Kept, OnDisk, daemon, fate

LEMMA ScanInv ==
  ASSUME IInv, Scan
  PROVE  IInv'
BY DEF IInv, Scan, Goto, Typed, InHand, Processed, Kept, OnDisk, Points

LEMMA PickElogInv ==
  ASSUME IInv, PickElog
  PROVE  IInv'
BY DEF IInv, PickElog, PickElogAnd, Typed, InHand, Processed, Kept, OnDisk, Points, fate

LEMMA QuietInv ==
  ASSUME IInv, CheckPlatformDump \/ Poll \/ Restart \/ Crash \/ UNCHANGED vars
  PROVE  IInv'
BY DEF IInv, CheckPlatformDump, Poll, Restart, Crash, Goto, vars, Typed, InHand,
       Processed, Kept, OnDisk, Points, daemon, fate

(* Renaming keeps the elogs of the files.                                  *)
LEMMA RenameOnDisk ==
  ASSUME IInv, RenameOldLogs
  PROVE  OnDisk' = OnDisk /\ dir' \subseteq [time : Nat, id : Elogs, typed : BOOLEAN,
                                            whole : BOOLEAN]
<1> DEFINE F == [time : Nat, id : Elogs, typed : BOOLEAN, whole : BOOLEAN]
<1>1. PICK renamed \in SUBSET {f \in dir : ~f.typed} :
        dir' = (dir \ renamed) \union {[f EXCEPT !.typed = TRUE] : f \in renamed}
  BY DEF RenameOldLogs
<1>2. dir \subseteq F
  BY DEF IInv, Typed
<1>3. \A f \in F : LET g == [f EXCEPT !.typed = TRUE] IN
                     g \in F /\ g.id = f.id /\ g.whole = f.whole
  OBVIOUS
<1>4. dir' \subseteq F
  BY <1>1, <1>2, <1>3
<1>5. ASSUME NEW e \in OnDisk PROVE e \in OnDisk'
  <2>1. PICK f \in dir : f.whole /\ e = f.id
    BY DEF OnDisk
  <2>2. CASE f \in renamed
    <3>1. [f EXCEPT !.typed = TRUE] \in dir'
      BY <1>1, <2>2
    <3> QED BY <1>2, <1>3, <2>1, <3>1 DEF OnDisk
  <2>3. CASE f \notin renamed
    BY <1>1, <2>1, <2>3 DEF OnDisk
  <2> QED BY <2>2, <2>3
<1>6. ASSUME NEW e \in OnDisk' PROVE e \in OnDisk
  <2>1. PICK g \in dir' : g.whole /\ e = g.id
    BY DEF OnDisk
  <2>2. CASE g \in dir
    BY <2>1, <2>2 DEF OnDisk
  <2>3. CASE g \notin dir
    <3>1. PICK f \in renamed : g = [f EXCEPT !.typed = TRUE]
      BY <1>1, <2>3
    <3> QED BY <1>2, <1>3, <2>1, <3>1 DEF OnDisk
  <2> QED BY <2>2, <2>3
<1> QED BY <1>4, <1>5, <1>6

LEMMA RenameInv ==
  ASSUME IInv, RenameOldLogs
  PROVE  IInv'
BY RenameOnDisk DEF IInv, RenameOldLogs, Goto, Typed, InHand, Processed, Kept, Points, fate

(* A save adds the elog to those on disk, a failed one takes none away.    *)
LEMMA SaveOnDisk ==
  ASSUME IInv, SaveElog
  PROVE  OnDisk' = OnDisk \union {cur}
           /\ dir' \subseteq [time : Nat, id : Elogs, typed : BOOLEAN, whole : BOOLEAN]
<1>1. dir' = (dir \ {Truncated(FileOf(cur))}) \union {FileOf(cur)}
  BY DEF SaveElog
<1>2. cur \in Elogs
  BY DEF SaveElog, Goto, IInv, InHand, Typed
<1>3. FileOf(cur) \in [time : Nat, id : Elogs, typed : BOOLEAN, whole : BOOLEAN]
      /\ FileOf(cur).id = cur /\ FileOf(cur).whole
  BY <1>2 DEF FileOf, IInv, Typed
<1>4. ~Truncated(FileOf(cur)).whole
  BY DEF FileOf, Truncated
<1>5. dir' \subseteq [time : Nat, id : Elogs, typed : BOOLEAN, whole : BOOLEAN]
  BY <1>1, <1>3 DEF IInv, Typed
<1>6. OnDisk' = OnDisk \union {cur}
  BY <1>1, <1>3, <1>4 DEF OnDisk
<1> QED BY <1>5, <1>6

LEMMA SaveInv ==
  ASSUME IInv, SaveElog
  PROVE  IInv'
BY SaveOnDisk DEF IInv, SaveElog, Goto, Typed, InHand, Processed, Kept, Points

LEMMA SaveFailsOnDisk ==
  ASSUME IInv, SaveFails
  PROVE  OnDisk' = OnDisk
           /\ dir' \subseteq [time : Nat, id : Elogs, typed : BOOLEAN, whole : BOOLEAN]
<1>1. cur \in Elogs
  BY DEF SaveFails, Goto, IInv, InHand, Typed
<1>2. Truncated(FileOf(cur))
        \in [time : Nat, id : Elogs, typed : BOOLEAN, whole : BOOLEAN]
      /\ ~Truncated(FileOf(cur)).whole
  BY <1>1 DEF FileOf, Truncated, IInv, Typed
<1>3. dir' = dir \/ dir' = dir \union {Truncated(FileOf(cur))}
  BY DEF SaveFails
<1> QED BY <1>2, <1>3 DEF OnDisk, IInv, Typed

LEMMA SaveFailsInv ==
  ASSUME IInv, SaveFails
  PROVE  IInv'
BY SaveFailsOnDisk DEF IInv, SaveFails, Goto, Typed, InHand, Processed, Kept, Points

LEMMA AckInv ==
  ASSUME IInv, AckElog \/ AckFails
  PROVE  IInv'
<1>1. pc = "ack" /\ pc' = "next" /\ UNCHANGED <<dir, clock, todo, raised, saved, failed, rotated>>
  BY DEF AckElog, AckFails, Goto, fate
<1>2. held' = held \/ held' = held \ {cur}
  BY DEF AckElog, AckFails
<1>3. cur \notin todo
  BY <1>1 DEF IInv, InHand
<1> QED BY <1>1, <1>2, <1>3 DEF IInv, Typed, InHand, Processed, Kept, OnDisk, Points

(* What rotation takes from disk it has deleted.                           *)
LEMMA RotateOnDisk ==
  ASSUME IInv, RotateLogs
  PROVE  OnDisk' \subseteq OnDisk /\ OnDisk \subseteq OnDisk' \union rotated'
           /\ rotated \subseteq rotated' /\ dir' \subseteq dir
<1>1. PICK gone : dir' = dir \ gone /\ rotated' = rotated \union {f.id : f \in gone}
  BY DEF RotateLogs
<1> QED BY <1>1 DEF OnDisk

LEMMA RotateInv ==
  ASSUME IInv, RotateLogs
  PROVE  IInv'
BY RotateOnDisk DEF IInv, RotateLogs, Goto, Typed, InHand, Processed, Kept, Points

LEMMA NextInv == IInv /\ [Next]_vars => IInv'
<1> SUFFICES ASSUME IInv, [Next]_vars PROVE IInv'
  OBVIOUS
<1>1. CASE \E e \in Elogs : Raise(e)
  BY <1>1, RaiseInv
<1>2. CASE Daemon
  BY <1>2, RenameInv, ScanInv, PickElogInv, SaveInv, SaveFailsInv, AckInv, RotateInv,
     QuietInv DEF Daemon
<1>3. CASE Tick \/ Crash \/ UNCHANGED vars
  BY <1>3, TickInv, QuietInv
<1> QED BY <1>1, <1>2, <1>3 DEF Next

LEMMA InvHolds == Spec => []IInv
BY InitInv, NextInv, PTL DEF Spec

-----------------------------------------------------------------------------
(* No elog is lost, for any elogs, limits, faults and crashes: the daemon  *)
(* acknowledges an elog only after it has saved it or failed to, so what   *)
(* has been acknowledged is on disk but for rotation and such failures.    *)
THEOREM ElogsKept == Spec => []NoElogLost
<1>1. IInv => NoElogLost
  BY DEF IInv, Processed, Kept, NoElogLost
<1> QED BY <1>1, InvHolds, PTL

(* Every step of the daemon is a step of Custody, or leaves its variables  *)
(* as they are.                                                            *)
LEMMA StepImplements == IInv /\ IInv' /\ [Next]_vars => [C!Next]_(C!custody)
<1> SUFFICES ASSUME IInv, IInv', [Next]_vars PROVE C!Next \/ UNCHANGED C!custody
  OBVIOUS
<1>1. ASSUME NEW e \in Elogs, Raise(e) PROVE C!Post(e)
  BY <1>1 DEF IInv, Processed, Raise, C!Post, OnDisk, fate
<1>2. CASE SaveElog
  <2>1. cur \in Elogs /\ OnDisk' = OnDisk \union {cur}
    BY <1>2, SaveOnDisk DEF IInv, InHand, Typed, SaveElog, Goto
  <2>2. C!Store(cur)
    BY <1>2, <2>1 DEF IInv, InHand, SaveElog, Goto, C!Store
  <2> QED BY <2>1, <2>2 DEF C!Next
<1>3. CASE SaveFails
  <2>1. cur \in Elogs /\ C!Fail(cur)
    BY <1>3, SaveFailsOnDisk DEF IInv, InHand, Typed, SaveFails, Goto, C!Fail
  <2> QED BY <2>1 DEF C!Next
<1>4. CASE AckElog
  <2>1. cur \in Elogs /\ C!Release(cur)
    BY <1>4 DEF IInv, InHand, Typed, AckElog, Goto, C!Release, OnDisk, fate
  <2> QED BY <2>1 DEF C!Next
<1>5. CASE RotateLogs
  <2>1. C!Evict
    BY <1>5, RotateOnDisk DEF RotateLogs, C!Evict
  <2> QED BY <2>1 DEF C!Next
<1>6. CASE RenameOldLogs
  <2>1. UNCHANGED C!custody
    BY <1>6, RenameOnDisk DEF RenameOldLogs, C!custody, fate
  <2> QED BY <2>1
<1>7. CASE Tick \/ Crash \/ Scan \/ PickElog \/ AckFails \/ CheckPlatformDump \/ Poll
             \/ Restart \/ UNCHANGED vars
  BY <1>7 DEF Tick, Crash, Scan, PickElog, PickElogAnd, AckFails, CheckPlatformDump,
              Poll, Restart, vars, fate, C!custody, OnDisk
<1> QED BY <1>1, <1>2, <1>3, <1>4, <1>5, <1>6, <1>7 DEF Next, Daemon, C!Next

(* The daemon implements Custody: with sysfs as the firmware's records and *)
(* the whole files as the disk's, it releases an elog to the firmware only *)
(* after it has stored it or failed to.                                    *)
THEOREM Implementation == Spec => ImplementsCustody
<1>1. Init => C!Init
  BY ConstantsAssumption DEF Init, C!Init, OnDisk
<1> QED BY <1>1, InvHolds, StepImplements, PTL DEF Spec, ImplementsCustody, C!Spec

-----------------------------------------------------------------------------
(* The types of all variables.                                             *)

Faulted == \A e \in Elogs : unacked[e] <= faults

TypeInv == TypeOK /\ Faulted

LEMMA TypeInit == Init => TypeInv
<1> SUFFICES ASSUME Init PROVE TypeInv
  OBVIOUS
<1>1. DaemonType
  BY DEF Init, DaemonType, Points
<1>2. FilesType
  <2>1. ASSUME NEW e \in OldFiles
        PROVE  [time |-> 0, id |-> e, typed |-> FALSE, whole |-> TRUE] \in Files
    BY ConstantsAssumption DEF Files
  <2>2. dir = {[time |-> 0, id |-> e, typed |-> FALSE, whole |-> TRUE] : e \in OldFiles} /\ clock = 1
    BY DEF Init
  <2> QED
    BY <2>1, <2>2, ConstantsAssumption DEF FilesType
<1>3. FateType
  BY DEF Init, FateType
<1>4. BoundsType /\ Faulted
  BY ConstantsAssumption DEF Init, BoundsType, Faulted
<1> QED
  BY <1>1, <1>2, <1>3, <1>4 DEF TypeInv, TypeOK

(* The file of the elog in hand.                                           *)
LEMMA FileType ==
  ASSUME TypeInv, cur \in Elogs
  PROVE  /\ FileOf(cur) \in Files /\ Truncated(FileOf(cur)) \in Files
         /\ FileOf(cur).time = clock /\ FileOf(cur).id = cur /\ FileOf(cur).typed
         /\ Truncated(FileOf(cur)).time = clock /\ Truncated(FileOf(cur)).id = cur
         /\ Truncated(FileOf(cur)).typed
         /\ FileOf(cur).whole = TRUE /\ Truncated(FileOf(cur)).whole = FALSE
<1>1. clock \in 0 .. MaxTime
  BY ConstantsAssumption DEF TypeInv, TypeOK, FilesType
<1> QED
  BY <1>1 DEF FileOf, Truncated, Files

LEMMA TypeNext == IInv /\ TypeInv /\ [Next]_vars => TypeInv'
<1> SUFFICES ASSUME IInv, TypeInv, [Next]_vars PROVE TypeInv'
  OBVIOUS
<1> USE DEF TypeInv, TypeOK
<1>1. ASSUME NEW e \in Elogs, Raise(e)
      PROVE  TypeInv'
  BY <1>1 DEF Raise, DaemonType, FilesType, FateType, BoundsType, Faulted, daemon, bounds, fate
<1>2. CASE Tick
  <2>1. FilesType'
    BY <1>2, ConstantsAssumption DEF Tick, FilesType
  <2> QED
    BY <1>2, <2>1 DEF Tick, DaemonType, FateType, BoundsType, Faulted, daemon, bounds, fate
<1>3. CASE RenameOldLogs
  <2>1. PICK renamed \in SUBSET {f \in dir : ~f.typed} :
          dir' = (dir \ renamed) \union {[f EXCEPT !.typed = TRUE] : f \in renamed}
    BY <1>3 DEF RenameOldLogs
  <2>2. \A f \in Files : [f EXCEPT !.typed = TRUE] \in Files
    BY DEF Files
  <2>3. FilesType'
    BY <1>3, <2>1, <2>2 DEF RenameOldLogs, FilesType
  <2> QED
    BY <1>3, <2>3 DEF RenameOldLogs, Goto, DaemonType, FateType, BoundsType, Faulted, bounds, fate,
       Points
<1>4. CASE Scan
  BY <1>4 DEF Scan, Goto, DaemonType, FilesType, FateType, BoundsType, Faulted, bounds, Points
<1>5. CASE PickElog
  BY <1>5 DEF PickElog, PickElogAnd, DaemonType, FilesType, FateType, BoundsType, Faulted, bounds,
     fate, Points
<1>6. CASE SaveElog \/ SaveFails
  <2>1. cur \in Elogs /\ pc' = "ack" /\ UNCHANGED <<held, clock, todo, cur, raised, crashes, unacked,
          stuck, rotated>>
    BY <1>6 DEF SaveElog, SaveFails, Goto, IInv, InHand, Typed, bounds
  <2>2. dir' \subseteq dir \union {FileOf(cur), Truncated(FileOf(cur))}
    BY <1>6 DEF SaveElog, SaveFails
  <2>3. FilesType'
    BY <2>1, <2>2, FileType DEF FilesType
  <2>4. rotate' \subseteq rotate \union {Type(cur)} /\ Type(cur) \in Types
    BY <1>6 DEF SaveElog, SaveFails, Type, Types
  <2>5. saved' \subseteq saved \union {cur} /\ failed' \subseteq failed \union {cur}
    BY <1>6 DEF SaveElog, SaveFails
  <2>6. faults' \in 0 .. MaxFaults /\ faults <= faults'
    BY <1>6, ConstantsAssumption DEF SaveElog, SaveFails, BoundsType, bounds
  <2>7. BoundsType' /\ Faulted'
    BY <2>1, <2>6 DEF BoundsType, Faulted
  <2>8. DaemonType' /\ FateType'
    BY <2>1, <2>4, <2>5 DEF DaemonType, FateType, Points
  <2> QED
    BY <2>3, <2>7, <2>8
<1>7. CASE AckElog
  BY <1>7 DEF AckElog, Goto, DaemonType, FilesType, FateType, BoundsType, Faulted, bounds, fate, Points
<1>8. CASE AckFails
  <2>1. faults < MaxFaults /\ faults' = faults + 1 /\ crashes' = crashes /\ stuck' = stuck
        /\ unacked' = [unacked EXCEPT ![cur] = @ + 1]
    BY <1>8 DEF AckFails
  <2>2. faults' \in 0 .. MaxFaults
    BY <2>1, ConstantsAssumption DEF BoundsType
  <2>3. \A e \in Elogs : unacked'[e] \in 0 .. MaxFaults /\ unacked'[e] <= faults'
    BY <2>1, <2>2, ConstantsAssumption DEF BoundsType, Faulted
  <2>4. unacked' \in [Elogs -> 0 .. MaxFaults]
    BY <2>1, <2>3 DEF BoundsType
  <2>5. BoundsType' /\ Faulted'
    BY <2>1, <2>2, <2>3, <2>4 DEF BoundsType, Faulted
  <2> QED
    BY <1>8, <2>5 DEF AckFails, Goto, DaemonType, FilesType, FateType, Points
<1>9. CASE RotateLogs
  <2> DEFINE excess == UNION {Excess(t) : t \in rotate}
  <2>1. PICK gone \in SUBSET excess :
          /\ \/ gone = excess /\ UNCHANGED faults
             \/ gone # excess /\ faults < MaxFaults /\ faults' = faults + 1
          /\ dir' = dir \ gone
          /\ rotated' = rotated \union {f.id : f \in gone}
          /\ stuck' = {Type(f.id) : f \in excess \ gone}
    BY <1>9 DEF RotateLogs
  <2>2. excess \subseteq dir
    BY DEF Excess, OfType
  <2> HIDE DEF excess
  <2>3. \A f \in dir : f.id \in Elogs
    BY DEF FilesType, Files
  <2>4. FilesType' /\ rotated' \subseteq Elogs
    BY <1>9, <2>1, <2>2, <2>3 DEF RotateLogs, FilesType, FateType
  <2>5. stuck' \subseteq Types
    BY <2>1 DEF Type, Types
  <2>6. faults' \in 0 .. MaxFaults /\ faults <= faults'
    BY <2>1, ConstantsAssumption DEF BoundsType
  <2>7. BoundsType' /\ Faulted'
    BY <1>9, <2>5, <2>6 DEF RotateLogs, BoundsType, Faulted
  <2> QED
    BY <1>9, <2>4, <2>7 DEF RotateLogs, Goto, DaemonType, FateType, Points
<1>10. CASE CheckPlatformDump \/ Poll \/ Restart \/ UNCHANGED vars
  BY <1>10 DEF CheckPlatformDump, Poll, Restart, Goto, vars, daemon, DaemonType, FilesType, FateType,
     BoundsType, Faulted, bounds, fate, Points
<1>11. CASE Crash
  <2>1. crashes' \in 0 .. MaxCrashes
    BY <1>11, ConstantsAssumption DEF Crash, BoundsType
  <2> QED
    BY <1>11, <2>1 DEF Crash, DaemonType, FilesType, FateType, BoundsType, Faulted, Points
<1> QED
  BY <1>1, <1>2, <1>3, <1>4, <1>5, <1>6, <1>7, <1>8, <1>9, <1>10, <1>11 DEF Next, Daemon

-----------------------------------------------------------------------------
(* The files by age.                                                       *)

(* The directory is finite, no two files have the same time and elog, and  *)
(* only those of an old version lack a type.                               *)
FilesInv ==
  /\ IsFiniteSet(dir)
  /\ \A f, g \in dir : f.time = g.time /\ f.id = g.id => f = g
  /\ \A f \in dir : f.typed \/ f.time = 0

LEMMA FileNumbers ==
  ASSUME TypeInv, NEW f \in dir
  PROVE  f.time \in Nat /\ f.id \in Nat
<1>1. f \in Files
  BY DEF TypeInv, TypeOK, FilesType
<1>2. f.time \in 0 .. MaxTime /\ f.id \in Elogs
  BY <1>1 DEF Files
<1>3. Elogs \subseteq Nat /\ MaxTime \in Nat
  BY ConstantsAssumption
<1>4. f.id \in Nat
  BY <1>2, <1>3
<1>5. f.time \in Nat
  BY <1>2, <1>3
<1> QED
  BY <1>4, <1>5

LEMMA TypeFinite ==
  ASSUME FilesInv, NEW t
  PROVE  IsFiniteSet(OfType(t, dir)) /\ Count(t) \in Nat
<1>1. OfType(t, dir) \in SUBSET dir
  BY DEF OfType
<1>2. IsFiniteSet(OfType(t, dir))
  BY <1>1, FS_Subset DEF FilesInv
<1> QED
  BY <1>2, FS_CardinalityType DEF Count

(* Of two files of a type one is the older one and has the lower index.    *)
Below(f) == {g \in OfType(Type(f.id), dir) : Older(g, f)}

LEMMA BelowFinite ==
  ASSUME FilesInv, NEW f
  PROVE  IsFiniteSet(Below(f)) /\ Index(f) \in Nat /\ Index(f) = Cardinality(Below(f))
<1>1. Below(f) \in SUBSET OfType(Type(f.id), dir)
  BY DEF Below
<1>2. IsFiniteSet(Below(f))
  BY <1>1, TypeFinite, FS_Subset
<1> QED
  BY <1>2, FS_CardinalityType DEF Below, Index

LEMMA IndexBelow ==
  ASSUME FilesInv, TypeInv, NEW t, NEW f \in OfType(t, dir)
  PROVE  Index(f) < Count(t)
<1> DEFINE S == OfType(t, dir)
<1>1. Type(f.id) = t /\ f \in dir /\ f.time \in Nat /\ f.id \in Nat
  BY FileNumbers DEF OfType
<1>2. f \notin Below(f)
  BY <1>1 DEF Below, Older
<1>3. IsFiniteSet(Below(f) \union {f}) /\ Cardinality(Below(f) \union {f}) = Index(f) + 1
  BY <1>2, BelowFinite, FS_AddElement
<1>4. Below(f) \union {f} \in SUBSET S
  BY <1>1 DEF Below
<1>5. IsFiniteSet(S) /\ Count(t) = Cardinality(S)
  BY TypeFinite DEF Count
<1>6. Cardinality(Below(f) \union {f}) <= Cardinality(S)
  BY <1>4, <1>5, FS_Subset
<1> QED
  BY <1>3, <1>5, <1>6, BelowFinite, TypeFinite

LEMMA OlderIndex ==
  ASSUME FilesInv, TypeInv, NEW t, NEW f \in OfType(t, dir), NEW g \in OfType(t, dir), Older(f, g)
  PROVE  Index(f) < Index(g)
<1>1. Type(f.id) = t /\ Type(g.id) = t
  BY DEF OfType
<1>2. \A h \in dir : h.time \in Nat /\ h.id \in Nat
  BY FileNumbers
<1>3. f \in dir /\ g \in dir /\ Below(f) \subseteq dir
  BY DEF OfType, Below
<1>4. f \notin Below(f)
  BY <1>2, <1>3 DEF Below, Older
<1>5. \A h \in Below(f) : Older(h, g)
  BY <1>2, <1>3 DEF Below, Older
<1>6. Below(f) \union {f} \in SUBSET Below(g)
  BY <1>1, <1>5 DEF Below
<1>7. Cardinality(Below(f) \union {f}) = Index(f) + 1
  <2>1. IsFiniteSet(Below(f)) /\ Index(f) = Cardinality(Below(f))
    BY BelowFinite
  <2> QED
    BY <1>4, <2>1, FS_AddElement
<1>8. Cardinality(Below(f) \union {f}) <= Index(g)
  BY <1>6, BelowFinite, FS_Subset
<1> QED
  BY <1>7, <1>8, BelowFinite

LEMMA OneOlder ==
  ASSUME FilesInv, TypeInv, NEW f \in dir, NEW g \in dir
  PROVE  f = g \/ Older(f, g) \/ Older(g, f)
<1>1. f.time \in Nat /\ g.time \in Nat /\ f.id \in Nat /\ g.id \in Nat
  BY FileNumbers
<1> QED
  BY <1>1 DEF FilesInv, Older

LEMMA IndexDistinct ==
  ASSUME FilesInv, TypeInv, NEW t, NEW f \in OfType(t, dir), NEW g \in OfType(t, dir),
         Index(f) = Index(g)
  PROVE  f = g
<1>1. f \in dir /\ g \in dir
  BY DEF OfType
<1>2. Index(f) \in Nat /\ Index(g) \in Nat
  BY BelowFinite
<1> QED
  BY <1>1, <1>2, OneOlder, OlderIndex

(* Files of distinct indexes within an interval are as many as it holds.   *)
LEMMA IndexInterval ==
  ASSUME FilesInv, TypeInv, NEW t, NEW a \in Int, NEW b \in Int,
         NEW F \in SUBSET OfType(t, dir), \A f \in F : Index(f) \in a .. b
  PROVE  IsFiniteSet(F) /\ Cardinality(F) <= Cardinality(a .. b)
<1> DEFINE rank == [f \in F |-> Index(f)]
<1>1. rank \in [F -> a .. b]
  OBVIOUS
<1>2. \A f, g \in F : rank[f] = rank[g] => f = g
  BY IndexDistinct
<1>3. rank \in Injection(F, a .. b)
  BY <1>1, <1>2, Fun_IsInj
<1> QED
  BY <1>3, FS_Interval, FS_Injection

(* The newest files of a type: all but n of them.                          *)
Newest(t, n) == {f \in OfType(t, dir) : Index(f) >= n}

LEMMA NewestCount ==
  ASSUME FilesInv, TypeInv, NEW t, NEW n \in 0 .. Count(t)
  PROVE  IsFiniteSet(Newest(t, n)) /\ Cardinality(Newest(t, n)) = Count(t) - n
<1> DEFINE S == OfType(t, dir)
<1> DEFINE H == Newest(t, n)
<1> DEFINE L == S \ H
<1>1. Count(t) \in Nat /\ n \in Nat /\ IsFiniteSet(S) /\ Count(t) = Cardinality(S)
  BY TypeFinite DEF Count
<1>2. \A f \in S : Index(f) \in Nat /\ Index(f) < Count(t)
  BY BelowFinite, IndexBelow
<1>3. H \in SUBSET S /\ L \in SUBSET S
  BY DEF Newest
<1>4. \A f \in H : Index(f) \in n .. Count(t) - 1
  BY <1>1, <1>2 DEF Newest
<1>5. \A f \in L : Index(f) \in 0 .. n - 1
  BY <1>1, <1>2 DEF Newest
<1> HIDE DEF L, H
<1>6. IsFiniteSet(H) /\ Cardinality(H) <= Count(t) - n /\ Cardinality(H) \in Nat
  <2>1. PICK a \in Int, b \in Int : a = n /\ b = Count(t) - 1
    BY <1>1
  <2> HIDE <2>1
  <2>2. \A f \in H : Index(f) \in a .. b
    BY <1>1, <1>4, <2>1
  <2>3. IsFiniteSet(H) /\ Cardinality(H) <= Cardinality(a .. b)
    BY <1>3, <2>2, IndexInterval
  <2>4. Cardinality(a .. b) = IF a > b THEN 0 ELSE b - a + 1
    BY FS_Interval
  <2>5. Cardinality(a .. b) = Count(t) - n
    BY <1>1, <2>1, <2>4
  <2> QED
    BY <2>3, <2>5, FS_CardinalityType
<1>7. IsFiniteSet(L) /\ Cardinality(L) <= n /\ Cardinality(L) \in Nat
  <2>1. IsFiniteSet(L) /\ Cardinality(L) <= Cardinality(0 .. n - 1)
    BY <1>1, <1>3, <1>5, IndexInterval
  <2>2. Cardinality(0 .. n - 1) = n
    BY <1>1, FS_Interval
  <2> QED
    BY <2>1, <2>2, FS_CardinalityType
<1>8. Cardinality(L) = Cardinality(S) - Cardinality(S \cap H)
  BY <1>1, FS_Difference DEF L
<1>9. S \cap H = H
  BY <1>3
<1> QED
  BY <1>1, <1>6, <1>7, <1>8, <1>9 DEF H

(* The newest files of a type that has more than its limit are as many as  *)
(* the limit allows, and they are not in excess.                           *)
LEMMA LimitType == \A t : Limit(t) \in Nat
BY ConstantsAssumption DEF Limit

LEMMA NewestKept ==
  ASSUME FilesInv, TypeInv, NEW t, Limit(t) <= Count(t)
  PROVE  /\ OfType(t, dir) \ Excess(t) = Newest(t, Count(t) - Limit(t))
         /\ IsFiniteSet(Newest(t, Count(t) - Limit(t)))
         /\ Cardinality(Newest(t, Count(t) - Limit(t))) = Limit(t)
<1> PICK n : n = Count(t) - Limit(t)
  OBVIOUS
<1>1. Count(t) \in Nat /\ Limit(t) \in Nat
  BY TypeFinite, LimitType
<1>2. n \in 0 .. Count(t) /\ Count(t) - n = Limit(t)
  BY <1>1
<1>3. IsFiniteSet(Newest(t, n)) /\ Cardinality(Newest(t, n)) = Limit(t)
  BY <1>2, NewestCount
<1>4. \A f \in OfType(t, dir) : Index(f) \in Nat
  BY BelowFinite
<1>5. OfType(t, dir) \ Excess(t) = Newest(t, n)
  BY <1>1, <1>2, <1>4 DEF Newest, Excess
<1> QED
  BY <1>3, <1>5

-----------------------------------------------------------------------------
(* The steps that change the directory.                                    *)

(* The files that a renaming makes of the old ones.                        *)
LEMMA RenameMap ==
  ASSUME TypeInv, RenameOldLogs
  PROVE  \E m : /\ m \in Surjection(dir, dir')
                /\ \A f \in dir : /\ m[f].time = f.time /\ m[f].id = f.id
                                  /\ m[f] = f \/ m[f].typed
                                  /\ f.typed => m[f] = f
<1>1. PICK renamed \in SUBSET {f \in dir : ~f.typed} :
        dir' = (dir \ renamed) \union {[f EXCEPT !.typed = TRUE] : f \in renamed}
  BY DEF RenameOldLogs
<1> DEFINE m == [f \in dir |-> IF f \in renamed THEN [f EXCEPT !.typed = TRUE] ELSE f]
<1>2. \A f \in Files : LET g == [f EXCEPT !.typed = TRUE] IN
                         g.time = f.time /\ g.id = f.id /\ g.typed
  BY DEF Files
<1>3. dir \subseteq Files
  BY DEF TypeInv, TypeOK, FilesType
<1>4. ASSUME NEW f \in dir
      PROVE  /\ m[f].time = f.time /\ m[f].id = f.id /\ (m[f] = f \/ m[f].typed)
             /\ f.typed => m[f] = f
             /\ m[f] \in dir'
  <2>1. CASE f \in renamed
    <3>1. m[f] = [f EXCEPT !.typed = TRUE] /\ ~f.typed /\ m[f] \in dir'
      BY <1>1, <2>1
    <3> QED
      BY <1>2, <1>3, <3>1
  <2>2. CASE f \notin renamed
    BY <1>1, <2>2
  <2> QED
    BY <2>1, <2>2
<1>5. ASSUME NEW g \in dir'
      PROVE  \E f \in dir : m[f] = g
  <2>1. CASE g \in dir \ renamed
    BY <2>1
  <2>2. CASE g \notin dir \ renamed
    <3>1. PICK f \in renamed : g = [f EXCEPT !.typed = TRUE]
      BY <1>1, <2>2
    <3> QED
      BY <3>1
  <2> QED
    BY <2>1, <2>2
<1>6. m \in [dir -> dir']
  BY <1>4
<1> HIDE DEF m
<1>7. m \in Surjection(dir, dir')
  BY <1>5, <1>6, Fun_IsSurj
<1> QED
  BY <1>4, <1>7

(* A file of the time and the elog that are at hand is the one that is     *)
(* opened.                                                                 *)
LEMMA SameFile ==
  ASSUME TypeInv, FilesInv, cur \in Elogs, NEW f \in dir, f.time = clock, f.id = cur
  PROVE  f = FileOf(cur) \/ f = Truncated(FileOf(cur))
<1>1. f \in Files /\ f.typed
  BY ConstantsAssumption DEF TypeInv, TypeOK, FilesType, FilesInv
<1>2. f = [time |-> clock, id |-> cur, typed |-> TRUE, whole |-> f.whole]
  BY <1>1 DEF Files
<1>3. f.whole = TRUE \/ f.whole = FALSE
  BY <1>1 DEF Files
<1> PICK u : u = Truncated(FileOf(cur))
  OBVIOUS
<1>4. u \in Files /\ u.time = clock /\ u.id = cur /\ u.typed /\ u.whole = FALSE
  BY FileType
<1>5. u = [time |-> clock, id |-> cur, typed |-> TRUE, whole |-> FALSE]
  BY <1>4 DEF Files
<1> QED
  BY <1>2, <1>3, <1>5 DEF FileOf

(* What a save, whole or not, makes of the directory.                      *)
LEMMA SaveDir ==
  ASSUME IInv, TypeInv, FilesInv, SaveElog \/ SaveFails
  PROVE  /\ cur \in Elogs
         /\ FilesInv'
         /\ \E x : /\ x.time = clock /\ x.id = cur /\ x.typed
                   /\ dir' \subseteq dir \union {x}
                   /\ \A f \in dir : f \in dir' \/ (f.typed /\ f.time = x.time /\ f.id = x.id /\ x \in dir')
<1> PICK n : n = FileOf(cur)
  OBVIOUS
<1> PICK u : u = Truncated(FileOf(cur))
  OBVIOUS
<1>1. cur \in Elogs
  BY DEF SaveElog, SaveFails, Goto, IInv, InHand, Typed
<1>2. /\ n.time = clock /\ n.id = cur /\ n.typed /\ u.time = clock /\ u.id = cur /\ u.typed
      /\ n # u
  BY <1>1, FileType
<1>3. \/ dir' = (dir \ {u}) \union {n}
      \/ dir' = dir
      \/ dir' = dir \union {u} /\ n \notin dir
  BY DEF SaveElog, SaveFails
<1>4. PICK x \in {n, u} :
        /\ dir' \subseteq dir \union {x}
        /\ \A f \in dir : f \in dir' \/ (f = u /\ x = n /\ n \in dir')
        /\ dir' # dir => n \notin dir' \/ u \notin dir'
  <2>1. CASE dir' = (dir \ {u}) \union {n}
    BY <1>2, <2>1
  <2>2. CASE dir' = dir
    BY <2>2
  <2>3. CASE dir' = dir \union {u} /\ n \notin dir
    BY <1>2, <2>3
  <2> QED
    BY <1>3, <2>1, <2>2, <2>3
<1>5. \A f \in dir : f.time = clock /\ f.id = cur => f = n \/ f = u
  BY <1>1, SameFile
<1>6. IsFiniteSet(dir')
  <2>1. IsFiniteSet(dir \union {x})
    BY FS_AddElement DEF FilesInv
  <2> QED
    BY <1>4, <2>1, FS_Subset
<1>7. ASSUME NEW f \in dir', NEW g \in dir', f.time = g.time, f.id = g.id
      PROVE  f = g
  <2>1. CASE f \in dir /\ g \in dir
    BY <1>7, <2>1 DEF FilesInv
  <2>2. CASE ~(f \in dir /\ g \in dir)
    <3>1. dir' # dir /\ f \in dir \union {x} /\ g \in dir \union {x} /\ (f = x \/ g = x)
      BY <1>4, <2>2
    <3>2. f \in {n, u} /\ g \in {n, u}
      BY <1>2, <1>4, <1>5, <1>7, <3>1
    <3> QED
      BY <1>4, <3>1, <3>2
  <2> QED
    BY <2>1, <2>2
<1>8. \A f \in dir' : f.typed \/ f.time = 0
  BY <1>2, <1>4 DEF FilesInv
<1>9. FilesInv'
  BY <1>6, <1>7, <1>8 DEF FilesInv
<1>10. /\ x.time = clock /\ x.id = cur /\ x.typed
       /\ \A f \in dir : f \in dir' \/ (f.typed /\ f.time = x.time /\ f.id = x.id /\ x \in dir')
  BY <1>2, <1>4
<1> QED
  BY <1>1, <1>4, <1>9, <1>10

(* What rotation deletes is in excess, and what is in excess of a type is  *)
(* deleted unless the type is stuck.                                       *)
LEMMA RotateDir ==
  ASSUME TypeInv, FilesInv, RotateLogs
  PROVE  /\ dir' \subseteq dir
         /\ \A f \in dir \ dir' : f \in Excess(Type(f.id))
         /\ \A t \in rotate \ stuck' : dir' \cap Excess(t) = {}
         /\ FilesInv'
<1> DEFINE excess == UNION {Excess(t) : t \in rotate}
<1>1. PICK gone \in SUBSET excess :
        dir' = dir \ gone /\ stuck' = {Type(f.id) : f \in excess \ gone}
  BY DEF RotateLogs
<1>2. \A t : \A f \in Excess(t) : f \in dir /\ Type(f.id) = t
  BY DEF Excess, OfType
<1>3. \A f \in dir \ dir' : f \in Excess(Type(f.id))
  BY <1>1, <1>2
<1>4. ASSUME NEW t \in rotate, t \notin stuck', NEW f \in Excess(t)
      PROVE  f \notin dir'
  <2>1. f \in excess /\ Type(f.id) = t
    BY <1>2
  <2>2. f \in gone
    BY <1>1, <1>4, <2>1
  <2> QED
    BY <1>1, <2>2
<1>5. dir' \in SUBSET dir
  BY <1>1
<1>6. IsFiniteSet(dir')
  BY <1>5, FS_Subset DEF FilesInv
<1>7. FilesInv'
  BY <1>5, <1>6 DEF FilesInv
<1> QED
  BY <1>3, <1>4, <1>5, <1>7

LEMMA FilesNext ==
  ASSUME IInv, TypeInv, FilesInv, [Next]_vars
  PROVE  FilesInv'
<1>1. CASE RenameOldLogs
  <2>1. PICK m : /\ m \in Surjection(dir, dir')
                 /\ \A f \in dir : m[f].time = f.time /\ m[f].id = f.id /\ (m[f] = f \/ m[f].typed)
    BY <1>1, RenameMap
  <2>2. IsFiniteSet(dir')
    BY <2>1, FS_Surjection DEF FilesInv
  <2>3. \A g \in dir' : \E f \in dir : m[f] = g
    BY <2>1 DEF Surjection
  <2>4. \A f, g \in dir' : f.time = g.time /\ f.id = g.id => f = g
    BY <2>1, <2>3 DEF FilesInv
  <2>5. \A f \in dir' : f.typed \/ f.time = 0
    BY <2>1, <2>3 DEF FilesInv
  <2> QED
    BY <2>2, <2>4, <2>5 DEF FilesInv
<1>2. CASE SaveElog \/ SaveFails
  BY <1>2, SaveDir
<1>3. CASE RotateLogs
  BY <1>3, RotateDir
<1>4. CASE UNCHANGED dir
  BY <1>4 DEF FilesInv
<1>5. \/ RenameOldLogs \/ SaveElog \/ SaveFails \/ RotateLogs \/ UNCHANGED dir
  BY DEF Next, Daemon, Raise, Tick, Crash, Scan, PickElog, PickElogAnd, AckElog, AckFails,
     CheckPlatformDump, Poll, Restart, vars
<1> QED
  BY <1>1, <1>2, <1>3, <1>4, <1>5

LEMMA FilesInit == Init => FilesInv
<1> SUFFICES ASSUME Init PROVE FilesInv
  OBVIOUS
<1> DEFINE old == [e \in OldFiles |-> [time |-> 0, id |-> e, typed |-> FALSE, whole |-> TRUE]]
<1>1. dir = {old[e] : e \in OldFiles}
  BY DEF Init
<1>2. \A e \in OldFiles : old[e].time = 0 /\ old[e].id = e
  OBVIOUS
<1>3. old \in [OldFiles -> dir] /\ \A f \in dir : \E e \in OldFiles : old[e] = f
  BY <1>1
<1> HIDE DEF old
<1>4. old \in Surjection(OldFiles, dir)
  BY <1>3, Fun_IsSurj
<1>5. IsFiniteSet(dir)
  BY <1>4, FS_Surjection, ConstantsAssumption
<1> QED
  BY <1>2, <1>3, <1>5 DEF FilesInv

-----------------------------------------------------------------------------
(* The limits.                                                             *)

LEMMA LimitsNext ==
  ASSUME IInv, TypeInv, FilesInv, WithinLimits, [Next]_vars
  PROVE  WithinLimits'
<1>1. CASE RotateLogs
  <2>1. ASSUME NEW t \in rotate \ stuck'
        PROVE  Count(t)' <= Limit(t)
    <3>1. OfType(t, dir') \in SUBSET (OfType(t, dir) \ Excess(t))
      BY <1>1, RotateDir DEF OfType
    <3>2. IsFiniteSet(OfType(t, dir)) /\ Count(t) \in Nat /\ Limit(t) \in Nat
      BY TypeFinite, LimitType
    <3>3. Count(t)' = Cardinality(OfType(t, dir'))
      BY DEF Count
    <3>4. CASE Limit(t) <= Count(t)
      <4>1. /\ OfType(t, dir') \in SUBSET Newest(t, Count(t) - Limit(t))
            /\ IsFiniteSet(Newest(t, Count(t) - Limit(t)))
            /\ Cardinality(Newest(t, Count(t) - Limit(t))) = Limit(t)
        BY <3>1, <3>4, NewestKept
      <4> QED
        BY <3>3, <4>1, FS_Subset
    <3>5. CASE Count(t) < Limit(t)
      <4>1. OfType(t, dir') \in SUBSET OfType(t, dir)
        BY <3>1
      <4>2. Cardinality(OfType(t, dir')) <= Count(t) /\ Cardinality(OfType(t, dir')) \in Nat
        BY <3>2, <4>1, FS_Subset, FS_CardinalityType DEF Count
      <4> QED
        BY <3>2, <3>3, <3>5, <4>2
    <3> QED
      BY <3>2, <3>4, <3>5
  <2>2. rotate' = rotate
    BY <1>1 DEF RotateLogs
  <2> QED
    BY <2>1, <2>2 DEF WithinLimits
<1>2. CASE UNCHANGED <<dir, rotate, stuck>> /\ (pc' \in {"dump", "poll"} => pc \in {"dump", "poll"})
  BY <1>2 DEF WithinLimits, Count
<1>3. CASE pc' \notin {"dump", "poll"}
  BY <1>3 DEF WithinLimits
<1>4. \/ RotateLogs \/ pc' \notin {"dump", "poll"}
      \/ UNCHANGED <<dir, rotate, stuck>> /\ (pc' \in {"dump", "poll"} => pc \in {"dump", "poll"})
  <2>1. CASE \/ \E e \in Elogs : Raise(e)
             \/ Tick \/ CheckPlatformDump \/ UNCHANGED vars
    BY <2>1 DEF Raise, Tick, CheckPlatformDump, Goto, vars, daemon, fate
  <2>2. CASE \/ Crash \/ RenameOldLogs \/ Scan \/ PickElog \/ SaveElog \/ SaveFails \/ AckElog
             \/ AckFails \/ Poll \/ Restart
    BY <2>2 DEF Crash, RenameOldLogs, Scan, PickElog, PickElogAnd, SaveElog, SaveFails, AckElog,
       AckFails, Poll, Restart, Goto
  <2> QED
    BY <2>1, <2>2 DEF Next, Daemon
<1> QED
  BY <1>1, <1>2, <1>3, <1>4

-----------------------------------------------------------------------------
(* The copies of an elog.                                                  *)

Copies(e) == {f \in dir : f.id = e}

(* Every copy but one comes from an old version, from an acknowledgement   *)
(* that failed or from a death; the one is there when the elog has been    *)
(* saved and waits for its acknowledgement, or has had it.                 *)
Old(e)   == IF e \in OldFiles THEN 1 ELSE 0
Spare(e) == IF (e \in raised /\ e \notin held) \/ (pc = "ack" /\ cur = e) THEN 1 ELSE 0

CopiesInv ==
  \A e \in Elogs : Cardinality(Copies(e)) <= unacked[e] + crashes + Old(e) + Spare(e)

LEMMA CopiesFinite ==
  ASSUME FilesInv, NEW e
  PROVE  IsFiniteSet(Copies(e)) /\ Cardinality(Copies(e)) \in Nat
<1>1. Copies(e) \in SUBSET dir
  BY DEF Copies
<1>2. IsFiniteSet(Copies(e))
  BY <1>1, FS_Subset DEF FilesInv
<1> QED
  BY <1>2, FS_CardinalityType

LEMMA CopiesInit == Init => CopiesInv
<1> SUFFICES ASSUME Init, NEW e \in Elogs
             PROVE  Cardinality(Copies(e)) <= unacked[e] + crashes + Old(e) + Spare(e)
  BY DEF CopiesInv
<1>1. unacked[e] = 0 /\ crashes = 0 /\ Spare(e) = 0
  BY DEF Init, Spare
<1> PICK x : x = [time |-> 0, id |-> e, typed |-> FALSE, whole |-> TRUE]
  OBVIOUS
<1>2. ASSUME NEW f \in Copies(e)
      PROVE  f = x /\ e \in OldFiles
  <2>1. PICK o \in OldFiles : f = [time |-> 0, id |-> o, typed |-> FALSE, whole |-> TRUE]
    BY DEF Copies, Init
  <2>2. o = e
    BY <2>1 DEF Copies
  <2> QED
    BY <2>1, <2>2
<1>3. CASE e \in OldFiles
  <2>1. Copies(e) \in SUBSET {x}
    BY <1>2
  <2>2. IsFiniteSet({x}) /\ Cardinality({x}) = 1
    BY FS_Singleton
  <2>3. Cardinality(Copies(e)) <= 1
    BY <2>1, <2>2, FS_Subset
  <2> QED
    BY <1>1, <1>3, <2>3 DEF Old
<1>4. CASE e \notin OldFiles
  <2>1. Copies(e) = {}
    BY <1>2, <1>4
  <2>2. Cardinality(Copies(e)) = 0
    BY <2>1, FS_EmptySet
  <2> QED
    BY <1>1, <1>4, <2>2 DEF Old
<1> QED
  BY <1>3, <1>4

LEMMA CopiesNext ==
  ASSUME IInv, TypeInv, FilesInv, FilesInv', CopiesInv, [Next]_vars
  PROVE  CopiesInv'
<1> SUFFICES ASSUME NEW e \in Elogs
             PROVE  Cardinality(Copies(e)') <= unacked'[e] + crashes' + Old(e) + Spare(e)'
  BY DEF CopiesInv, Old
<1> PICK c : c = Cardinality(Copies(e))
  OBVIOUS
<1> PICK n : n = Cardinality(Copies(e)')
  OBVIOUS
<1>1. c \in Nat /\ n \in Nat /\ unacked[e] \in Nat /\ crashes \in Nat /\ Old(e) \in Nat
  <2>1. c \in Nat /\ IsFiniteSet(Copies(e))
    BY CopiesFinite
  <2>2. n \in Nat
    <3>1. Copies(e)' \in SUBSET dir'
      BY DEF Copies
    <3>2. IsFiniteSet(dir')
      BY DEF FilesInv
    <3> QED
      BY <3>1, <3>2, FS_Subset, FS_CardinalityType
  <2>3. unacked[e] \in 0 .. MaxFaults /\ crashes \in 0 .. MaxCrashes
    BY DEF TypeInv, TypeOK, BoundsType
  <2> QED
    BY <2>1, <2>2, <2>3, ConstantsAssumption DEF Old
<1>2. c <= unacked[e] + crashes + Old(e) + Spare(e)
  BY DEF CopiesInv
<1>3. Spare(e) \in {0, 1} /\ Spare(e)' \in {0, 1}
  BY DEF Spare
<1>4. held \subseteq raised
  BY DEF IInv, Processed
<1>5. dir' \subseteq dir => n <= c
  <2> SUFFICES ASSUME dir' \subseteq dir PROVE n <= c
    OBVIOUS
  <2>1. Copies(e)' \in SUBSET Copies(e)
    BY DEF Copies
  <2> QED
    BY <2>1, CopiesFinite, FS_Subset
<1>6. CASE SaveElog \/ SaveFails
  <2>1. /\ pc = "save" /\ pc' = "ack" /\ cur \in held
        /\ UNCHANGED <<cur, held, raised, unacked, crashes>>
    BY <1>6 DEF SaveElog, SaveFails, Goto, IInv, InHand, bounds
  <2>2. PICK x : x.id = cur /\ dir' \subseteq dir \union {x}
    BY <1>6, SaveDir
  <2>3. CASE e = cur
    <3>1. Copies(e)' \in SUBSET (Copies(e) \union {x})
      BY <2>2 DEF Copies
    <3>2. IsFiniteSet(Copies(e) \union {x}) /\ Cardinality(Copies(e) \union {x}) <= c + 1
      BY <1>1, CopiesFinite, FS_AddElement
    <3>3. Cardinality(Copies(e) \union {x}) \in Nat
      BY <3>2, FS_CardinalityType
    <3>4. n <= c + 1
      BY <1>1, <3>1, <3>2, <3>3, FS_Subset
    <3>5. Spare(e) = 0 /\ Spare(e)' = 1
      BY <2>1, <2>3 DEF Spare
    <3> QED
      BY <1>1, <1>2, <2>1, <3>4, <3>5
  <2>4. CASE e # cur
    <3>1. Copies(e)' \in SUBSET Copies(e)
      BY <2>2, <2>4 DEF Copies
    <3>2. n <= c
      BY <3>1, CopiesFinite, FS_Subset
    <3>3. Spare(e)' = Spare(e)
      BY <2>1, <2>4 DEF Spare
    <3> QED
      BY <1>1, <1>2, <1>3, <2>1, <3>2, <3>3
  <2> QED
    BY <2>3, <2>4
<1>7. CASE AckElog
  <2>1. pc = "ack" /\ cur \in held /\ held' = held \ {cur} /\ UNCHANGED <<dir, raised, unacked, crashes>>
    BY <1>7 DEF AckElog, Goto, IInv, InHand, bounds, fate
  <2>2. Spare(e) <= Spare(e)'
    BY <1>4, <2>1 DEF Spare
  <2> QED
    BY <1>1, <1>2, <1>3, <1>5, <2>1, <2>2
<1>8. CASE AckFails
  <2>1. pc = "ack" /\ unacked' = [unacked EXCEPT ![cur] = @ + 1]
        /\ UNCHANGED <<dir, raised, held, crashes>>
    BY <1>8 DEF AckFails, Goto
  <2>2. unacked \in [Elogs -> 0 .. MaxFaults]
    BY DEF TypeInv, TypeOK, BoundsType
  <2>3. CASE e = cur
    <3>1. unacked'[e] = unacked[e] + 1
      BY <2>1, <2>2, <2>3
    <3> QED
      BY <1>1, <1>2, <1>3, <1>5, <2>1, <3>1
  <2>4. CASE e # cur
    <3>1. unacked'[e] = unacked[e]
      BY <2>1, <2>2, <2>4
    <3>2. Spare(e) <= Spare(e)'
      BY <2>1, <2>4 DEF Spare
    <3> QED
      BY <1>1, <1>2, <1>3, <1>5, <2>1, <3>1, <3>2
  <2> QED
    BY <2>3, <2>4
<1>9. CASE Crash
  <2>1. crashes' = crashes + 1 /\ UNCHANGED <<dir, unacked>>
    BY <1>9 DEF Crash
  <2> QED
    BY <1>1, <1>2, <1>3, <1>5, <2>1
<1>10. CASE RenameOldLogs
  <2>1. PICK m : m \in Surjection(dir, dir') /\ \A f \in dir : m[f].id = f.id
    BY <1>10, RenameMap
  <2> DEFINE h == [f \in Copies(e) |-> m[f]]
  <2>2. h \in [Copies(e) -> Copies(e)']
    BY <2>1 DEF Copies, Surjection
  <2>3. \A g \in Copies(e)' : \E f \in Copies(e) : h[f] = g
    BY <2>1 DEF Copies, Surjection
  <2> HIDE DEF h
  <2>4. h \in Surjection(Copies(e), Copies(e)')
    BY <2>2, <2>3, Fun_IsSurj
  <2>5. n <= c
    BY <2>4, CopiesFinite, FS_Surjection
  <2>6. UNCHANGED <<unacked, crashes>> /\ Spare(e)' = Spare(e)
    BY <1>10 DEF RenameOldLogs, Goto, Spare, bounds, fate
  <2> QED
    BY <1>1, <1>2, <1>3, <2>5, <2>6
<1>11. CASE /\ dir' \subseteq dir /\ UNCHANGED <<unacked, crashes>>
            /\ Spare(e)' = Spare(e)
  BY <1>1, <1>2, <1>3, <1>5, <1>11
<1>12. CASE RotateLogs \/ \E a \in Elogs : Raise(a)
  <2>1. dir' \subseteq dir
    BY <1>12, RotateDir DEF Raise
  <2>2. UNCHANGED <<unacked, crashes>>
    BY <1>12 DEF RotateLogs, Raise, bounds, fate
  <2>3. Spare(e)' = Spare(e)
    BY <1>4, <1>12 DEF RotateLogs, Raise, Spare, Goto, daemon
  <2> QED
    BY <1>11, <2>1, <2>2, <2>3
<1>13. CASE Tick \/ Scan \/ PickElog \/ CheckPlatformDump \/ Poll \/ Restart \/ UNCHANGED vars
  <2>1. UNCHANGED <<dir, unacked, crashes, held, raised>>
    BY <1>13 DEF Tick, Scan, PickElog, PickElogAnd, CheckPlatformDump, Poll, Restart, vars, bounds, fate
  <2>2. (pc # "ack" /\ pc' # "ack") \/ UNCHANGED <<pc, cur>>
    BY <1>13 DEF Tick, Scan, PickElog, PickElogAnd, CheckPlatformDump, Poll, Restart, Goto, vars, daemon
  <2>3. Spare(e)' = Spare(e)
    BY <2>1, <2>2 DEF Spare
  <2> QED
    BY <1>11, <2>1, <2>3
<1> QED
  BY <1>6, <1>7, <1>8, <1>9, <1>10, <1>12, <1>13 DEF Next, Daemon

-----------------------------------------------------------------------------
(* What rotation takes away.                                               *)

LEMMA DeletedIsOld ==
  ASSUME TypeInv, FilesInv, RotateLogs, NEW f \in dir \ dir'
  PROVE  Cardinality({g \in OfType(Type(f.id), dir') : Older(f, g)}) >= Limit(Type(f.id))
<1> PICK t : t = Type(f.id)
  OBVIOUS
<1> DEFINE H == Newest(t, Count(t) - Limit(t))
<1> DEFINE M == {g \in OfType(t, dir') : Older(f, g)}
<1>1. f \in Excess(t)
  BY RotateDir
<1>2. f \in OfType(t, dir) /\ Index(f) \in Nat /\ Count(t) \in Nat /\ Limit(t) \in Nat
      /\ Index(f) < Count(t) - Limit(t)
  BY <1>1, BelowFinite, TypeFinite, LimitType DEF Excess
<1>3. Limit(t) <= Count(t)
  BY <1>2
<1>4. H = OfType(t, dir) \ Excess(t) /\ Cardinality(H) = Limit(t)
  BY <1>3, NewestKept
<1>5. ASSUME NEW g \in H
      PROVE  g \in M
  <2>1. g \in OfType(t, dir) /\ Index(g) \in Nat /\ Index(g) > Index(f)
    BY <1>2, BelowFinite DEF Newest
  <2>2. g \in dir /\ f \in dir /\ Type(g.id) = t /\ g.typed /\ f # g
    BY <1>2, <2>1 DEF OfType
  <2>3. ~Older(g, f)
    <3> SUFFICES ASSUME Older(g, f) PROVE FALSE
      OBVIOUS
    <3>1. Index(g) < Index(f)
      BY <1>2, <2>1, OlderIndex
    <3> QED
      BY <1>2, <2>1, <3>1
  <2>4. Older(f, g)
    BY <2>2, <2>3, OneOlder
  <2>5. g \in dir'
    BY <1>4, <2>2, RotateDir
  <2> QED
    BY <2>2, <2>4, <2>5 DEF OfType
<1>6. IsFiniteSet(M)
  <2>1. M \in SUBSET dir
    BY RotateDir DEF OfType
  <2> QED
    BY <2>1, FS_Subset DEF FilesInv
<1> HIDE DEF H, M
<1>7. H \in SUBSET M
  BY <1>5
<1>8. Cardinality(H) <= Cardinality(M)
  BY <1>6, <1>7, FS_Subset
<1>9. Cardinality(M) >= Limit(t)
  BY <1>2, <1>4, <1>6, <1>8, FS_CardinalityType
<1> QED
  BY <1>9 DEF M

KeepStep ==
  \A f \in dir :
    \/ ~f.typed
    \/ \E g \in dir' : SameName(f, g)
    \/ Cardinality({g \in OfType(Type(f.id), dir') : Older(f, g)}) >= Limit(Type(f.id))

LEMMA StepKeeps ==
  ASSUME IInv, TypeInv, FilesInv, [Next]_vars
  PROVE  KeepStep
<1>1. CASE RenameOldLogs
  <2>1. PICK m : m \in Surjection(dir, dir') /\ \A f \in dir : f.typed => m[f] = f
    BY <1>1, RenameMap
  <2>2. \A f \in dir : ~f.typed \/ f \in dir'
    BY <2>1 DEF Surjection
  <2> QED
    BY <2>2 DEF KeepStep, SameName
<1>2. CASE SaveElog \/ SaveFails
  <2>1. PICK x : /\ x.typed
                 /\ \A f \in dir : f \in dir' \/ (f.typed /\ f.time = x.time /\ f.id = x.id /\ x \in dir')
    BY <1>2, SaveDir
  <2>2. ASSUME NEW f \in dir
        PROVE  ~f.typed \/ \E g \in dir' : SameName(f, g)
    <3>1. CASE f \in dir'
      BY <3>1 DEF SameName
    <3>2. CASE f \notin dir'
      <4>1. f.typed = TRUE /\ x.typed = TRUE
        BY <2>1, <3>2
      <4> QED
        BY <2>1, <3>2, <4>1 DEF SameName
    <3> QED
      BY <3>1, <3>2
  <2> QED
    BY <2>2 DEF KeepStep
<1>3. CASE RotateLogs
  <2>1. ASSUME NEW f \in dir
        PROVE  \/ \E g \in dir' : SameName(f, g)
               \/ Cardinality({g \in OfType(Type(f.id), dir') : Older(f, g)}) >= Limit(Type(f.id))
    <3>1. CASE f \in dir'
      BY <3>1 DEF SameName
    <3>2. CASE f \notin dir'
      BY <1>3, <3>2, DeletedIsOld
    <3> QED
      BY <3>1, <3>2
  <2> QED
    BY <2>1 DEF KeepStep
<1>4. CASE UNCHANGED dir
  BY <1>4 DEF KeepStep, SameName
<1>5. \/ RenameOldLogs \/ SaveElog \/ SaveFails \/ RotateLogs \/ UNCHANGED dir
  BY DEF Next, Daemon, Raise, Tick, Crash, Scan, PickElog, PickElogAnd, AckElog, AckFails,
     CheckPlatformDump, Poll, Restart, vars
<1> QED
  BY <1>1, <1>2, <1>3, <1>4, <1>5

DirInv == TypeInv /\ FilesInv /\ WithinLimits /\ CopiesInv

LEMMA DirHolds == Spec => []DirInv
<1>1. Init => DirInv
  BY TypeInit, FilesInit, CopiesInit DEF DirInv, WithinLimits, Init
<1>2. IInv /\ DirInv /\ [Next]_vars => DirInv'
  <2> SUFFICES ASSUME IInv, DirInv, [Next]_vars PROVE DirInv'
    OBVIOUS
  <2>1. TypeInv' /\ FilesInv'
    BY TypeNext, FilesNext DEF DirInv
  <2>2. WithinLimits' /\ CopiesInv'
    BY <2>1, LimitsNext, CopiesNext DEF DirInv
  <2> QED
    BY <2>1, <2>2 DEF DirInv
<1> QED
  BY <1>1, <1>2, InvHolds, PTL DEF Spec

(* The output directory is in order, for any elogs, limits, failures and   *)
(* deaths: the types are within their limits when a round ends, no elog    *)
(* has more copies than failures explain, and rotate_logs deletes a file   *)
(* only when as many newer ones of its type remain as its limit allows.    *)
THEOREM DirectoryKept == Spec => DirectoryInOrder
<1>1. IInv /\ DirInv /\ [Next]_vars =>
        \A f \in dir :
          \/ ~f.typed
          \/ \E g \in dir' : SameName(f, g)
          \/ Cardinality({g \in OfType(Type(f.id), dir') : Older(f, g)}) >= Limit(Type(f.id))
  BY StepKeeps DEF DirInv, KeepStep
<1>2. DirInv => TypeOK /\ WithinLimits /\ DuplicatesExplained
  <2> SUFFICES ASSUME DirInv PROVE DuplicatesExplained
    BY DEF DirInv, TypeInv
  <2> SUFFICES ASSUME NEW e \in Elogs
               PROVE  Cardinality({f \in dir : f.id = e}) <= 1 + unacked[e] + crashes + Old(e)
    BY DEF DuplicatesExplained, Old
  <2>1. Cardinality(Copies(e)) <= unacked[e] + crashes + Old(e) + Spare(e)
        /\ Cardinality(Copies(e)) \in Nat
    BY CopiesFinite DEF DirInv, CopiesInv
  <2>2. Spare(e) \in {0, 1} /\ Old(e) \in {0, 1}
    BY DEF Spare, Old
  <2>3. unacked[e] \in Nat /\ crashes \in Nat
    BY ConstantsAssumption DEF DirInv, TypeInv, TypeOK, BoundsType
  <2> QED
    BY <2>1, <2>2, <2>3 DEF Copies
<1> QED
  BY <1>1, <1>2, InvHolds, DirHolds, PTL DEF Spec, DirectoryInOrder, KeepsNewest
=============================================================================

-------------------------------- MODULE Prrn --------------------------------
(***************************************************************************)
(* rtas_errd, prrn.c: the affinity of processors and memory has changed    *)
(* (a platform resource reassignment notification).                        *)
(*                                                                         *)
(* The daemon asks firmware for the nodes that have changed, copies their  *)
(* properties into the kernel's device tree, and lists in a file those     *)
(* that can be removed and added again.  Then it forks drmgr, which reads  *)
(* that file and deletes it, and does not wait for it: the next            *)
(* notification is handled while drmgr still runs.  The file is named by   *)
(* the second.                                                             *)
(*                                                                         *)
(* Each call to firmware is a step, and so is each property, or piece of   *)
(* one, that a call has returned.  Data are told apart by the version of   *)
(* the node they come from.  Running out of memory is not modelled.        *)
(***************************************************************************)
EXTENDS Integers, Sequences, FiniteSets, Functions

CONSTANTS
  Std,          \* the nodes of the device tree, with kind and drc_index
  MemoryBlocks, \* the memory blocks of the reconfigurable memory
  Properties,   \* the properties of each node, in the order they are returned
  Scopes,       \* what a notification may be about: work areas of entries
  MaxNotices,   \* bound: notifications
  MaxTime,      \* bound: seconds
  MaxFaults     \* bound: failures of a call

(* The list of phandles.  The memory blocks are put before the nodes, and  *)
(* known by their drc_index.  Nothing: the phandle is not in the list.     *)
Nothing == [kind |-> "none", drc |-> 0]
LmbEntry == [kind |-> "LMB", drc |-> 1]
phandle_to_pms(h) ==
  IF h \in MemoryBlocks THEN LmbEntry ELSE IF h \in DOMAIN Std THEN Std[h] ELSE Nothing

(* Operations of rtas_update_nodes: 1 and 3, deletion and addition, are    *)
(* not supported, and nothing is done for them.  One with several operands *)
(* is as many entries of its work area.                                    *)
Update == 2
Phandles == DOMAIN Std \union MemoryBlocks \union {"unknown"}
Entries == [op : 1 .. 4, node : Phandles]

(* A node has no two properties of one name, and only data come in pieces. *)
ASSUME PrrnAssumption ==
  /\ \A h \in DOMAIN Std : Std[h] \in [kind : {"cpu", "memory", "other"}, drc : 0 .. 1]
  /\ DOMAIN Properties = DOMAIN Std
  /\ \A h \in DOMAIN Std :
       /\ Properties[h] \in
            Seq([name : STRING, kind : {"data", "delete", "name"}, chunks : Nat \ {0}])
       /\ \A i, j \in DOMAIN Properties[h] :
            Properties[h][i].name = Properties[h][j].name => i = j
       /\ \A i \in DOMAIN Properties[h] :
            Properties[h][i].kind # "data" => Properties[h][i].chunks = 1
  /\ Scopes \subseteq Seq(Seq(Entries))
  /\ {MaxNotices, MaxTime, MaxFaults} \subseteq Nat

Notices == 1 .. MaxNotices
PropertyNames(h) == {Properties[h][i].name : i \in DOMAIN Properties[h]}

-----------------------------------------------------------------------------
VARIABLES
  scope,    \* what each notification is about
  notices,  \* the notifications 1 .. notices have come
  version,  \* the version of each node in firmware
  devtree,  \* the kernel's device tree
  now,      \* the second
  dir,      \* the file of each second, or 0; files are numbered by notifications
  lines,    \* the lines of each file
  daemon,
  drmgr,    \* the drmgr of each notification
  faults,
  (* Kept for the properties only: *)
  wanted,   \* the version that each notification is about, for each node
  done,     \* what drmgr has handled
  early,    \* what drmgr has handled before the daemon copied its properties
  torn,     \* nodes that changed while a property of theirs was copied
  excused   \* notifications with a failure, or whose file was not their own

reassigned == <<scope, notices, version>>
disk       == <<dir, lines>>
observed   == <<wanted, done, early, torn, excused>>
prrnVars   == <<reassigned, devtree, now, disk, daemon, drmgr, faults, observed>>

(* The daemon: the notification it is at, its file and the second it is    *)
(* named by, how many work areas firmware has, the one at hand and the     *)
(* entry in it; of the node of that entry, the property and the piece of   *)
(* it that are next, the version that firmware has returned last, and the  *)
(* command under construction with its length.                             *)
NoCommand == [data |-> <<>>, proplen |-> 0]
AtEase == [pc |-> "idle", event |-> 0, file |-> 0, name |-> 0, areas |-> 0, area |-> 0,
           entry |-> 1, prop |-> 1, chunk |-> 1, returned |-> 0, cmd |-> NoCommand]

CallFails == faults < MaxFaults /\ faults' = faults + 1
Excuse == excused' = excused \union {daemon.event}

PrrnInit ==
  /\ scope = [e \in Notices |-> <<>>] /\ notices = 0
  /\ version = [h \in DOMAIN Std |-> 0]
  /\ devtree = [h \in DOMAIN Std |-> [n \in PropertyNames(h) |-> <<>>]]
  /\ now = 0 /\ dir = [t \in 0 .. MaxTime |-> 0] /\ lines = [e \in Notices |-> {}]
  /\ daemon = AtEase /\ drmgr = [e \in Notices |-> [pc |-> "none", name |-> 0]]
  /\ faults = 0
  /\ wanted = [e \in Notices |-> [h \in DOMAIN Std |-> 0]]
  /\ done = {} /\ early = {} /\ torn = {} /\ excused = {}

-----------------------------------------------------------------------------
(* Firmware, and the time.                                                 *)

Touched(s) ==
  {h \in DOMAIN Std : \E i \in DOMAIN s : \E k \in DOMAIN s[i] : s[i][k] = [op |-> Update, node |-> h]}

Notify ==
  /\ notices < MaxNotices /\ notices' = notices + 1
  /\ \E s \in Scopes :
       /\ scope' = [scope EXCEPT ![notices + 1] = s]
       /\ version' = [h \in DOMAIN Std |->
            IF h \in Touched(s) THEN notices + 1 ELSE version[h]]
  /\ wanted' = [wanted EXCEPT ![notices + 1] = version']
  /\ UNCHANGED <<devtree, now, disk, daemon, drmgr, faults, done, early, torn, excused>>

Tick ==
  /\ now < MaxTime /\ now' = now + 1
  /\ UNCHANGED <<reassigned, devtree, disk, daemon, drmgr, faults, observed>>

-----------------------------------------------------------------------------
(* handle_prrn_event and devtree_update.                                   *)

Pending(e) == drmgr[e].pc # "none"
UserOf(t)  == {e \in Notices : Pending(e) /\ drmgr[e].name = t}

(* The file of this second is created, or emptied if there is one.         *)
OpenLog ==
  /\ daemon.pc = "idle" /\ daemon.event < notices
  /\ LET e == daemon.event + 1
         f == IF dir[now] = 0 THEN e ELSE dir[now]
     IN
     /\ dir' = [dir EXCEPT ![now] = f]
     /\ lines' = [lines EXCEPT ![f] = {}]
     /\ daemon' = [AtEase EXCEPT !.pc = "nodes", !.event = e, !.file = f, !.name = now,
                                 !.areas = Len(scope[e])]
     /\ excused' = excused \union (IF UserOf(now) = {} THEN {} ELSE {e} \union UserOf(now))
  /\ UNCHANGED <<reassigned, devtree, now, drmgr, faults, wanted, done, early, torn>>

OpenFails ==
  /\ daemon.pc = "idle" /\ daemon.event < notices /\ CallFails
  /\ daemon' = [AtEase EXCEPT !.event = daemon.event + 1]
  /\ excused' = excused \union {daemon.event + 1}
  /\ UNCHANGED <<reassigned, devtree, now, disk, drmgr, wanted, done, early, torn>>

(* The entries of the work area at hand that have not been handled yet.    *)
Area == scope[daemon.event][daemon.area]
HasEntry == daemon.area > 0 /\ daemon.entry <= Len(Area)
Entry == Area[daemon.entry]

(* rtas_update_nodes, until it returns 0.  After an error, or if the list  *)
(* of phandles cannot be made, what has been done is handed to drmgr.      *)
UpdateNodes ==
  /\ daemon.pc = "nodes" /\ ~HasEntry /\ daemon.area < daemon.areas
  /\ daemon' = [daemon EXCEPT !.area = @ + 1, !.entry = 1]
  /\ UNCHANGED <<reassigned, devtree, now, disk, drmgr, faults, observed>>

UpdateNodesFails ==
  /\ daemon.pc = "nodes" /\ ~HasEntry /\ daemon.area < daemon.areas /\ CallFails
  /\ daemon' = [daemon EXCEPT !.areas = daemon.area]
  /\ Excuse
  /\ UNCHANGED <<reassigned, devtree, now, disk, drmgr, wanted, done, early, torn>>

(* update_nodes: a line is written for what has a drc_index, before its    *)
(* properties are copied; a memory block has no properties of its own.     *)
Skipped(h) == phandle_to_pms(h).kind \in {"none", "LMB"}
Line(e, h) == IF phandle_to_pms(h).drc = 0 THEN {} ELSE {<<e, h>>}
NextEntry == [daemon EXCEPT !.pc = "nodes", !.entry = @ + 1, !.cmd = NoCommand]

(* Nobody looks at what write_prrn_log returns: a line that cannot be      *)
(* written is missing, and all goes on.  One that is cut short is not      *)
(* modelled.                                                               *)
write_prrn_log(line) ==
  \/ lines' = [lines EXCEPT ![daemon.file] = @ \union line] /\ UNCHANGED <<faults, excused>>
  \/ line # {} /\ CallFails /\ Excuse /\ UNCHANGED lines

update_node ==
  /\ daemon.pc = "nodes" /\ HasEntry /\ Entry.op = Update
  /\ write_prrn_log(Line(daemon.event, Entry.node))
  /\ daemon' = IF Skipped(Entry.node) THEN NextEntry
               ELSE [daemon EXCEPT !.pc = "call", !.prop = 1, !.chunk = 1]
  /\ UNCHANGED <<reassigned, devtree, now, dir, drmgr, wanted, done, early, torn>>

Unsupported ==
  /\ daemon.pc = "nodes" /\ HasEntry /\ Entry.op # Update
  /\ daemon' = NextEntry
  /\ UNCHANGED <<reassigned, devtree, now, disk, drmgr, faults, observed>>

-----------------------------------------------------------------------------
(* update_properties.                                                      *)

(* A call of rtas_update_properties returns some of the properties of the  *)
(* node.                                                                   *)
UpdateProperties ==
  /\ daemon.pc = "call"
  /\ daemon' = [daemon EXCEPT !.pc = "properties", !.returned = version[Entry.node]]
  /\ UNCHANGED <<reassigned, devtree, now, disk, drmgr, faults, observed>>

(* An error of firmware ends the node, and what has been put together is   *)
(* discarded; the next node follows all the same.                          *)
UpdatePropertiesFails ==
  /\ daemon.pc = "call" /\ CallFails
  /\ daemon' = NextEntry
  /\ Excuse
  /\ UNCHANGED <<reassigned, devtree, now, disk, drmgr, wanted, done, early, torn>>

(* The kernel takes as much of a command as its length says.               *)
Accepted(node, name, cmd) ==
  IF cmd.proplen > Len(cmd.data) THEN node
  ELSE [node EXCEPT ![name] = SubSeq(cmd.data, 1, cmd.proplen)]

(* A piece that is not the last is appended to the command.                *)
Appended(v) == [data |-> Append(daemon.cmd.data, v), proplen |-> daemon.cmd.proplen + 1]

AtOnce(v, node, p) ==  \* mutant of Taken: a piece is written without the ones before
  IF p.kind = "delete" THEN [node EXCEPT ![p.name] = <<>>]
  ELSE Accepted(node, p.name, [data |-> <<v>>, proplen |-> 1])
Taken(v, node, p) ==
  IF p.kind = "delete" THEN [node EXCEPT ![p.name] = <<>>]
  ELSE Accepted(node, p.name, Appended(v))

(* The command is given to the kernel.  If ofdt cannot be opened or        *)
(* written the device tree keeps what it had; update_properties does not   *)
(* look at the result and goes on, and drmgr will run.                     *)
do_update(h, node) ==
  \/ devtree' = [devtree EXCEPT ![h] = node] /\ UNCHANGED <<faults, excused>>
  \/ CallFails /\ Excuse /\ UNCHANGED devtree

(* A partial property is the last of its work area.                        *)
PartialProperty ==
  /\ daemon.pc = "properties" /\ daemon.prop <= Len(Properties[Entry.node])
  /\ daemon.chunk < Properties[Entry.node][daemon.prop].chunks
  /\ daemon' = [daemon EXCEPT !.pc = "call", !.chunk = @ + 1, !.cmd = Appended(daemon.returned)]
  /\ torn' = IF daemon.cmd.data # <<>> /\ Head(daemon.cmd.data) # daemon.returned
             THEN torn \union {Entry.node} ELSE torn
  /\ UNCHANGED <<reassigned, devtree, now, disk, drmgr, faults, wanted, done, early, excused>>

(* Any other one is written, and may be the last of its work area too.     *)
WholeProperty ==
  /\ daemon.pc = "properties" /\ daemon.prop <= Len(Properties[Entry.node])
  /\ LET p == Properties[Entry.node][daemon.prop] IN
     /\ daemon.chunk = p.chunks
     /\ IF p.kind = "name" THEN UNCHANGED <<devtree, faults, excused>>
        ELSE do_update(Entry.node, Taken(daemon.returned, devtree[Entry.node], p))
  /\ \E next \in {"properties"} \union
                 (IF daemon.prop < Len(Properties[Entry.node]) THEN {"call"} ELSE {}) :
       daemon' = [daemon EXCEPT !.pc = next, !.prop = @ + 1, !.chunk = 1, !.cmd = NoCommand]
  /\ torn' = IF daemon.cmd.data # <<>> /\ Head(daemon.cmd.data) # daemon.returned
             THEN torn \union {Entry.node} ELSE torn
  /\ UNCHANGED <<reassigned, now, disk, drmgr, wanted, done, early>>

(* rtas_update_properties has returned 0.                                  *)
NodeUpdated ==
  /\ daemon.pc = "properties" /\ daemon.prop > Len(Properties[Entry.node])
  /\ daemon' = NextEntry
  /\ UNCHANGED <<reassigned, devtree, now, disk, drmgr, faults, observed>>

-----------------------------------------------------------------------------
(* drmgr.                                                                  *)

AllDone == daemon.pc = "nodes" /\ ~HasEntry /\ daemon.area = daemon.areas
BackToEase == [AtEase EXCEPT !.event = daemon.event]

StartDrmgrOnce ==  \* mutant: not while another drmgr runs
  /\ AllDone
  /\ drmgr' = IF \E e \in Notices : Pending(e) THEN drmgr
              ELSE [drmgr EXCEPT ![daemon.event] = [pc |-> "read", name |-> daemon.name]]
  /\ daemon' = BackToEase
  /\ UNCHANGED <<reassigned, devtree, now, disk, faults, observed>>
StartDrmgr ==
  /\ AllDone
  /\ drmgr' = [drmgr EXCEPT ![daemon.event] = [pc |-> "read", name |-> daemon.name]]
  /\ daemon' = BackToEase
  /\ UNCHANGED <<reassigned, devtree, now, disk, faults, observed>>

(* If fork fails the daemon deletes the file at once ...                   *)
StartDrmgrFails ==
  /\ AllDone /\ CallFails
  /\ dir' = [dir EXCEPT ![daemon.name] = 0]
  /\ daemon' = BackToEase
  /\ excused' = excused \union {daemon.event} \union UserOf(daemon.name)
  /\ UNCHANGED <<reassigned, devtree, now, lines, drmgr, wanted, done, early, torn>>

(* ... but if the child cannot become drmgr it is the child that does,     *)
(* when the daemon may be at the next notification.                        *)
ExecFails(e) ==
  /\ drmgr[e].pc = "read" /\ CallFails
  /\ dir' = [dir EXCEPT ![drmgr[e].name] = 0]
  /\ drmgr' = [drmgr EXCEPT ![e].pc = "none"]
  /\ excused' = excused \union UserOf(drmgr[e].name)
  /\ UNCHANGED <<reassigned, devtree, now, lines, daemon, wanted, done, early, torn>>

(* drmgr reads the file, if there is one ...                               *)
Copying(x) ==
  daemon.pc \in {"call", "properties"} /\ x = <<daemon.event, Entry.node>>

DrmgrReads(e) ==
  /\ drmgr[e].pc = "read"
  /\ LET f == dir[drmgr[e].name] IN
     /\ done' = IF f = 0 THEN done ELSE done \union lines[f]
     /\ early' = IF f = 0 THEN early ELSE early \union {x \in lines[f] : Copying(x)}
  /\ drmgr' = [drmgr EXCEPT ![e].pc = "delete"]
  /\ UNCHANGED <<reassigned, devtree, now, disk, daemon, faults, wanted, torn, excused>>

(* ... and deletes it.                                                     *)
DrmgrDeletes(e) ==
  /\ drmgr[e].pc = "delete"
  /\ dir' = [dir EXCEPT ![drmgr[e].name] = 0]
  /\ drmgr' = [drmgr EXCEPT ![e].pc = "none"]
  /\ UNCHANGED <<reassigned, devtree, now, lines, daemon, faults, observed>>

-----------------------------------------------------------------------------
HandleNotice ==
  \/ OpenLog \/ UpdateNodes \/ update_node \/ Unsupported
  \/ UpdateProperties \/ PartialProperty \/ WholeProperty \/ NodeUpdated \/ StartDrmgr

PrrnNext ==
  \/ Notify \/ Tick
  \/ HandleNotice
  \/ OpenFails \/ UpdateNodesFails \/ UpdatePropertiesFails \/ StartDrmgrFails
  \/ \E e \in Notices : ExecFails(e) \/ DrmgrReads(e) \/ DrmgrDeletes(e)

PrrnSpec == PrrnInit /\ [][PrrnNext]_prrnVars

-----------------------------------------------------------------------------
(* Properties.                                                             *)

(* Every variable has its type.  The daemon writes only to a file that it  *)
(* or an earlier notification of that second made, and a command under     *)
(* construction is as long as its length says.                             *)
PrrnTypeOK ==
  /\ notices \in 0 .. MaxNotices /\ now \in 0 .. MaxTime /\ faults \in 0 .. MaxFaults
  /\ scope \in [Notices -> Scopes \union {<<>>}]
  /\ version \in [DOMAIN Std -> 0 .. notices]
  /\ \A h \in DOMAIN Std : devtree[h] \in [PropertyNames(h) -> Seq(0 .. notices)]
  /\ dir \in [0 .. MaxTime -> 0 .. daemon.event]
  /\ lines \in [Notices -> SUBSET (Notices \X Phandles)]
  /\ daemon.pc \in {"idle", "nodes", "call", "properties"} /\ daemon.event \in 0 .. notices
  /\ daemon.pc # "idle" => daemon.file \in 1 .. daemon.event /\ daemon.name \in 0 .. now
  /\ daemon.pc \in {"call", "properties"} => HasEntry /\ ~Skipped(Entry.node)
  /\ daemon.cmd.proplen = Len(daemon.cmd.data)
  /\ daemon.cmd # NoCommand => daemon.pc \in {"call", "properties"}
  /\ \A e \in Notices : /\ drmgr[e].pc \in {"none", "read", "delete"}
                        /\ Pending(e) => e <= daemon.event /\ drmgr[e].name \in 0 .. now

(* update_properties: a property in the device tree is whole and of one    *)
(* version, unless its node has changed between two calls for it.          *)
WholeProperties ==
  \A h \in DOMAIN Std \ torn : \A i \in DOMAIN Properties[h] :
    LET p == Properties[h][i]
        value == devtree[h][p.name]
    IN  value # <<>> => Len(value) = p.chunks /\ Cardinality(Range(value)) = 1

PrrnAtRest ==
  daemon.pc = "idle" /\ daemon.event = notices /\ \A e \in Notices : ~Pending(e)

(* The properties of a node are those that notification e was about, or    *)
(* newer ones.                                                             *)
UpToDate(e, h) ==
  \A i \in DOMAIN Properties[h] : Properties[h][i].kind = "data" =>
    LET value == devtree[h][Properties[h][i].name]
    IN  value # <<>> /\ \A j \in DOMAIN value : value[j] >= wanted[e][h]

(* handle_prrn_event: once all is done, every node of a notification has   *)
(* the properties that the notification was about, or newer ones, drmgr    *)
(* has handled those that have a drc_index, and no file is left.  The      *)
(* exceptions are notifications with a failing call (of firmware, ofdt,    *)
(* the log, fork or exec) and those that came so soon after one another    *)
(* that they had the same file.                                            *)
ReassignedAtRest ==
  PrrnAtRest =>
    /\ \A t \in 0 .. MaxTime : dir[t] = 0
    /\ \A e \in (1 .. notices) \ excused :
         \A i \in DOMAIN scope[e] : \A k \in DOMAIN scope[e][i] : scope[e][i][k].op = Update =>
           LET h == scope[e][i][k].node IN
           /\ Line(e, h) \subseteq done
           /\ h \in DOMAIN Std \ MemoryBlocks => UpToDate(e, h)

(* do_node_update: drmgr never handles a node whose properties are still   *)
(* being copied, unless two notifications had the same file.               *)
NotBeforeUpdate == \A x \in early : x[1] \in excused

(* A notification has its effect in full and in this order: the properties *)
(* in the device tree, then drmgr, then the file is gone.                  *)
UpdatedThenReassigned == PrrnTypeOK /\ ReassignedAtRest /\ NotBeforeUpdate
=============================================================================

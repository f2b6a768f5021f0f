------------------------------- MODULE Guard -------------------------------
(***************************************************************************)
(* The child processes of rtas_errd: those it waits for when it reads its  *)
(* configuration (nvram for the restart policy), the converter whose       *)
(* output names a resource (ConvertDt), and the drmgr processes that take  *)
(* a failing processor, capacity or memory block (LMB) from the partition  *)
(* while the daemon handles the next events (rtas_errd/guard.c, signal.c,  *)
(* config.c, common/utils.c).                                              *)
(*                                                                         *)
(* An event is a request to deallocate: a failing processor, a block of    *)
(* memory, or a loss of the entitled capacity of shared processors.        *)
(* Abstracted: the layout of the event and of the files read.              *)
(***************************************************************************)
EXTENDS ConvertDt, FiniteSets

CONSTANTS
  Cpus, Lmbs,      \* the processors and memory blocks, by their drc-indexes
  ServersOf,       \* the interrupt servers of each processor
  Trees,           \* how the device tree may name them
  Capacity,        \* its entitled capacity when the daemon starts
  Losses,          \* the losses of capacity that events report
  MinProcessors,   \* MinProcessors and MinEntitledCapacity of the
  MinCapacity,     \*   configuration file
  MaxEvents        \* bound: how many requests arrive

NoName == <<>>

(* What the platform tells of the resources of a type: each has an entry   *)
(* and one name, which no other has, and a range that spans the index of   *)
(* a resource has it as an element.                                        *)
Describes(lists, type, resources) ==
  /\ \/ /\ lists.version = 1
        /\ lists.indexes \in Seq(Nat) /\ lists.names \in Seq(STRING \X Nat)
        /\ Len(lists.indexes) = Len(lists.names)
     \/ /\ lists.version = 2
        /\ lists.info \in Seq([type : STRING, prefix : STRING, index : Nat, number : Nat,
                               count : Nat \ {0}, incr : Nat \ {0}])
        /\ \A r \in ToSet(lists.info), x \in resources :
             r.type = type /\ x \in r.index..LastIndex(r) =>
               \E k \in 0..r.count - 1 : x = r.index + k * r.incr
  /\ resources \subseteq {e.index : e \in Elements(lists, type)}
  /\ \A e, f \in Elements(lists, type) : e.index = f.index <=> e.name = f.name

ASSUME ResourcesAssumption ==
  /\ IsFiniteSet(Cpus) /\ IsFiniteSet(Lmbs) /\ Lmbs # {}
  /\ Cpus \union Lmbs \subseteq Nat /\ Cpus \cap Lmbs = {}
  /\ \A t \in Trees : /\ Describes(t.cpu, DrcType("cpu"), Cpus)
                      /\ Describes(t.mem, DrcType("lmb"), Lmbs)

(* A server belongs to one processor.                                      *)
ASSUME ServersAssumption ==
  /\ ServersOf \in [Cpus -> Seq(Nat)]
  /\ \A c \in Cpus : Len(ServersOf[c]) \in 1..MAX_IRQ_SERVERS_PER_CPU
  /\ \A c, d \in Cpus : c # d => ToSet(ServersOf[c]) \cap ToSet(ServersOf[d]) = {}

(* The loss of capacity is a field of 16 bits in the event.                *)
ASSUME AmountsAssumption ==
  /\ MinProcessors \in 1..Cardinality(Cpus)
  /\ MinCapacity \in Nat /\ Capacity \in Nat /\ Capacity >= MinCapacity
  /\ MaxEvents \in Nat /\ \A n \in Losses : n \in Nat /\ n <= 65535

VARIABLES
  tree,                  \* the names the device tree gives to resources
  cpus, lmbs, capacity,  \* what the partition has
  main,      \* where the daemon is, with the event and what it has read
  own,       \* the child it waits for
  kids,      \* the drmgr processes it does not wait for
  catcher,   \* the disposition of SIGCHLD
  pending,   \* SIGCHLD has not been delivered yet
  policy,    \* d_cfg.restart_policy
  events,    \* requests that have arrived
  \* history
  told,      \* resources reported as offlined
  shrunk,    \* processors taken by number
  crossed,   \* resources checked while one of them was being taken
  stolen,    \* waits that found their child reaped by sigchld_handler
  faulty     \* a call or a program has failed

part == <<tree, cpus, lmbs, capacity>>
children == <<own, kids, catcher, pending>>
history == <<told, shrunk, crossed, stolen, faulty>>
vars == <<part, main, children, policy, events, history>>

NoChild == [job |-> "none", state |-> "none", out |-> "none", name |-> NoName]
Idle == [at |-> "idle", kind |-> "none", id |-> 0, name |-> NoName, value |-> 0]
Ended == {"zombie", "reaped"}

(* snprintf into a buffer of five characters keeps four digits.            *)
Printed(n) ==
  CHOOSE m \in {n, n \div 10, n \div 100} :
    m <= 9999 /\ \A k \in {n, n \div 10, n \div 100} : k <= 9999 => k <= m

Init ==
  /\ tree \in Trees
  /\ cpus = Cpus /\ lmbs = Lmbs /\ capacity = Capacity
  /\ main = [Idle EXCEPT !.at = "policy"]
  /\ own = NoChild /\ kids = {} /\ catcher = "reap" /\ pending = FALSE
  /\ policy = "requested" /\ events = 0
  /\ told = {} /\ shrunk = {} /\ crossed = {} /\ stolen = {} /\ faulty = FALSE

At(place) == main.at = place
Go(place) == main' = [main EXCEPT !.at = place]
Fault == faulty' = TRUE /\ UNCHANGED <<told, shrunk, crossed, stolen>>

(***************************************************************************)
(* A child the daemon waits for.  waitpid finds no child once              *)
(* sigchld_handler has reaped it.                                          *)
(***************************************************************************)
Fork(job) ==
  /\ own' = [job |-> job, state |-> "running", out |-> "none", name |-> NoName]
  /\ UNCHANGED kids

Wait(job) ==
  /\ own.job = job /\ own.state \in Ended
  /\ own' = NoChild /\ UNCHANGED kids
  /\ stolen' = IF own.state = "reaped" THEN stolen \union {job} ELSE stolen
  /\ UNCHANGED <<told, shrunk, crossed, faulty>>

NotExecuted == own.state = "zombie" /\ own.out = "not_executed"
Reaped == own.state = "reaped"

(***************************************************************************)
(* The configuration is read when the daemon starts and on SIGHUP: the     *)
(* restart policy is given to the firmware.                                *)
(***************************************************************************)
GiveUpPolicy == policy' = "given_up" /\ Go("idle")

(* The parameter is set by RTAS.                                           *)
SetSysparm ==
  /\ At("policy") /\ policy' = "sysparm" /\ Go("idle")
  /\ UNCHANGED <<part, children, events, history>>

(* RTAS cannot: nvram is looked for, then asked for the present value and  *)
(* told the new one.                                                       *)
AskNvram ==
  /\ At("policy") /\ Fork("read_policy") /\ Go("asking")
  /\ UNCHANGED <<part, catcher, pending, policy, events, history>>

UpdateNvram ==
  /\ At("update") /\ Fork("write_policy") /\ Go("updating")
  /\ UNCHANGED <<part, catcher, pending, policy, events, history>>

PolicyFails ==
  /\ main.at \in {"policy", "update"}
  /\ GiveUpPolicy /\ Fault
  /\ UNCHANGED <<part, children, events>>

(* When nvram could not be executed the entry is skipped, but only the     *)
(* child records that.                                                     *)
PolicyRead ==
  /\ At("asking") /\ Wait("read_policy")
  /\ \/ Reaped /\ GiveUpPolicy
     \/ NotExecuted /\ Go("idle") /\ UNCHANGED policy
     \/ ~Reaped /\ ~NotExecuted /\ Go("update") /\ UNCHANGED policy
  /\ UNCHANGED <<part, catcher, pending, events>>

PolicyWritten ==
  /\ At("updating") /\ Wait("write_policy")
  /\ \/ Reaped /\ GiveUpPolicy
     \/ NotExecuted /\ Go("idle") /\ UNCHANGED policy
     \/ ~Reaped /\ ~NotExecuted
        /\ policy' = "nvram" /\ Go("idle")
  /\ UNCHANGED <<part, catcher, pending, events>>

(* SIGHUP makes the idle daemon read its configuration again.              *)
Sighup ==
  /\ At("idle") /\ events < MaxEvents
  /\ events' = events + 1 /\ policy' = "requested"
  /\ main' = [Idle EXCEPT !.at = "policy"]
  /\ UNCHANGED <<part, children, history>>

(***************************************************************************)
(* Requests.                                                               *)
(***************************************************************************)
Take(kind, id) ==
  /\ At("idle") /\ events < MaxEvents /\ events' = events + 1
  /\ main' = [Idle EXCEPT !.kind = kind, !.id = id,
              !.at = CASE kind = "cpu" -> "name" [] kind = "lmb" -> "blocks"
                       [] kind = "capacity" -> "entitlement"]
  /\ UNCHANGED <<part, children, policy, history>>

BeingTaken(kind) == \E k \in kids : k.kind = kind /\ k.state = "running"
NoteCrossing(kind) ==
  /\ crossed' = IF BeingTaken(kind) THEN crossed \union {kind} ELSE crossed
  /\ UNCHANGED <<told, shrunk, stolen, faulty>>

(* retrieve_drc_name restores the default disposition of SIGCHLD before it *)
(* starts the converter.                                                   *)
LeaveHandler == UNCHANGED <<catcher, pending>>  \* mutant: sigaction is forgotten
restore_sigchld_default == catcher' = "default" /\ pending' = FALSE
setup_sigchld_handler == catcher' = "reap" /\ UNCHANGED pending

StartConverter ==
  /\ At("name") /\ restore_sigchld_default
  /\ Fork("converter") /\ Go("naming")
  /\ UNCHANGED <<part, policy, events, history>>

ConverterFails ==
  /\ At("name") /\ Fault /\ main' = Idle
  /\ UNCHANGED <<part, children, policy, events>>

(* A processor is known by one of its interrupt servers, a memory block by *)
(* its drc-index.                                                          *)
Resource(kind, id) == IF kind = "cpu" THEN CHOOSE c \in Cpus : id \in ToSet(ServersOf[c]) ELSE id
DeviceTree ==
  [nodes |-> {[index |-> c, servers |-> ServersOf[c]] : c \in cpus},
   cpu |-> tree.cpu, mem |-> tree.mem, big |-> tree.big]
Names(kind, id) ==
  IF kind = "cpu" THEN Convert(DeviceTree, "cpu", "interrupt-server", "drc-name", id).printed
                  ELSE Convert(DeviceTree, "mem", "drc-index", "drc-name", id).printed

(* A name that fills the buffer is refused; spclose says nothing of the    *)
(* exit status, so a converter that has failed leaves an empty name.       *)
ReadName ==
  /\ At("naming") /\ Wait("converter") /\ setup_sigchld_handler
  /\ main' = IF Reaped \/ own.out = "too_long" THEN Idle
             ELSE [main EXCEPT !.name = own.name,
                               !.at = IF main.kind = "cpu" THEN "check" ELSE "spawn"]
  /\ UNCHANGED <<part, policy, events>>

ReachesMinimum(n_cpus) == n_cpus # 1 /\ n_cpus >= MinProcessors  \* mutant of the next
MayTake(n_cpus) == n_cpus # 1 /\ n_cpus > MinProcessors
CheckCpu ==
  /\ At("check") /\ NoteCrossing("cpu")
  /\ IF MayTake(Cardinality(cpus)) THEN Go("spawn") ELSE main' = Idle
  /\ UNCHANGED <<part, children, policy, events>>

can_delete_lmb == Cardinality(lmbs) >= 2

CheckLmb ==
  /\ At("blocks") /\ NoteCrossing("lmb")
  /\ IF can_delete_lmb THEN Go("name") ELSE main' = Idle
  /\ UNCHANGED <<part, children, policy, events>>

ReadEntitlement ==
  /\ At("entitlement") /\ NoteCrossing("capacity")
  /\ main' = IF capacity <= MinCapacity THEN Idle
             ELSE [main EXCEPT !.at = "count", !.value = capacity]
  /\ UNCHANGED <<part, children, policy, events>>

(* The loss is cut so that the minimum is left; when too little is left    *)
(* for the processors, a tenth of what is left is the number to be taken.  *)
Loss == IF main.value - main.id < MinCapacity THEN main.value - MinCapacity ELSE main.id
Short(n_cpus) == main.value - Loss < n_cpus * MinCapacity

(* lparcfg or the directory of the blocks cannot be read: -1 or 0 is below *)
(* every minimum.                                                          *)
CheckFails ==
  /\ main.at \in {"check", "blocks", "entitlement"} /\ Fault /\ main' = Idle
  /\ UNCHANGED <<part, children, policy, events>>

CountCpus ==
  /\ At("count")
  /\ IF Short(Cardinality(cpus))
     THEN Fork("shrink") /\ main' = [main EXCEPT !.at = "shrinking",
                                     !.id = Loss, !.value = main.value - Loss]
     ELSE main' = [main EXCEPT !.at = "spawn", !.id = Loss] /\ UNCHANGED <<own, kids>>
  /\ UNCHANGED <<part, catcher, pending, policy, events, history>>

(* With -1 for the processors, no capacity seems too little.               *)
CountFails ==
  /\ At("count") /\ Fault
  /\ main' = [main EXCEPT !.at = "spawn", !.id = Loss]
  /\ UNCHANGED <<part, children, policy, events>>

CpusTaken ==
  /\ At("shrinking") /\ Wait("shrink") /\ Go("spawn")
  /\ UNCHANGED <<part, catcher, pending, policy, events>>

(* run_drmgr, not waited for.  What it was to do is reported as done.      *)
SpawnNothing ==  \* mutant: as with the no_drmgr flag of a debugging build
  /\ At("spawn") /\ Go("tell")
  /\ UNCHANGED <<part, children, policy, events, history>>
Drmgr ==
  [no |-> events, kind |-> main.kind, name |-> main.name, state |-> "running",
   id |-> IF main.kind = "capacity" THEN Printed(main.id) ELSE main.id]
Spawn ==
  /\ At("spawn") /\ Go("tell")
  /\ \/ kids' = kids \union {Drmgr} /\ UNCHANGED <<own, history>>
     \/ Fault /\ UNCHANGED <<own, kids>>
  /\ UNCHANGED <<part, catcher, pending, policy, events>>

Tell ==
  /\ At("tell") /\ main' = Idle
  /\ told' = told \union (IF main.kind = "capacity" THEN {} ELSE {Resource(main.kind, main.id)})
  /\ UNCHANGED <<part, children, policy, events, shrunk, crossed, stolen, faulty>>

(***************************************************************************)
(* The children.  One that ends raises SIGCHLD, which the default          *)
(* disposition discards.                                                   *)
(***************************************************************************)
Raise == pending' = (pending \/ catcher = "reap")

Outcomes(job) ==
  CASE job = "converter" -> {"printed", "nothing", "too_long"}
    [] job = "shrink" -> {"done"}
    [] OTHER -> {"done", "not_executed"}

(* drmgr -q takes any processors, as many as it is told if there are.      *)
TakeAny(n) == {s \in SUBSET cpus : Cardinality(s) = IF n < Cardinality(cpus) THEN n ELSE Cardinality(cpus)}

OwnEnds ==
  /\ own.state = "running" /\ Raise
  /\ \E out \in Outcomes(own.job) :
       /\ out = "printed" => Names(main.kind, main.id) # {}
       /\ own' = [own EXCEPT !.state = "zombie", !.out = out,
                   !.name = IF out = "printed" THEN CHOOSE n \in Names(main.kind, main.id) : TRUE ELSE @]
       /\ faulty' = (faulty \/ out \in {"not_executed", "too_long"}
                      \/ (out = "nothing" /\ Names(main.kind, main.id) # {}))
  /\ IF own.job = "shrink"
     THEN \E gone \in TakeAny(Printed(main.value \div 10)) :
            cpus' = cpus \ gone /\ shrunk' = shrunk \union gone
     ELSE UNCHANGED <<cpus, shrunk>>
  /\ UNCHANGED <<tree, lmbs, capacity, main, kids, catcher, policy, events, told, crossed, stolen>>

(* drmgr takes the resource of that name, if there is one, or fails.       *)
Named(kind, name) ==
  {e.index : e \in {f \in Elements(IF kind = "cpu" THEN tree.cpu ELSE tree.mem, DrcType(kind)) : f.name = name}}
KidEnds(k) ==
  /\ k.state = "running" /\ Raise
  /\ kids' = (kids \ {k}) \union {[k EXCEPT !.state = "zombie"]}
  /\ \/ /\ cpus' = IF k.kind = "cpu" THEN cpus \ Named("cpu", k.name) ELSE cpus
        /\ lmbs' = IF k.kind = "lmb" THEN lmbs \ Named("lmb", k.name) ELSE lmbs
        /\ capacity' = IF k.kind = "capacity" THEN capacity - k.id ELSE capacity
        /\ UNCHANGED <<tree, faulty>>
     \/ UNCHANGED part /\ faulty' = TRUE
  /\ UNCHANGED <<main, own, catcher, policy, events, told, shrunk, crossed, stolen>>

sigchld_handler ==
  /\ pending /\ catcher = "reap" /\ pending' = FALSE
  /\ kids' = {k \in kids : k.state = "running"}
  /\ own' = IF own.state = "zombie" THEN [own EXCEPT !.state = "reaped"] ELSE own
  /\ UNCHANGED <<part, main, catcher, policy, events, history>>

Startup ==
  \/ SetSysparm \/ AskNvram \/ UpdateNvram \/ PolicyFails \/ PolicyRead \/ PolicyWritten
  \/ Sighup
Request ==
  \/ \E s \in UNION {ToSet(ServersOf[c]) : c \in Cpus} : Take("cpu", s)
  \/ \E b \in Lmbs : Take("lmb", b)
  \/ \E n \in Losses : Take("capacity", n)
Handling ==
  \/ StartConverter \/ ConverterFails \/ ReadName \/ CheckCpu \/ CheckLmb \/ CheckFails \/ CountFails
  \/ ReadEntitlement \/ CountCpus \/ CpusTaken \/ Spawn \/ Tell
Environment == OwnEnds \/ (\E k \in kids : KidEnds(k)) \/ sigchld_handler
Next == Startup \/ Request \/ Handling \/ Environment
Spec == Init /\ [][Next]_vars
-----------------------------------------------------------------------------
(* Every variable keeps its type, the daemon waits for one child at a time *)
(* and a child of retrieve_drc_name runs only under the default            *)
(* disposition of SIGCHLD.                                                 *)
TypeOK ==
  /\ tree \in Trees /\ cpus \subseteq Cpus /\ lmbs \subseteq Lmbs /\ capacity \in Int
  /\ catcher \in {"reap", "default"} /\ pending \in BOOLEAN /\ events \in 0..MaxEvents
  /\ policy \in {"requested", "sysparm", "nvram", "given_up"}
  /\ (own.job = "none") = (main.at \notin {"asking", "updating", "naming", "shrinking"})
  /\ (catcher = "default") = At("naming")
  /\ crossed \subseteq {"cpu", "lmb", "capacity"}

(* The partition keeps its minimum of processors, a memory block and its   *)
(* minimum of capacity, however many requests arrive, unless a request was *)
(* checked while the drmgr of an earlier one was still running, or         *)
(* processors were taken by number, which guard_spcpu does without looking *)
(* at MinProcessors (guard_cpu, guard_memlmb, guard_spcpu).                *)
MinimumKept ==
  /\ "cpu" \notin crossed /\ shrunk = {} => Cardinality(cpus) >= MinProcessors
  /\ "lmb" \notin crossed => lmbs # {}
  /\ "capacity" \notin crossed => capacity >= MinCapacity

(* Once all children have ended and nothing has failed, the processors and *)
(* blocks that the log says are offlined are the ones that have been taken *)
(* by name: none is announced and kept, none is taken in silence.          *)
AnnouncedAndDone ==
  At("idle") /\ ~(\E k \in kids : k.state = "running") /\ ~faulty =>
    /\ (Cpus \ cpus) \union (Lmbs \ lmbs) \subseteq told \union shrunk
    /\ told \subseteq (Cpus \ cpus) \union (Lmbs \ lmbs)

(* The name with which a processor or a block is taken is the name of the  *)
(* one the event was about, whichever of its interrupt servers the event   *)
(* names and however the device tree lists it; and asked for the index or  *)
(* the servers of that name, the converter never gives those of another    *)
(* (retrieve_drc_name, convert_dt_node_props; the order of the bytes of    *)
(* servers is right on a big-endian processor only).                       *)
RightResource ==
  \A k \in kids : k.kind # "capacity" /\ k.name # NoName =>
    LET resource == Resource(k.kind, k.id)
        Back(to) == Convert(DeviceTree, "cpu", "drc-name", to, k.name).printed
    IN /\ Named(k.kind, k.name) = {resource}
       /\ k.kind = "cpu" => /\ Back("drc-index") \subseteq {resource}
                            /\ tree.big => Back("interrupt-server") \subseteq {ServersOf[resource]}

(* The handler of SIGCHLD never takes the exit of the converter from       *)
(* retrieve_drc_name (the note of guard.c, line 243, says that it used to, *)
(* and that no name was ever found then).                                  *)
NamesNotStolen == "converter" \notin stolen

(* Nothing but a failure, or sigchld_handler reaping nvram before the      *)
(* daemon waits for it, keeps the restart policy from being set when the   *)
(* configuration is read: at the start, or again on SIGHUP while drmgr     *)
(* processes come to their end (config_restart_policy).                    *)
PolicySet ==
  At("idle") /\ ~faulty =>
    policy \in {"sysparm", "nvram"} \/ {"read_policy", "write_policy"} \cap stolen # {}

(* The daemon hears of the end of the children it waits for, or knows that *)
(* it did not, although sigchld_handler reaps children too.                *)
ChildrenHeard == TypeOK /\ NamesNotStolen /\ PolicySet
=============================================================================

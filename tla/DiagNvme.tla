------------------------------ MODULE DiagNvme ------------------------------
(***************************************************************************)
(* diag_nvme: diagnosis of NVMe devices.                                   *)
(*                                                                         *)
(* A run reads the SMART log of every device, or of one device from a file *)
(* that --dump wrote, and logs an event for what the configuration file    *)
(* has it notify.  A serviceable event is not logged while another is open *)
(* for the location of the device.  The daily run of cron and those of an  *)
(* administrator may overlap; no lock is taken between the lookup in the   *)
(* servicelog and the logging.                                             *)
(*                                                                         *)
(* Running out of memory is not modelled, and the values of SMART fields   *)
(* are below 2^64, where a long double is exact.                           *)
(***************************************************************************)
EXTENDS Integers, Sequences, Functions, FiniteSetsExt

CONSTANTS
  Devices,    \* the controllers in /sys/class/nvme, in the order they are found
  Fabric,     \* those whose transport is not pcie
  Padded,     \* those whose location code ends in spaces
  Processes,  \* the runs that may overlap
  Configs,    \* the contents of diag_nvme.config: lines of a key and a value
  Logs,       \* bound: the SMART logs that devices have, by name
  MAX_TIME,   \* the time to wait for the VPD of a device after boot
  MaxRuns,    \* bound: runs
  MaxChanges, \* bound: changes of a SMART log
  MaxRepairs, \* bound: repairs
  MaxFaults   \* bound: failures, of a call or a process

D == Range(Devices)

(* The fields of a SMART log, under the keys that they have in a file: the *)
(* same for --dump and for --file.                                         *)
SmartKeys ==
  [CRIT_WARN |-> "critical_warning", COMP_TEMP |-> "composite_temp",
   AVAIL_SPARE |-> "avail_spare", AVAIL_SPARE_THRES |-> "avail_spare_threshold",
   PCT_USED |-> "percentage_used", END_GRP_CRIT_WARN |-> "endurance_group_crit_warn_summary",
   UNITS_READ |-> "data_units_read", UNITS_WRITTEN |-> "data_units_written",
   HOST_READ_CMD |-> "host_reads_cmd", HOST_WRITE_CMD |-> "host_writes_cmd",
   CTRL_BUSY_TIME |-> "ctrl_busy_time", PWR_CYCLES |-> "power_cycles",
   PWR_ON_HOURS |-> "power_on_hours", UNSAFE_SHUTDOWN |-> "unsafe_shutdowns",
   MEDIA_ERR |-> "media_data_integrity_err", ERR_LOG |-> "num_err_info_log_entries",
   WARN_TEMP_TIME |-> "warn_composite_temp_time", CRIT_TEMP_TIME |-> "crit_composite_temp_time",
   TEMP_SENSOR1 |-> "temp_sensor1", TEMP_SENSOR2 |-> "temp_sensor2",
   TEMP_SENSOR3 |-> "temp_sensor3", TEMP_SENSOR4 |-> "temp_sensor4",
   TEMP_SENSOR5 |-> "temp_sensor5", TEMP_SENSOR6 |-> "temp_sensor6",
   TEMP_SENSOR7 |-> "temp_sensor7", TEMP_SENSOR8 |-> "temp_sensor8",
   THRM_TEMP1_TRANS |-> "thrm_mgmt_temp1_trans_count",
   THRM_TEMP2_TRANS |-> "thrm_mgmt_temp2_trans_count",
   TOTAL_THM_TEMP1 |-> "total_time_thm_mgmt_temp1",
   TOTAL_THM_TEMP2 |-> "total_time_thm_mgmt_temp2"]

Fields == Range(SmartKeys)

(* The bytes of a field; --file refuses a value that does not fit.         *)
Width(f) ==
  CASE f \in {"critical_warning", "avail_spare", "avail_spare_threshold", "percentage_used",
              "endurance_group_crit_warn_summary"} -> 1
    [] f \in {"composite_temp", "temp_sensor1", "temp_sensor2", "temp_sensor3", "temp_sensor4",
              "temp_sensor5", "temp_sensor6", "temp_sensor7", "temp_sensor8"} -> 2
    [] OTHER -> 4  \* or 16: more than a value here takes
Fits(f, v) == v \in 0 .. (IF Width(f) < 4 THEN 256^Width(f) - 1 ELSE 2147483647)

ASSUME ConstantsAssumption ==
  /\ Devices \in Seq(STRING) /\ IsInjective(Devices) /\ Fabric \subseteq D /\ Padded \subseteq D
  /\ \A c \in Configs : c \in Seq(STRING \X Int)
  /\ \A n \in DOMAIN Logs : Logs[n] \in [Fields -> Nat] /\ \A f \in Fields : Fits(f, Logs[n][f])
  /\ "none" \notin DOMAIN Logs
  /\ {MAX_TIME, MaxRuns, MaxChanges, MaxRepairs, MaxFaults} \subseteq Nat

(* NoLog: the log could not be read.                                       *)
NoLog == [f \in {} |-> 0]
LogOf(n) == IF n = "none" THEN NoLog ELSE Logs[n]

Bits(n) == {b \in 0 .. 7 : (n \div 2^b) % 2 = 1}
TEMP    == 1  \* the bit of CRIT_WARN_TEMP

-----------------------------------------------------------------------------
(* The configuration file.                                                 *)

(* read_file_dict: a line without a key and a value fails the whole file,  *)
(* as does a file that is missing.                                         *)
Malformed(lines) == \E i \in DOMAIN lines : lines[i][1] = "?"

Keys == <<"AVAILABLE_SPARE_CAPACITY", "TEMPERATURE_THRESHOLD", "NVM_SUBSYSTEM_RELIABILITY",
          "MEDIA_READ_ONLY", "VOLATILE_MEMORY_BACKUP", "PERSISTENT_MEMORY_REGION">>

(* The last line counts for what is on or off, but a bit that a line takes *)
(* out of the mask never comes back.                                       *)
LastValue(lines, key) ==
  LET n == {i \in DOMAIN lines : lines[i][1] = key}
  IN  n = {} \/ lines[Max(n)][2] # 0

set_notify(lines) ==
  [smart_missing |-> LastValue(lines, "SMART_LOG_MISSING"),
   write_rate    |-> LastValue(lines, "WRITE_RATE"),
   crit_warn     |-> {b \in 0 .. 7 : b < 6 => <<Keys[b + 1], 0>> \notin Range(lines)}]

NoNotify == [smart_missing |-> TRUE, write_rate |-> TRUE, crit_warn |-> 0 .. 7]

-----------------------------------------------------------------------------
(* A SMART log in a file and in the raw data of an event.                  *)

write_smart_file(log) == [k \in DOMAIN SmartKeys |-> log[SmartKeys[k]]]

(* A field whose key is not in the file stays 0.                           *)
Refused(lines) == \E k \in DOMAIN lines : ~Fits(SmartKeys[k], lines[k])
set_smart_log_field(lines) ==
  [f \in Fields |->
     LET keys == {k \in DOMAIN lines : SmartKeys[k] = f}
     IN  IF keys = {} THEN 0 ELSE lines[CHOOSE k \in keys : TRUE]]

(* The items of the SMART section.  T4 repeats the third sensor.           *)
Items ==
  [CW |-> "critical_warning", T0 |-> "composite_temp", AS |-> "avail_spare",
   ST |-> "avail_spare_threshold", PU |-> "percentage_used",
   EG |-> "endurance_group_crit_warn_summary", DR |-> "data_units_read",
   DW |-> "data_units_written", HR |-> "host_reads_cmd", HW |-> "host_writes_cmd",
   BT |-> "ctrl_busy_time", PC |-> "power_cycles", PH |-> "power_on_hours",
   US |-> "unsafe_shutdowns", DI |-> "media_data_integrity_err",
   EI |-> "num_err_info_log_entries", TW |-> "warn_composite_temp_time",
   TC |-> "crit_composite_temp_time", T1 |-> "temp_sensor1", T2 |-> "temp_sensor2",
   T3 |-> "temp_sensor3", T4 |-> "temp_sensor3", T5 |-> "temp_sensor5",
   T6 |-> "temp_sensor6", T7 |-> "temp_sensor7", T8 |-> "temp_sensor8",
   M1 |-> "thrm_mgmt_temp1_trans_count", M2 |-> "thrm_mgmt_temp2_trans_count",
   M3 |-> "total_time_thm_mgmt_temp1", M4 |-> "total_time_thm_mgmt_temp2"]

raw_data_smart(log) == [i \in DOMAIN Items |-> log[Items[i]]]

(* The raw data are filled once for a device and serve all its events.     *)
(* They have no SMART section if the log could not be read; their section  *)
(* of VPD is left out.                                                     *)
NoItems == [i \in {} |-> 0]
fill_raw_data(raw, log) ==
  IF raw # NoItems \/ log = NoLog THEN raw ELSE raw_data_smart(log)

-----------------------------------------------------------------------------
VARIABLES
  config,  \* the content of the configuration file
  smart,   \* the name of the SMART log of each device, or "none"
  file,    \* the name of the log that --dump has written, or "none"
  events,  \* the servicelog
  run,     \* the runs
  changes, runs, repairs, faults

vars == <<config, smart, file, events, run, changes, runs, repairs, faults>>
counters == <<changes, runs, repairs, faults>>

(* An event: its device, whether it is serviceable, whether it is open and *)
(* its raw data.  For the properties: whether the lookup before it failed, *)
(* how many events were logged at the lookup, and the name of the log that *)
(* had been read, or "none".                                               *)
Serviceable(e) == events[e].serviceable /\ events[e].open
OpenFor(d) == {e \in DOMAIN events : events[e].dev = d /\ Serviceable(e)}

(* A run: the devices it has still to look at, the first of them being the *)
(* one it is at; whether it reads a file; the seconds it has waited;       *)
(* whether endurance and capacity are known; the log it has read; the raw  *)
(* data it has filled; the event it is about to log and what is next.  For *)
(* the properties: the name of the log, whether the lookup failed and the  *)
(* events there were then, the devices found faulty, and those of which an *)
(* event has been closed since their reading.                              *)
NoRun == [pc |-> "idle", file |-> FALSE, todo |-> <<>>, notify |-> NoNotify, time |-> 0,
          vpd |-> FALSE, log |-> NoLog, from |-> "none", raw |-> NoItems,
          severity |-> "none", then |-> "next", rc |-> 0, blind |-> FALSE, seen |-> 0,
          faulty |-> {}, closed |-> {}]

Dev(p)   == Head(run[p].todo)
At(p, pc) == run[p].pc = pc
Step(p, r) == run' = [run EXCEPT ![p] = r]
Fails == faults < MaxFaults /\ faults' = faults + 1

(* The next device, with rc added to the sum of the return codes.  A run   *)
(* stays "ended" until its process runs again.                             *)
NextUncleared(r, rc) ==  \* mutant: the raw data outlive the device
  [r EXCEPT !.pc = IF Len(r.todo) = 1 THEN "ended" ELSE "open", !.todo = Tail(@), !.time = 0,
            !.log = NoLog, !.from = "none", !.vpd = FALSE, !.severity = "none",
            !.blind = FALSE, !.seen = 0, !.rc = @ + rc]
NextDevice(r, rc) ==
  [r EXCEPT !.pc = IF Len(r.todo) = 1 THEN "ended" ELSE "open", !.todo = Tail(@), !.time = 0,
            !.log = NoLog, !.from = "none", !.raw = NoItems, !.vpd = FALSE,
            !.severity = "none", !.blind = FALSE, !.seen = 0, !.rc = @ + rc]

Init ==
  /\ config \in Configs
  /\ \E n \in DOMAIN Logs : Logs[n]["critical_warning"] = 0 /\ smart = [d \in D |-> n]
  /\ file = "none" /\ events = <<>> /\ run = [p \in Processes |-> NoRun]
  /\ changes = 0 /\ runs = 0 /\ repairs = 0 /\ faults = 0

-----------------------------------------------------------------------------
(* main.                                                                   *)

Start(p, todo, fromFile) ==
  /\ run[p].pc \in {"idle", "ended"} /\ runs < MaxRuns
  /\ runs' = runs + 1
  /\ Step(p, IF Malformed(config) THEN [NoRun EXCEPT !.pc = "ended", !.rc = -1]
             ELSE [NoRun EXCEPT !.pc = IF todo = <<>> THEN "ended" ELSE "open",
                                !.todo = todo, !.file = fromFile,
                                !.notify = set_notify(config)])
  /\ UNCHANGED <<config, smart, file, events, changes, repairs, faults>>

RunAll(p)  == Start(p, Devices, FALSE)
RunFile(p) == \E d \in D : Start(p, <<d>>, TRUE)

(* --dump, once: nothing is written unless the log can be read.            *)
dump_smart_data(d) ==
  /\ smart[d] # "none" /\ file = "none"
  /\ file' = smart[d]
  /\ UNCHANGED <<config, smart, events, run, counters>>

-----------------------------------------------------------------------------
(* diagnose_nvme: the readings.                                            *)

(* A device that is not on PCIe is left alone; one whose transport or      *)
(* whose device node cannot be read fails.                                 *)
OpenDevice(p) ==
  /\ At(p, "open")
  /\ \/ /\ Dev(p) \in Fabric
        /\ Step(p, NextDevice(run[p], 0)) /\ UNCHANGED faults
     \/ /\ Dev(p) \notin Fabric
        /\ Step(p, [run[p] EXCEPT !.pc = "vpd"]) /\ UNCHANGED faults
     \/ /\ Fails /\ Step(p, NextDevice(run[p], -1))
  /\ UNCHANGED <<config, smart, file, events, changes, runs, repairs>>

(* The log page is asked for again every five seconds while it is not      *)
(* ready.                                                                  *)
WaitVpd(p) ==
  /\ At(p, "vpd") /\ run[p].time <= MAX_TIME
  /\ Step(p, [run[p] EXCEPT !.time = @ + 5])
  /\ UNCHANGED <<config, smart, file, events, counters>>

(* It is read, or else the VPD of PCIe; what is asked need not be there.   *)
ReadVpd(p) ==
  /\ At(p, "vpd")
  /\ \E known \in BOOLEAN : Step(p, [run[p] EXCEPT !.pc = "smart", !.vpd = known])
  /\ UNCHANGED <<config, smart, file, events, counters>>

-----------------------------------------------------------------------------
(* diagnose_nvme: what there is to report.                                 *)

ErrorBits(r, log) == (Bits(log["critical_warning"]) \cap r.notify.crit_warn) \ {TEMP}
WarnBits(r, log)  == Bits(log["critical_warning"]) \cap r.notify.crit_warn

(* The average of drive writes per day exceeds the endurance, both known:  *)
(* data units of 512000 bytes, a capacity of 1 GB and an endurance of 1.   *)
MIN_HOURS_ON == 720
Exceeds(r) ==
  /\ r.log # NoLog /\ r.vpd /\ r.notify.write_rate
  /\ r.log["power_on_hours"] >= MIN_HOURS_ON
  /\ r.log["data_units_written"] * 192 > r.log["power_on_hours"] * 15625

(* Once an event has been logged, or not, the rate of writing is next.     *)
Continue(r, rc) ==
  IF r.then = "dwpd" /\ Exceeds(r)
  THEN [r EXCEPT !.pc = "locate", !.severity = "warning", !.then = "next", !.rc = @ + rc,
                 !.raw = fill_raw_data(r.raw, r.log), !.blind = FALSE, !.seen = 0]
  ELSE NextDevice(r, rc)

(* A log that cannot be read is a fault of the device, if that is to be    *)
(* notified, and otherwise as good as one of zeros.  name: of the log.     *)
Decide(r, log, name) ==
  LET s == [r EXCEPT !.log = log, !.from = name, !.then = "dwpd", !.closed = @ \ {Head(r.todo)}]
      t == [s EXCEPT !.raw = fill_raw_data(r.raw, log)]
      f == [t EXCEPT !.pc = "locate", !.severity = "error", !.faulty = @ \union {Head(r.todo)}]
  IN  CASE log = NoLog /\ r.notify.smart_missing -> [f EXCEPT !.then = "next"]
        [] log # NoLog /\ ErrorBits(r, log) # {} -> f
        [] log # NoLog /\ ErrorBits(r, log) = {} /\ WarnBits(r, log) # {} ->
             [t EXCEPT !.pc = "locate", !.severity = "warning"]
        [] OTHER -> Continue(s, 0)

ReadSmart(p) ==
  /\ At(p, "smart") /\ ~run[p].file
  /\ \/ /\ Step(p, Decide(run[p], LogOf(smart[Dev(p)]), smart[Dev(p)])) /\ UNCHANGED faults
     \/ /\ Fails /\ Step(p, Decide(run[p], NoLog, "none"))
  /\ UNCHANGED <<config, smart, file, events, changes, runs, repairs>>

(* get_smart_file: a file that is missing counts as a log that cannot be   *)
(* read; one with a value out of range fails.                              *)
Content == write_smart_file(Logs[file])
ReadFile(p) ==
  /\ At(p, "smart") /\ run[p].file
  /\ Step(p, IF file = "none" THEN Decide(run[p], NoLog, "none")
             ELSE IF Refused(Content) THEN NextDevice(run[p], -1)
             ELSE Decide(run[p], set_smart_log_field(Content), file))
  /\ UNCHANGED <<config, smart, file, events, counters>>

-----------------------------------------------------------------------------
(* log_event.                                                              *)

(* The location code comes first; no event without it.                     *)
Locate(p) ==
  /\ At(p, "locate")
  /\ \/ /\ Step(p, [run[p] EXCEPT !.pc = IF run[p].severity = "error" THEN "check" ELSE "log"])
        /\ UNCHANGED faults
     \/ /\ Fails /\ Step(p, Continue(run[p], -1))
  /\ UNCHANGED <<config, smart, file, events, changes, runs, repairs>>

(* check_open_serv_event compares the location as it was read with those   *)
(* of the events, from which spaces at the end have been trimmed.  If the  *)
(* servicelog cannot be opened there is no open event.                     *)
CheckClosedEvents(d) ==  \* mutant: the query asks for closed events
  \E e \in DOMAIN events : events[e].dev = d /\ events[e].serviceable /\ ~events[e].open
check_open_serv_event(d) == d \notin Padded /\ OpenFor(d) # {}

CheckOpen(p) ==
  /\ At(p, "check")
  /\ \/ /\ check_open_serv_event(Dev(p))
        /\ Step(p, Continue(run[p], 0)) /\ UNCHANGED faults
     \/ /\ ~check_open_serv_event(Dev(p))
        /\ Step(p, [run[p] EXCEPT !.pc = "log", !.seen = Len(events)]) /\ UNCHANGED faults
     \/ /\ Fails
        /\ Step(p, [run[p] EXCEPT !.pc = "log", !.blind = TRUE, !.seen = Len(events)])
  /\ UNCHANGED <<config, smart, file, events, changes, runs, repairs>>

LogUntested(p) ==  \* mutant: a failure to log is not returned
  /\ At(p, "log")
  /\ Fails /\ Step(p, Continue(run[p], 0)) /\ UNCHANGED events
  /\ UNCHANGED <<config, smart, file, changes, runs, repairs>>
LogEvent(p) ==
  /\ At(p, "log")
  /\ \/ /\ events' = Append(events,
             [dev |-> Dev(p), serviceable |-> run[p].severity = "error", open |-> TRUE,
              raw |-> run[p].raw, blind |-> run[p].blind, seen |-> run[p].seen,
              read |-> run[p].from])
        /\ Step(p, Continue(run[p], 0)) /\ UNCHANGED faults
     \/ /\ Fails /\ Step(p, Continue(run[p], -1)) /\ UNCHANGED events
  /\ UNCHANGED <<config, smart, file, changes, runs, repairs>>

-----------------------------------------------------------------------------
(* The environment.                                                        *)

(* A SMART log changes; "none": it can no longer be read.                   *)
Change ==
  /\ changes < MaxChanges /\ changes' = changes + 1
  /\ \E d \in D : \E s \in DOMAIN Logs \union {"none"} : smart' = [smart EXCEPT ![d] = s]
  /\ smart' # smart
  /\ UNCHANGED <<config, file, events, run, runs, repairs, faults>>

(* log_repair_action closes the events of a device.                        *)
Repair ==
  /\ repairs < MaxRepairs /\ repairs' = repairs + 1
  /\ \E d \in D :
       /\ OpenFor(d) # {}
       /\ events' = [e \in DOMAIN events |-> [events[e] EXCEPT !.open = @ /\ e \notin OpenFor(d)]]
       /\ run' = [p \in Processes |-> [run[p] EXCEPT !.closed = @ \union {d}]]
  /\ UNCHANGED <<config, smart, file, changes, runs, faults>>

Killed(p) ==
  /\ run[p].pc \notin {"idle", "ended"} /\ Fails
  /\ Step(p, [NoRun EXCEPT !.pc = "ended", !.rc = -1])
  /\ UNCHANGED <<config, smart, file, events, changes, runs, repairs>>

Proceed(p) ==
  OpenDevice(p) \/ WaitVpd(p) \/ ReadVpd(p) \/ ReadSmart(p) \/ ReadFile(p) \/ Locate(p)
  \/ CheckOpen(p) \/ LogEvent(p)

Next ==
  \/ \E p \in Processes : RunAll(p) \/ RunFile(p) \/ Proceed(p) \/ Killed(p)
  \/ \E d \in D : dump_smart_data(d)
  \/ Change \/ Repair

Spec == Init /\ [][Next]_vars

-----------------------------------------------------------------------------
(* Properties.                                                             *)

PCs == {"idle", "open", "vpd", "smart", "locate", "check", "log", "ended"}

(* Every variable has its type.  A run is at a device unless it is idle or *)
(* has ended; it waits for VPD at most five seconds longer than MAX_TIME,  *)
(* it never has to log what it has not decided, and its return codes only  *)
(* go down, so that none can make up for another.                          *)
TypeOK ==
  /\ config \in Configs
  /\ smart \in [D -> DOMAIN Logs \union {"none"}] /\ file \in DOMAIN Logs \union {"none"}
  /\ changes \in 0 .. MaxChanges /\ runs \in 0 .. MaxRuns /\ repairs \in 0 .. MaxRepairs
  /\ faults \in 0 .. MaxFaults
  /\ \A e \in DOMAIN events : events[e].dev \in D /\ events[e].seen < e
  /\ \A p \in Processes :
       LET r == run[p] IN
       /\ r.pc \in PCs /\ r.rc \in Int /\ r.rc <= 0 /\ r.time \in 0 .. MAX_TIME + 5
       /\ (r.pc \in {"idle", "ended"}) <=> (r.todo = <<>>)
       /\ r.pc \in {"locate", "check", "log"} => r.severity # "none"
       /\ r.severity # "none" => r.pc \in {"locate", "check", "log"}

(* check_open_serv_event: no two serviceable events are open for a device, *)
(* unless the lookup before the second failed, the first was logged after  *)
(* that lookup, or the location of the device ends in spaces.              *)
OneOpenEvent ==
  \A e, f \in DOMAIN events :
    e < f /\ events[e].dev = events[f].dev /\ Serviceable(e) /\ Serviceable(f) =>
      events[f].blind \/ e > events[f].seen \/ events[f].dev \in Padded

(* diagnose_nvme and main: if a run returns 0, every device in which it    *)
(* has found an error has an open serviceable event, or had one that was   *)
(* closed after the device was read.                                       *)
FaultReported ==
  \A p \in Processes :
    At(p, "ended") /\ run[p].rc = 0 =>
      \A d \in run[p].faulty : OpenFor(d) # {} \/ d \in run[p].closed

(* What the raw data of an event bear out: another warning than that of    *)
(* the temperature for a serviceable event; the warning of the temperature *)
(* or too many writes for any other.                                       *)
BearOut(serviceable, raw) ==
  IF serviceable THEN Bits(raw["CW"]) \ {TEMP} # {}
  ELSE \/ TEMP \in Bits(raw["CW"])
       \/ raw["PH"] >= MIN_HOURS_ON /\ raw["DW"] * 192 > raw["PH"] * 15625

(* fill_raw_data in diagnose_nvme: the raw data of every event are those   *)
(* of the device it is about and of the log that was decided on, whichever *)
(* device came before, however many events they serve, whatever has become *)
(* of the log since, and if it comes from a file that --dump wrote (which  *)
(* --file never refuses, and from which it gets the log that was dumped):  *)
(* they hold every field of it but the fourth sensor, and bear the event   *)
(* out.  An event about a log that could not be read is serviceable, and   *)
(* its raw data hold no SMART log at all.                                  *)
(* Includes the type invariant.                                            *)
ReadingsKept ==
  /\ TypeOK
  /\ \A p \in Processes : At(p, "smart") /\ run[p].file /\ file # "none" =>
       ~Refused(Content) /\ set_smart_log_field(Content) = Logs[file]
  /\ \A e \in DOMAIN events :
       LET raw == events[e].raw  n == events[e].read IN
       IF n = "none" THEN events[e].serviceable /\ raw = NoItems
       ELSE /\ {Logs[n][f] : f \in Fields \ {"temp_sensor4"}} \subseteq Range(raw)
            /\ BearOut(events[e].serviceable, raw)
=============================================================================

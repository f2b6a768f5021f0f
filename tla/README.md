# A TLA+ model of ppc64-diag

ppc64-diag is a set of daemons and tools that collect, log and act upon the
hardware events of POWER machines. This directory holds TLA+ modules of its
parts, TLC configurations that check them on small instances, and proofs of
theorems about them that TLAPS checks. `PROJECT.json` lists every run, theorem
and hazard and maps each definition to the lines of the source it models.

## How to run

    tlc -workers 2 -config MCEpow.cfg MCEpow              # and so on, see "Runs"
    tlapm Epow_proofs.tla                                 # and the other *_proofs

## Inventory

| component | state it keeps | operations | interacts with |
|---|---|---|---|
| rtas_errd event loop (`rtas_errd.c`, `files.c`, `signal.c`) | event in hand, platform log, `d_cfg.flags` | read an event, log it, act on it, report it; replay of syslog at start; SIGHUP handler | kernel queue in /proc, syslog file, systemd (restart), EPOW, config, dump, PRRN |
| EPOW (`epow.c`, `rc.powerfail`) | `time_remaining`, interval timer, status file | parse an EPOW event, write the status, fork a script; SIGALRM handler; the script's polling | the sensor, the status file shared by all three, the machine's fate |
| configuration (`config.c`) | `d_cfg`, the restart policy in NVRAM | parse the file, set the policy in a child process | SIGHUP handler, `sigchld_handler` |
| platform dumps (`dump.c`, `extract_platdump.c`) | dump files | scan-log dumps, extraction through RTAS | rtas_errd starts the extractor, so may an administrator |
| PRRN, hotplug, EEH (`prrn.c`, `hotplug.c`, `eeh.c`) | the device tree, a file of what to remove and add | fetch lists and properties through RTAS, write them, start `drmgr` | kernel's `ofdt`, `drmgr` (not waited for) |
| guard (`guard.c`, `convert_dt_node_props.c`, `common/utils.c`) | CPUs, memory and capacity in use; child processes | learn the name of a resource from the converter, have it taken by `drmgr` | `drmgr` (not waited for), `sigchld_handler`, the device tree |
| error log analysis (`ela.c`, `v6ela.c`, tables; `servicelog.c`) | descriptions that it writes into, EPOWs that have been reset | translate an event into a reference code and FRUs, store it in the servicelog | servicelog, EPOW sensors |
| opal_errd (`opal_errd.c`) | log directory | scan, save, acknowledge, rotate; run the dump tool | firmware's sysfs directory |
| extract_opal_dump (`extract_opal_dump.c`) | dump directory | make room, write, sync, rename, acknowledge | firmware's sysfs directory, run by opal_errd |
| lp_diag (`lp_diag.c`, `servicelog.c`) | none of its own: LEDs and servicelog | one process per service event or repair | servicelog, indicators, other lp_diag processes |
| indicator back ends, usysident (`indicator*.c`, `usysident.c`) | LEDs, the registers of the Marvell controller | list, get and set indicators | RTAS, sysfs, SES, PCI, other processes that do the same |
| enclosure diagnostics (`diags/diag_encl.c`, `encl_*.c`, `bluehawk.c`, `homerun.c`, `slider.c`) | the status page of the previous run | read a page, report what has become worse, light LEDs, save the page | SES, servicelog, cron |
| NVMe diagnostics (`diags/diag_nvme.c`) | open events in the servicelog | read SMART data, report unless an event is open | servicelog, cron |
| syslog to servicelog (`ela/`) | none | match syslog lines against a catalogue | servicelog |
| parsers (`opal-elog-parse`, `opal-dump-parse`) | none | format a file | |
| `common/`, `scripts/` | none | start processes, recognise the platform, install the services | all |

What is hard in this code, and where it bites (each in `PROJECT.json`,
"hazards", with its line and the properties about it):

* **Signals.** rtas_errd does real work in its SIGALRM, SIGHUP and SIGCHLD
  handlers, on variables and a file offset that the main thread uses. No test
  of the repository raises a signal at a chosen instruction.
* **A file as a channel.** The daemon and the rc.powerfail scripts communicate
  through a status file that all of them overwrite in place.
* **Handing over.** The kernel, the OPAL firmware and the RTAS firmware keep a
  record until it has been taken, and forget it then. What happens if saving
  fails, or the process dies between saving and acknowledging, decides whether
  records are lost or duplicated.
* **Concurrent processes without a lock**: lp_diag runs once per event; the daily
  diagnostics, the commands for lights and the extraction of a dump may also be run
  by hand; `drmgr` still works on one event when rtas_errd handles the next.
* **Children**: `sigchld_handler` waits for every child, also for one that other code
  is about to wait for.
* **Data in several calls**: lists of indicators, device-tree properties and dumps
  come from the firmware in pieces, and may change between two of them.
* **Tables**: the error log analysis writes into its tables while it uses them, and
  the diagnostics go through some thirty arrays of a status page.
* **Limits**: rotation, the removal of old dumps, the minimum number of CPUs.

For each component, what makes it correct: events are handled to the end or
given up for a known reason (event loop); the machine goes down only when it
was called for and stays up when the power recovers (EPOW); no record is lost,
none evicted but by newer ones, and the firmware gets its acknowledgements (OPAL
tools); the platform lets go of a dump only when it is whole in a file (platform
dumps); LEDs agree with the open events at rest (lp_diag), and a command changes
the lights it was given and no other (usysident); a fault that is new is reported,
once (diagnostics); a property is applied whole, and `drmgr` sees it only then
(PRRN); the resource that is taken is the one the event was about, never below
the minimum (guard); a report depends on its event alone, calls out that event's
parts and none is silent (error log analysis).

## Modules

| module | models | composed with |
|---|---|---|
| `Epow` | `epow.c`, `rc.powerfail`, `update_epow_status_file` | `MCEpow` |
| `RtasErrd` | `rtas_errd.c`, `signal.c`, `update.c`, parts of `files.c` and `config.c` | |
| `Custody` | what the OPAL tools promise: the abstract specification | |
| `OpalErrd` | `opal_errd.c` | refines `Custody`; `MCOpalErrd` |
| `ExtractOpalDump` | `extract_opal_dump.c` | refines `Custody`; `MCExtractOpalDump` |
| `LightPath` | `lp_diag.c` and lpd's `servicelog.c` | `MCLightPath` |
| `EnclDiag` | `diag_encl.c`, `encl_common.c` and the reports and LEDs of three enclosures | `MCEnclDiag` |
| `DiagNvme` | `diag_nvme.c` | `MCDiagNvme` |
| `Prrn` | `prrn.c` and the `drmgr` processes it leaves behind | `MCPrrn` |
| `ConvertDt` | `convert_dt_node_props.c`, as operators on a device tree | extended by `Guard` |
| `Guard` | `guard.c`, `spopen` and `spclose`, `sigchld_handler`, the children that `config.c` waits for | `MCGuard` |
| `PlatDump` | `check_platform_dump`, `extract_platdump.c` | `MCPlatDump` |
| `V6Ela` | `v6ela.c`, as operators on an event | instantiated by `Ela` |
| `Ela` | `ela.c`, its tables, `servicelog.c`'s choice of the analysis | `MCEla` |
| `Indicator` | `usysident.c`, `indicator*.c` | `MCIndicator` |

The `*_proofs` modules hold the theorems of the module they are named after,
`Children_proofs` those of `Guard`, `PlatDump` and `Prrn`, and `LightPath_proofs` those of
`Indicator` too.
Definitions marked "mutant" are not used by any specification; each is the form
that another definition would have if the code had a certain bug, and tests
that a property can see it.

Most modules have one property that conjoins smaller ones, which are defined
above it with a comment each; it names what belongs together, often with the type
invariant (`ScriptsObey`, `LifeInOrder`, `DirectoryInOrder`, `ChildrenHeard`, `EntriesSound`,
`UpdatedThenReassigned`).

### Epow

The main thread handles one EPOW event in six steps: `Receive` (the sensor is read
and the status decided, with `BeginsShutdown`, `ShutdownStatus`, `HaltStatus`,
`PowerOffStatus` and `OtherStatus` as the branches of `parse_epow`), `TestTimer`,
`ArmTimer`, `Extend` (for the events that start a window), `SeekStatus` and
`WriteStatus` (the two system calls of `update_epow_status_file`) and `Fork`.
`epow_timer_handler` may run between any two of them, with its three outcomes
`TimerExpired`, `TimerRecovered` and `TimerContinues`. The status file is a
sequence of bytes and an offset that handler and main thread share. Each script
is a process: `ReadStatus`, `Poll`, and `Truncate` and `Echo` for the shell's
redirection. `Tick` is five seconds.

The ghost `raced` records an alarm that came amid the two critical sections,
`verdicts` the statuses decided so far, and `calm` for how long the sensor has
been below shutdown. Not modelled: a failing `write` or `lseek` of the status
file; the phase of `setitimer` relative to the scripts; what happens after the
machine has gone down (the model stops there). A script runs promptly: its steps
take no longer than a tick. systemd kills the scripts of a daemon that it
restarts, as it kills the control group of the service.

### RtasErrd

Events are numbered in the order in which the kernel raises them. The queue in
/proc, syslog and the platform log are then prefixes (`taken`, `syslog`, `last`).
The daemon maps and parses its configuration (`MapConfig`, `ParseConfig`), catches
up with syslog (`CatchUp`, `Replay`), and reads (`Read`, `ReadGarbled`, `ReadFails`),
prints (`PrintEvent`), acts (`Act`), reports (`Report`) and finishes. `LoadFlags`,
`StoreFlags` and `TestReceived` are the loads and stores of `d_cfg.flags`, between
which `sighup_handler` may run. `Die`, `Crash` and `Restart` (systemd's
`Restart=always`) end and begin a life. The configuration is a version of the
file. The ghosts record what was done with each event: `finished`, and `excused`
for what the design gives up.

Not modelled: the kernel's limit on its queue, a reboot of the machine, rotation
of the platform log; the scanlog dump, whose check at the start is compiled out
(`#if 0`, `rtas_errd.c:597`). SIGHUP comes only after an edit; a SIGHUP
before the handler is installed kills the daemon and counts as `Crash`.
`Wide = TRUE` is a build where `unsigned long` has 64 bits, for which
`update_rtas_msgs` mangles the events it replays.

### Custody, OpalErrd, ExtractOpalDump

`Custody` has five steps: the firmware posts a record, the tool stores it, fails to,
releases it, and files are evicted. A record is released only if it has been
stored or an attempt failed. Both tools implement it: `firmware <- held`,
`disk <- OnDisk`, `stored <- saved`, `failed <- failed`.

`OpalErrd` is `find_and_read_elog_events` step by step: `Scan`, `PickElog`, `SaveElog`
or `SaveFails` (which leaves a partial file), `AckElog` or `AckFails`, then `RotateLogs`
for each type met and `CheckPlatformDump`, `Poll`. Files carry the second in which
they were made, the elog, and whether their name has a type; `RenameOldLogs` gives
the files of an old version theirs. Parsing an elog is its type, a constant.
Assumed: the clock does not step back, elog ids are not used again; SIGTERM is
merged with `Crash`. Loss of power is not modelled here (`fsync` of the parent
directory, `opal_errd.c:667-681`).

`ExtractOpalDump` has one action per system call that changes the directory:
`RemoveDuplicate`, `ListOld`, `UnlinkOld`, `OpenTemporary` (`O_CREAT|O_EXCL`), `WriteDump`,
`SyncDump`, `RenameDump`, `SyncDirectory`, `AckDump`. `Crash` kills the tool;
`PowerLoss` also degrades every file as far as it has not been synced: data that
was written only may be partial, a name that is renamed but not durable may be
the temporary one again. Removed files stay removed. One tool runs at a time, as
opal_errd waits for it; `-w` is not modelled. The failure of the final directory
sync, which the code only logs, counts as a failure of the save in `failed`.

### LightPath

A location code is a sequence of labels and whether it ends in spaces. `Nearest`
is `get_fru_indicator`: the longest prefix that has an indicator. `LogEvent` and
`LogRepair` put an event or a repair into the servicelog and start a process.
`ReadEvent` and `ReadEvents` are the database queries with the decision what to
set, `SetOn` and `SetOff` set one indicator each, in any order but the attention
indicator last, and may fail; `GiveUp` is a process that ends early. Service and
repair compute indicators differently (`Trimmed`, `Considered` against `Untrimmed`,
`AllLocations`), as the code does. Reading an indicator and setting it is one step.
The user interface of lp_diag is not modelled.

### EnclDiag

An enclosure is its status page: one status for each element. `BluehawkReports`,
`HomerunReports` and `SliderReports` list the report loops of each model, in order,
with the elements that one event is about; `BluehawkLeds` and its like the elements
that light a LED. Elements that are treated alike are represented by one, those
under a composite status by two. A run (`Begin`) goes through the enclosures: `ReadPage`
or `SkipEnclosure`, `ReadPrevious` with `-c`, `Report` once per event, `OpenFile` (which
empties the file of the previous page), `WritePage`, `SetLeds` with `-l`. Runs overlap and
may be killed (`Kill`) at any step; reports, files and LEDs may fail. `Change` is the
enclosure.

The ghosts follow what has been told: a saved page carries, for each element, how
bad a fault has been reported, by the run that saved it or by the one whose page it
compared with (`Told`). `last` is the page of the last run if nothing disturbed it.
`Hidden` names the statuses that hide others: `worse_element_status` does not report a
critical element whose slot was empty before, nor one listed after an
unrecoverable one. Not modelled: the Pearl enclosure (it has no `-c` and no `-l`),
running out of memory, a second path to an enclosure, LEDs that someone switches
off. A fan assembly of a Bluehawk or a Homerun lights its LED only if its first
fan is faulty (`bluehawk.c:462-469`, `homerun.c:337-345`), although the composite
status of all has just been computed; `FaultsLit` speaks of first fans only. In a run over several Sliders
the reports of all but the first go to the first one's location
(`slider.c:143`); such a report does not count as told.

### DiagNvme

A run goes through the devices: `OpenDevice`, `WaitVpd` and `ReadVpd`, `ReadSmart` (or
`ReadFile` with `--file`), then for each of the two things there may be to report, a
critical warning and the rate of writing, `Locate`, `CheckOpen` and `LogEvent`. `Decide` and
`Continue` are the decisions between them. The lookup of an open event and the
logging are two steps, and two runs may take them in any order; the devices
change (`Change`), events are closed (`Repair`), calls fail and runs are killed.
`set_notify` reads the configuration file, `write_smart_file` and `set_smart_log_field`
are the file of `--dump` with all its keys, `raw_data_smart` the items of an event, which
`fill_raw_data` fills once for a device and which serve both its events; after a failed
reading they stay without a SMART section.

Of an event the model keeps its device, whether it is serviceable and open, and its raw
data without their section of VPD. The ghosts say whether the lookup failed, what was
logged by then and which log (`from`, in an event `read`) had been read. Values are below
2^64, where a `long double` is exact. Not modelled: running out of memory, the
NVMe-MI commands behind a reading, the printed report.

### Prrn

`OpenLog` begins a notification: the file is named by the second; if it cannot be opened
there is no notification (`OpenFails`). `UpdateNodes` is
one call of rtas_update_nodes, which returns a work area of entries; each entry is
then handled by `update_node` (the line for `drmgr`, up to the first call for its
properties) or passed over (`Unsupported`). `UpdateProperties` is one call of
rtas_update_properties; each property it returns is a step, `PartialProperty` for a piece
that the next call continues, `WholeProperty` for the rest, which is written to the
device tree (`do_update`), and `NodeUpdated` is the end of the node. Nobody looks at what
`write_prrn_log` and `do_update` return: a line or a property whose writing fails is
missing, and the rest goes on, `drmgr` included. `StartDrmgr` ends the
notification; a failing fork (`StartDrmgrFails`) deletes the file at once, a failing exec
(`ExecFails`) does so in the child, when the daemon may be at the next notification. Each `drmgr` reads the file later (`DrmgrReads`) and deletes it
(`DrmgrDeletes`), while the daemon may be at the next notification. Firmware changes its
nodes at any time (`Notify`), also between two pieces of a property. A property's value
is the sequence of the versions that its pieces come from. The ghosts keep the version
each notification is about (`wanted`), what `drmgr` has done and whether it was early,
nodes that changed amid a copy (`torn`) and notifications that failed or shared a file
(`excused`).

Not modelled: a line or a property cut short by a partial write; running out of memory;
`hotplug.c` and `eeh.c`, which start one program for
one event.

### ConvertDt and Guard

`ConvertDt` is the converter as `Convert(tree, type, from, to, value)`: the searches through
lists of indexes and names (version 1) or through ranges (version 2), the
interrupt servers of processors, and the order of their bytes.

`Guard` has one action for each step of the daemon between which a child can end or
SIGCHLD be delivered. When the configuration is read, the restart policy (`SetSysparm`, or
`AskNvram`, `PolicyRead`, `UpdateNvram`, `PolicyWritten`); then a request for a processor, a block or a loss of capacity is
taken (`Take`) and handled: `StartConverter`, `ReadName`, `CheckCpu`, `CheckLmb` or
`ReadEntitlement` and `CountCpus`, `Spawn` of `drmgr`, `Tell`. `OwnEnds` and `KidEnds` end a child,
`sigchld_handler` reaps every child that has ended. `drmgr` takes the resource that has
the name it is given, if the partition has it, when it ends. The ghosts: `told` (what
the log says is offlined), `crossed` (a check made while an earlier `drmgr` still ran),
`shrunk` (processors taken by number), `stolen` (waits whose child the handler had
reaped), `faulty`.

Assumed: names advance with indexes in a range, as in the device trees of the
platform. Not modelled: `guard_mempage`, which writes one address to sysfs; SIGCHLD
in the middle of an action.

### PlatDump

`check_platform_dump` starts an extraction by the daemon and `RunByHand` one by an
administrator (the log tells him to, when there was no space). Each goes through
`FirstCall`, `Create`, `Write` and `Fetch` in turns, `Release` (the last call, which
lets the platform delete its copy) and `PrintName`, which rtas_errd reads to set
`RE_PLATDUMP_AVAIL`. Two dumps may suggest the same file name, both extractions may be
under way, a `write` may be short, and any call may fail (`ExtractionFails`). A file is a sequence
of cells, one per buffer, each of which knows its dump and whether it is whole.
`ReleasedIsWhole` lists as exceptions what the tool cannot see: a short write (ignored,
`extract_platdump.c:306`), two extractions to one file, a later dump of that name. Not
modelled: loss of power (nothing is synced), `remove_old_dumpfiles`, which nothing calls.

### V6Ela and Ela

An event is a record of what the analysis looks at: version, format, symptom bits,
whether it is predictive, repair modifiers, locations, reference codes, the EPOW
class and sensor. `process_pre_v6` is the analysis of versions below 6, in the order
of the code: reference codes, parts out of use, `process_v3_logs`, `process_epow`,
`process_v2_sp` and the formats of version 1 (`V1`). The symptom tables are functions from
bits to reason codes. The analysis returns the report and `mem`, what the daemon
remembers: the descriptions in `dchrp_frus.h` that the code writes into (`io9CC`,
`unknown`, `platform`) and the list of resets. `V6!process_v6` is
version 6. `PreV6`, `PreV6Dies` (an event on which the daemon dies or may die of a bad
pointer) and `Version6` analyse one event; `Restart` clears `mem`.

A report is its kind, the two numbers of an SRN or the number of a menu goal, the
callouts with their location and part, and whether it is called home. Left out:
texts, confidences but for zero, the error data, which nobody fills in.

### Indicator

A process is one command: set one indicator (`-l` or `-d`), set all and show them,
print, set all in silence as lp_diag does, or set the check-log indicator. Its list is built from the back ends in turn:
`GetRtasIndices` (one work area per step; the platform's list may change, `Plug`, and
`StartOver` is the answer -4), `GetOpalMode` and `OpalGetIndices`, `GetSesIndices` (one
enclosure per step, `SesOnce` skipping those that come again; the exit status of an
`encl_led` that lists is never looked at, so after one that fails the search goes on),
`GetMvIndices` (one block
device per step, `Ends` saying which one ends the search).
`Find` is the search with truncation of the location code and the retry for another
disk at the same location; `GetIndicator` and `SetIndicator` are one call of a back end,
which may fail; `set_ses_indicator` also has the outcome of an `encl_led` that a signal has
killed, success with the light as it was. `CheckLog` with an empty list ends the process as
"crashed". The Marvell registers are shared by all disks behind one address and
one data register: `MvEnter`, `MvRead` and `MvWrite` take one access per step. Ghosts:
`history` (lists the platform has had), `raced` (two processes inside the registers), and
for each process the commands it overlapped with and the lights whose `encl_led` was
`killed`.

Not modelled: vital product data and the device names of `dev_vpd`, the log of states
and its files, the texts.

## Runs

| run | configuration | checks | bounds |
|---|---|---|---|
| epow | `MCEpow.cfg` | `TypeOK`, `Monitored`, `ScriptsObey` (no script shuts the machine down without cause, gives up or ignores a recovery), `TimerSettles` | 2 events of the kinds of `MCEvents`, 1 restart, window of 4 ticks, script of 2 |
| rtas | `MCRtasErrd.cfg` | `AccountedFor`, `LifeInOrder` (an event is acted upon once in a life, SIGHUP is honoured), `ConfigSteady`, `EventuallyHandled` | 2 events, 2 deaths, 1 edit |
| opal | `MCOpalErrd.cfg` | `NoElogLost`, `DirectoryInOrder` (limits, newest kept, duplicates explained), refinement of `Custody`, `EventuallyAcknowledged` | 3 elogs, limits of 1, 2 faults, 1 crash, 2 seconds |
| dump | `MCExtractOpalDump.cfg` | `NoDumpLost`, `WholeOnceNamed`, `DirectoryInOrder` (the maximum, newest kept, giving up explained), refinement, `EventuallyAcknowledged` | 3 dumps, 2 with one name, maximum of 2, 1 fault, 1 crash or loss of power |
| lightpath | `MCLightPath.cfg` | at rest the LEDs agree with the open events (`OpenIsLit`, `LitIsOpen`), in both modes | 2 events of 6 kinds, 2 repairs, 1 failure |
| encl | `MCEnclDiag.cfg` | `FaultsTold`, `NothingTwice`, `FaultsLit` | 1 Bluehawk, 3 runs of which 2 overlap, 2 changes of 2 fans over 4 statuses, 1 failure |
| nvme | `MCDiagNvme.cfg` | `OneOpenEvent`, `FaultReported`, `ReadingsKept` | 2 runs that overlap, 3 devices (one with a padded location, one not on PCIe), 3 logs, 3 files of configuration, 1 change, 1 repair, 1 failure |
| prrn | `MCPrrn.cfg` | `WholeProperties`, `UpdatedThenReassigned` | 3 notifications in 2 seconds, 1 failure, properties of up to 2 pieces |
| guard | `MCGuard.cfg` | `MinimumKept`, `AnnouncedAndDone`, `RightResource`, `ChildrenHeard` | 3 processors (one with 2 threads), 2 blocks, 2 losses, 2 requests, 2 device trees |
| platdump | `MCPlatDump.cfg` | `ReleasedIsWhole`, `NamedIsWhole` | 2 dumps of one name, 3 buffers each, 2 runs by hand |
| ela | `MCEla.cfg` | `AnalysisForgets`, `CalloutsOwn`, `NeverSilent`, `SrnTellsSymptom` | every sequence of 2 of the events of `MCEla`, 1 restart or more |
| indicators | `MCIndicator.cfg` | `EntriesSound`, `DoneAsAsked`, `OthersUntouched` | 2 processes of 9 commands, both platforms, 1 change of the list, 1 failure or 1 `encl_led` killed |

Why the bounds are enough. Races need two actors and one more event to be
observed: two EPOW events and two scripts, two RTAS events of which one is
replayed and one read, two lp_diag processes of which one is a repair, two runs of
diag_encl that overlap and a third that relies on what they saved, two runs of
diag_nvme with a repair between them, two requests of which the second is checked
while the first is being taken, two processes in the registers. Prrn needs a third
notification, in a second of its own, for the daemon to be past a file that two
have shared. Limits need one more record than the limit. A second crash in RtasErrd
is what finds a replay that itself dies. What the analysis remembers of one event
can show in the next one, hence sequences of two; the events of `MCEla` have every
format, every symptom bit and its neighbours, up to six locations (more than
`MAXFRUS`), and each EPOW sensor and class. Three buffers have a first, a middle and a
last call. The three models of enclosure differ only in their lists of reports and
LEDs; for the lists of the other two all three properties are proved (see "Theorems"). The windows of Epow are shortened from 120 and 96 ticks to 4 and 2,
keeping the window longer than the script's wait as in the code; nothing else
depends on their lengths (the proofs have them as parameters).

Deadlock checking is off in all runs: each system may come to rest once the
bounded environment has nothing more to raise.

Fairness. `Epow`: time passes, the alarm handler and the scripts run. `RtasErrd`: the
daemon runs and is restarted by systemd, and signals are delivered. The OPAL
tools: the daemon runs and is restarted, opal_errd runs the tool every round.
Nothing makes the kernel, the firmware, syslogd or an operator act, and no
failure is forced or excluded but by its bound. The other modules state no
liveness: their processes are started by cron, an event or an operator, and what they owe
is said of the state in which they end.

## Where the code does not keep a promise

The properties that pass state a promise with its exceptions named (`raced`, `excused`,
`Conflict`, `missed`, `crossed`, `stolen`, `shared`, ...), so that a second way to break it would be
seen. The promise without the exception is a definition of the module where it says
so below; put in place of the properties of the module's configuration, it gives the
behaviour that breaks it.

| where | what is said | what happens |
|---|---|---|
| `Epow!RecoveryStopsShutdown` | rc.powerfail:50-53, "the epow_status file will be updated every 5 seconds.  If the status improves to "no action", there is no need to shut down" | SIGALRM between the decision (`epow.c:407`) and the write (408) writes "0" for the recovered sensor; the main thread overwrites it, and nothing rewrites it. So too between the test and the assignment of `time_remaining` (226-242) |
| `RtasErrd!SighupHonoured` | `signal.c:35-38`, "otherwise we set a flag to indicate that a re-configuration needs to occur at the next "safe" place" | the flag is in `d_cfg.flags`, which the loop loads and stores (`rtas_errd.c:299-305`): a handler in between has its flag overwritten |
| `RtasErrd!ExitsToPreserve` | `rtas_errd.c:149-151`, "Rtas_errd is exiting to preserve the current RTAS event in nvram due to a failed write to %s" | the failure is returned, and ignored by `read_rtas_events` (300) and `update_rtas_msgs` (`update.c:388`) |
| `LightPath!OpenNotDisabled` | `lp_diag.c:574-577`, "Do not disable fault indicator, if there exists an open serviceable event(s) with that location code." | a location is trimmed of spaces when an event lights it (352), and not when the open events are collected (272): a repair switches off the LED of an open event |
| `EnclDiag!AllFaultsTold` (`Enclosures <- OneSlider`, `Changing <- SliderSensors`) | `slider.c:309`, "Temperature sensor for ESC"; diag_encl.8:34, "Report any faults to the servicelog database" | the loop reads the sensors of the power supplies, a second time; those of the ESC are saved and never reported |
| `EnclDiag!OwnLocation` (`TwoSliders`, `SlidersChanging`) | `slider.c:137`, "Used to get location code with location_suffix_code" | the location of the first Slider is kept in a static buffer for all others (143) |

What else was met while the modules were written, and is in them as the code does it:

* **convert_dt_node_props.** With version 2 of the device tree a name is never
  converted to an index: a test after `sscanf` is the wrong way round. An index
  between two elements of a range gets a name. Interrupt servers are printed in the
  tree's byte order (`RightResource` says so of big-endian programs only). A failing
  `read` makes the loop endless (not in the model).
* **guard.** `guard_spcpu` takes a tenth of the remaining capacity as the number of
  processors *to remove* (`guard.c:415-420`), without looking at `MinProcessors` (the
  exception `shrunk`); `drmgr` is given at most four digits; a resource is logged as
  offlined whatever `drmgr` does; a converter that fails leaves an empty name, as
  `spclose` returns 0. At the start, `sigchld_handler` may reap a child before
  `waitpid` (`config.c:415`, 453): the policy is then given up (the exception `stolen`). A child that cannot execute nvram sets `restart_policy` in its own copy only.
* **prrn.** Two notifications in one second share a file: `drmgr` may act before the
  properties are copied, or delete the file of the other; so may the child that cannot
  execute `drmgr`. A property that ofdt did not take (`prrn.c:318-326`, ignored at 425 and
  488) is not in the device tree, and `drmgr` runs for it; a node whose line could not be
  written (521) is copied, and `drmgr` never hears of it (the exception `excused`).
* **platform dumps.** Short writes are ignored, nothing is synced, `creat` empties the
  file of another dump with that name, and two extractions of one dump spoil the file.
* **diag_nvme.** The lookup uses the location before spaces are trimmed (928), so that
  a device with a padded location gets a new event on every run. The item T4 of the raw data
  repeats the third sensor (the exception in `ReadingsKept`). `--file` with a missing file
  logs an event.
* **ela.** `valid_reset` is never looked at in the list of resets; an I/O bus error without
  locations reports those of the previous one; the reason code of an unknown sensor
  grows with every report; from version 4 on the EPOW of a sensor is called out twice; the goal
  for software is overwritten by the SRN that follows; several symptoms at once are
  silent before version 3; `get_cpu_frus` frees a string that is freed again; a part
  out of use compares a status that is never set; a version 6 event without a
  user header is logged after it has been freed.
* **indicators of enclosures.** `set_ses_indicator` takes `WEXITSTATUS` without `WIFEXITED`
  (`indicator_ses.c:501`): an `encl_led` killed by a signal counts as success, and the light
  is as it was (the exception `killed` of `DoneAsAsked`). Without an attention light on OPAL in
  guiding light mode the check log indicator is a NULL pointer (`indicator.c:353`).
* **usysident.** `--all-on` and `--all-off` compare a state that was not read when reading
  failed. The Marvell registers are read, changed and written without a lock: with two
  processes a light is lost, or the value of one register goes into another.

## Theorems

| theorem | statement | for all |
|---|---|---|
| `Epow_proofs!TypeCorrect` | `Spec => []TypeOK` | events, sensors, windows, numbers of scripts and restarts |
| `Epow_proofs!TimerMonitored` | `Spec => []Monitored` | the same |
| `Epow_proofs!ScriptsDoAsDecided` | `Spec => ScriptsObey` | the same |
| `RtasErrd_proofs!EventsAccountedFor` | `Spec => []AccountedFor` | kinds of event, numbers of events, deaths and edits, both word sizes |
| `RtasErrd_proofs!ConfigurationSteady` | `Spec => ConfigSteady` | the same |
| `RtasErrd_proofs!LivesInOrder` | `Spec => []LifeInOrder` | the same |
| `OpalErrd_proofs!ElogsKept` | `Spec => []NoElogLost` | elogs, limits, old files, failures, crashes |
| `OpalErrd_proofs!Implementation` | `Spec => ImplementsCustody` | the same |
| `OpalErrd_proofs!DirectoryKept` | `Spec => DirectoryInOrder` | the same |
| `ExtractOpalDump_proofs!DumpsKept` | `Spec => []NoDumpLost` | dumps, names, types, maximum, failures, crashes |
| `ExtractOpalDump_proofs!FilesWhole` | `Spec => []WholeOnceNamed` | the same |
| `ExtractOpalDump_proofs!Implementation` | `Spec => ImplementsCustody` | the same |
| `ExtractOpalDump_proofs!DirectoryKept` | `Spec => DirectoryInOrder` | the same |
| `EnclDiag_proofs!FaultsReported` | `OneSlider => Spec => []FaultsTold` | enclosures with at most one slider, runs, options, statuses, failures |
| `EnclDiag_proofs!FaultsSaidOnce` | `Spec => []NothingTwice` | any enclosures, runs, options, statuses, failures |
| `EnclDiag_proofs!SavedFaultsLit` | `Spec => []FaultsLit` | the same |
| `LightPath_proofs!OpenEventsLit` | `Spec => []OpenIsLit` | events, locations, indicators, repairs, failures |
| `LightPath_proofs!OnlyOpenEventsLit` | `Spec => []LitIsOpen` | the same |
| `LightPath_proofs!EntriesAreSound` | `IndicatorSpec => []EntriesSound` | back ends, locations, commands, processes, changes of the list, failures |
| `LightPath_proofs!OthersAreUntouched` | `IndicatorSpec => OthersUntouched` | the same |
| `LightPath_proofs!CommandsDoneAsAsked` | `IndicatorSpec => DoneAsAsked` | the same |
| `DiagNvme_proofs!OneEventOpen` | `Spec => []OneOpenEvent` | distinct devices, logs, configurations, runs, failures, kills, repairs |
| `DiagNvme_proofs!FaultsReturned` | `Spec => []FaultReported` | the same |
| `DiagNvme_proofs!LogsKept` | `Spec => []ReadingsKept` | the same |
| `Children_proofs!GuardKeepsMinimum` | `Spec => []MinimumKept` | processors, servers, blocks, device trees, losses, limits, requests |
| `Children_proofs!GuardAnnounces` | `Spec => []AnnouncedAndDone` | the same |
| `Children_proofs!GuardNamesRightResource` | `Spec => []RightResource` | the same |
| `Children_proofs!GuardHearsChildren` | `Spec => []ChildrenHeard` | the same |
| `Children_proofs!ReleasedKept` | `DumpSpec => []ReleasedIsWhole` | dumps, names, sizes, deaths, runs by hand |
| `Children_proofs!NamedKept` | `DumpSpec => NamedIsWhole` | the same |
| `Children_proofs!PropertiesWhole` | `PrrnSpec => []WholeProperties` | nodes, properties and their pieces, memory blocks, notifications, failures |
| `Children_proofs!UpdatedInOrder` | `PrrnSpec => []UpdatedThenReassigned` | the same |

The proofs assume the assumptions on the constants stated in each module; only
`FaultsReported` adds one of its own. Each goes by an inductive invariant, `IInv`
(`LifeInv` for `LivesInOrder`, `FaultsSaidOnce` and `SavedFaultsLit`, `ObeyInv` for
`ScriptsDoAsDecided`, `DirInv` for `DirectoryKept`, `DumpInv` for those of `PlatDump`, `PrrnInv` for those of `Prrn`,
`IndicatorInv` and `DoneInv` for those of `Indicator`), one lemma
per action. `LifeInOrder`, `LitIsOpen`, `FaultsLit`, `ReadingsKept`, `DirectoryInOrder`, `ChildrenHeard`,
`ReleasedIsWhole`, `UpdatedThenReassigned` and `EntriesSound` include the type invariant of their module, which is thereby proved too.

* **Epow.** `Monitored` is not inductive: at `pc = "extend"` the window is about to be
  set, so `TimerInv` asks for the timer there too. The type of the file needs
  `OffsetInv`: before a write the offset is 0, or 1 if a handler has written since
  the seek; with two digits the file has then at most three. `ScriptsObey` takes three
  arguments, about what the bytes of the file say of the past. `FileInv`: every digit that
  can take the machine down has been decided, also when the digits of two statuses are
  mixed. `ReadyInv`: a script whose status has not been lowered finds the first digit of its
  own or of a later event at the start of the file, so it reads 0 never and an undefined
  status only with two digits. `WaitingInv`: while the file tells scripts to wait, the
  timer still runs when the last of them has polled for the last time, or has run out in
  the tick of that poll; this is where `WindowTicks > ScriptTicks + MaxLate`
  (600 s against 480 s) is needed, and where an alarm amid an update (`raced`) would break it.
* **RtasErrd.** `AccountedFor` speaks only of `pc = "read"`. `IInv` follows the event in
  hand through all points (`ReadInv` while reading, `ReplayInv` while catching up) and
  keeps the platform log from getting ahead of what is done (`LogInv`), which is
  what a restart relies on. One life needs more: `Where` says where in the kernel's
  queue and in syslog the event in hand is, `Counted` how often each event has been acted
  upon by then, and from which of the two, and `Heard` that a SIGHUP whose
  effect is still to come is pending, recorded or excused by a race.
* **OpalErrd and ExtractOpalDump.** `Processed` splits the records raised into those
  held, saved and failed; `Kept` says that what was saved is on disk or has been
  evicted; `InHand` that the record in hand is held. For dumps the invariant also
  relates a file's name to its data: what is renamed has been synced, and what has
  been acknowledged as saved is durable. The refinement proofs map every action to
  one of `Custody` or a stutter.
* **Their directories.** `DirectoryInOrder` counts files. `rotate_logs` goes by the place of a
  file among those of its type (`Index`); no two files have one place, since no two have the
  same second and elog (`FilesInv`), so the files from place n on are all but n
  (`NewestCount`), and what is not in excess is just the limit and newer than what is. An
  elog has one copy for each failed acknowledgement, each death and each file of an old
  version, and one more once it has been saved for good (`CopiesInv`). `remove_dump_files` names
  its victims before it unlinks them: `Marked` says that `MaxDump - 1` files that are not older
  stay, and `Room` carries the count, each step but the opening of the temporary file being a map
  of the files that keeps their types (`StepMaps`). `Clean`: without a failure or a death a
  temporary file is the one in hand. The directory of old files is assumed finite.
* **EnclDiag.** `FaultsTold` speaks of the saved files only. `RunOK` carries it through a
  run: the file compared with is all right (`FileOK`), and once the file is open nothing
  is left to report. `SavedFile` is the heart: an element with no odd status that is
  faulty and was not reported has not worsened (`FaultyEntry`, `NotWorsened`), so its
  fault was told before. With two sliders it does not hold: a report at the
  location of another enclosure (see `OwnLocation` above) does not count as told. Hence
  `OneSlider`. `NothingTwice` and `FaultsLit` hold for any number of them. The first
  compares two runs: while a run is undisturbed no other is under way (`Alone`), so
  what the last one saved is still the file (`LastKept`) and is what this one compares
  with (`Compared`). For the second, `LightsComing`: the LEDs of a page are lit, or the run
  that has saved it is about to see to them.
* **LightPath.** At rest there is nothing to see of why the LEDs are right; the invariant
  is about what the processes under way still have in hand (`Pending`). A service process
  sets only what its event asks for (`ServiceOK`); a repair process switches off only
  what its own events mention and, of what it has seen open, at most the attention
  indicator (`RepairOK`). What an open event asks for is lit or will be (`OpenInv`);
  what is lit without one is about to be switched off (`LitInv`).
* **Indicator.** `EntriesSound` is about the list in use; what leads there is about the list
  being put together. `AreaInv`: as long as the platform's list has not changed since, what
  a process has is the beginning of it; if it has, the next work area starts over. `ListInv`
  carries the complete list (`OneList`) through the enclosures and the disks, whose
  lights cannot be in it yet because each comes from an earlier enclosure or device
  (`FromEnclosure`, `FromBlock`). `Meant` is the search. For `OthersUntouched`, `AloneInv`: a
  process that has had the registers for itself has selected the one it will write, and
  holds in `buf` what is in it, so that it changes one bit. `DoneAsAsked` is about one step,
  but that step ends a long walk: `Asked` says which entries a command must have done by the
  place where it stands, `Satisfied` which lights of its list are as it wants them or are
  disturbed. What it has done, others undo only if they disturb it, and they know of each other
  (`WithInv`); so every step of any process takes `Asked` to itself (`Becomes`). Assumed
  of the constants: a back end names no indicator twice; different enclosures and the
  platform have different indicators; a disk has a SATA port of its own.
* **DiagNvme.** `OneOpenEvent` relates two events by what the lookup of the second saw;
  `LookedUp` holds that between the lookup and the event. For `FaultReported`, a device
  found faulty is settled (`Settled`: an open event, one closed since, or a failure in the
  return code) or is the one to be reported (`ToReport`); it takes that a run
  looks at a device once (`Ahead`), hence the assumption that the entries of
  `/sys/class/nvme` are distinct. For `ReadingsKept`, `RawOK` says that the raw data of a run,
  once filled, are those of the log it has read, and that there are none without one; `Told`
  carries them from the decision, which they bear out (`Held`), past a failed lookup or a
  first event to the event that is logged, and says that the next device begins with none.
  What was read from a file is the log by `FileKept`: every key names one field.
* **Guard.** Each property has an invariant of its own. For `MinimumKept` they are `CpuInv`,
  `LmbInv` and `CapacityInv`: as long as no check crossed a `drmgr` of its kind, at most one
  such `drmgr` runs (`Alone`), none while a checked request waits for its own to be
  started, and what it will take has been found to be more than the minimum; a request for
  capacity carries the value it read, which must still be the present one. `SaidInv`
  and `DoneInv` are the two halves of `AnnouncedAndDone`: what has gone has been said, or will
  be by the next step; and what has been said has gone, or some `drmgr` that runs has its
  name. The second is why an empty name must mean that the resource had gone already, from the
  converter's exit (`OwnInv`) to the `drmgr`. `RightResource` needs that the name read belongs to the
  resource of the event all the way (`Calls`, in `MainInv`, `OwnInv` and `KidsInv`), and facts about
  the converter: the first place at which a search stops (`FirstPlace`, by minimal
  counterexample) names the index asked for in both forms of the tree (`NameOfIndex`),
  no other index has that name (`NameIsOwn`), and back again (`BackRight`). For
  `ChildrenHeard`, `JobInv` says where a child is waited for and `CatcherInv` that the converter
  lives only under the default disposition. Assumed of the constants: the device tree names
  every resource, each by a name of its own, in either form (`Describes`; a range that
  spans an index has it as an element); a server belongs to one processor; a loss is a
  field of 16 bits; the partition starts with its minimum.
* **PlatDump.** `Kept` alone says nothing of a file that is being written. `Growing` relates
  the file to the offset of whoever writes it, up to the whole file at `release`;
  `StillHeld` says that what is being written is still with the platform, so that
  emptying a file loses nothing; and `Aware` that two extractions to one file know of
  each other, which excuses whatever they do to it.
* **Prrn.** `CommandInv` is about the command that is put together: as many pieces as
  have come, as its length says, all of one version unless the node is `torn`, none older
  than the notification. What is written is then whole. That it stays new enough takes
  `VersionInv` (versions only grow, so a later notification wants no less) and
  `UpdatedInv`, which counts entries and properties passed so far. For `drmgr`, every entry
  passed is in the file as long as the daemon or a `drmgr` that will read holds it, or is
  done (`HandledInv`). All this is about a file that nobody else touches: `OwnFileInv` says
  that a notification that is not excused has its file for itself, from the moment it is
  opened, because a file that is found there always has a `drmgr` to delete it (`DirInv`), and
  that `drmgr` then shows that the two notifications share a second. `LinesInv` keeps the
  lines of one notification out of the file of another, which is why no `drmgr` can be
  early. Assumed: a node has no two properties of one name, and only data come in pieces.

`Children_proofs` is about three modules, `Guard`, `PlatDump` and `Prrn`, the processes that
rtas_errd starts; hence the names `DumpSpec`, `PrrnSpec` and so on of the latter two. So is
`LightPath_proofs` about `LightPath` and `Indicator`, the two ways to the indicators.

Only model-checked: all liveness, and the properties of `Ela`. Liveness takes `ENABLED`, which
the proof system does not handle. The properties of `Ela` compare what is reported with
tables of the code (SRNs, callouts), which TLC goes through entry by entry.

## Plan

Done, in this order: EPOW, the event loop, opal_errd, extract_opal_dump, lp_diag,
diag_encl, diag_nvme, PRRN, guard with its children and the converter, platform
dumps, the error log analysis, the indicators.

Next modules, by the weight of what can go wrong in them:

1. `FindEvent` (`update.c:60-130`): the skip table against a naive search.
2. Rotation of the platform log (`files.c:600-700`) in `RtasErrd`.
3. Loss of power in `OpalErrd` (`opal_errd.c:667-681`), and two extractors at a time in
   `ExtractOpalDump`.
4. `Hotplug` (`hotplug.c`, `eeh.c`) and `guard_mempage`, with `Guard`'s children.
5. The grammar of the configuration file (`config.c`).

Theorems to prove next: the invariants of `Ela` that do not depend on the contents of its tables.

## Not modelled, and why

`ela/` (a catalogue of syslog messages and its scanner) and the parsers of OPAL elogs
and dumps translate one input into text: they have no state and no concurrency, and
their tests compare outputs. `diag_disk`, `encl_led`, the Pearl enclosure and the curses interface of
lp_diag read or set one thing at a time. Vital product data, the texts of the
tables in `ela_msg.h`, `dchrp_frus.h` and `slider.h`, `platform.c`, logging and
the installation scripts are left out. `remove_old_dumpfiles` is not called. `hotplug.c` and
`eeh.c` start one program for one event.

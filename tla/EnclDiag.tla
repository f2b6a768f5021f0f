------------------------------ MODULE EnclDiag ------------------------------
(***************************************************************************)
(* diag_encl -s [-c] [-l]: diagnosis of SCSI enclosures.                   *)
(*                                                                         *)
(* A run reads the status page of every enclosure, reports its faults to   *)
(* the servicelog, saves the page and lights the fault LEDs.  With -c it   *)
(* reports only what is worse than in the page the previous run saved: a   *)
(* fault that is saved is a fault nobody will hear of again.  The daily    *)
(* run of cron (run_diag_encl: -c -s -l) and those of an administrator may *)
(* overlap; no lock is taken.                                              *)
(*                                                                         *)
(* Elements of one kind that are treated alike (two power supplies, thirty *)
(* disks) are represented by one, those that are reported together by two. *)
(* Running out of memory is not modelled.                                  *)
(***************************************************************************)
EXTENDS Integers, Sequences, Functions, FiniteSetsExt

CONSTANTS
  Enclosures, \* the models of the enclosures, in the order they are found
  Processes,  \* the runs that may overlap
  Options,    \* the sets of options a run may have, besides -s
  Statuses,   \* bound: the statuses that elements take
  Changing,   \* bound: the elements whose status changes
  MaxChanges, \* bound: changes of status
  MaxRuns,    \* bound: runs
  MaxFaults   \* bound: failures, of a system call or a process

(* enum element_status_code                                                *)
Unsupported   == 0
OK            == 1
Critical      == 2
NonCritical   == 3
Unrecoverable == 4
NotInstalled  == 5
NoAccess      == 8  \* the last

Models == {"bluehawk", "homerun", "slider"}

ASSUME ConstantsAssumption ==
  /\ Enclosures \in Seq(Models) /\ Enclosures # <<>>
  /\ Options \subseteq SUBSET {"c", "l"}
  /\ Statuses \subseteq Unsupported .. NoAccess /\ OK \in Statuses
  /\ MaxChanges \in Nat /\ MaxRuns \in Nat /\ MaxFaults \in Nat

N == DOMAIN Enclosures

-----------------------------------------------------------------------------
(* What each model reports, in this order: every entry is one event about  *)
(* the elements it lists.                                                  *)
BluehawkReports ==
  << <<"disk">>, <<"ps">>, <<"volt1", "volt2">>, <<"psfan">>, <<"fan1", "fan2">>,
     <<"pstemp1", "pstemp2">>, <<"temp1", "temp2">>, <<"esm">>, <<"sas">>, <<"pcie">>,
     <<"midplane">> >>
HomerunReports ==
  << <<"disk">>, <<"ps">>, <<"volt1", "volt2">>, <<"fan1", "fan2">>,
     <<"pstemp1", "pstemp2">>, <<"temp">>, <<"esm">> >>
(* A Slider has a function for each kind of element; the loop over the     *)
(* sensors of the service controllers (esctemp) reads psutemp again.       *)
DiskFault == <<"disk">>
PowerSupplyFault == <<"ps">>
CoolingFault == <<"fan">>
AmbientFault == <<"encltemp">>
PsuTempFault == <<"psutemp">>
EscTempFault == <<"psutemp">>
EscFault == <<"esc">>
EnclosureFault == <<"encl">>
VoltageFault == <<"volt1", "volt2">>
ExpanderFault == <<"expander">>
ConnectorFault == <<"sas">>
MidplaneFault == <<"midplane">>
PhyFault == <<"phy">>
StateSaveFault == <<"ssb">>
CpldFault == <<"cpld">>
InputPowerFault == <<"input">>
SliderReports ==
  << DiskFault, PowerSupplyFault, CoolingFault, AmbientFault, PsuTempFault, EscTempFault,
     EscFault, EnclosureFault, VoltageFault, ExpanderFault, ConnectorFault, MidplaneFault,
     PhyFault, StateSaveFault, CpldFault, InputPowerFault >>
Reports == [bluehawk |-> BluehawkReports, homerun |-> HomerunReports, slider |-> SliderReports]

(* The elements a model reports, and all those it is meant to report.      *)
Reported(m) == UNION {Range(Reports[m][i]) : i \in DOMAIN Reports[m]}
Elements(m) == Reported(m) \union (IF m = "slider" THEN {"esctemp"} ELSE {})

(* The elements by whose status a LED is lit.  A fan assembly has one LED; *)
(* only the status of its first fan lights it.                             *)
BluehawkLeds == {"disk", "ps", "fan1", "esm", "sas", "pcie", "midplane"}
HomerunLeds  == {"disk", "ps", "fan1", "esm"}
SliderLeds   == {"disk", "ps", "fan", "esc", "sas", "encl"}
Leds == [bluehawk |-> BluehawkLeds, homerun |-> HomerunLeds, slider |-> SliderLeds]

ASSUME ChangingAssumption ==
  \A x \in Changing : x[1] \in N /\ x[2] \in Elements(Enclosures[x[1]])

-----------------------------------------------------------------------------
VARIABLES
  page,    \* the status page of each enclosure
  saved,   \* the file with the page of the last run, with what was told of it
  lit,     \* the fault LEDs of each enclosure
  run,     \* the runs
  changes, runs, faults,
  (* Kept for the properties only: *)
  last,    \* the page of the last run, if it was alone and saved it
  dark     \* the LEDs that a failure left alone

vars == <<page, saved, lit, run, changes, runs, faults, last, dark>>

NoPage == <<>>
Pages(n) == [Elements(Enclosures[n]) -> Statuses]

(* A file that does not hold a page.  Of a page that is saved, told says   *)
(* how bad a fault has been reported for each element, missed for which    *)
(* there is a known reason that it has not, and leds whether its run was   *)
(* to light LEDs.                                                          *)
NoFile == [page |-> NoPage, told |-> NoPage, missed |-> {}, leds |-> FALSE]

(* A run: its options, the enclosure it is at, the page it has read, the   *)
(* file it compares with, the entries it has reported and the enclosure    *)
(* whose location slider.c has cached, or 0.  For the properties: the      *)
(* elements whose report failed, last as it was when the page was read,    *)
(* and whether no other run has been at this enclosure since.              *)
NoRun == [pc |-> "idle", opts |-> {}, n |-> 0, dp |-> NoPage, prev |-> NoFile,
          said |-> {}, cached |-> 0, missed |-> {}, since |-> NoPage, alone |-> FALSE]

At(p, pc) == run[p].pc = pc
Enclosure(p) == Enclosures[run[p].n]
Step(p, r) == run' = [run EXCEPT ![p] = r]

(* diagnose is called for the next enclosure, until main ends.             *)
NextEnclosure(r) ==
  IF r.n = Len(Enclosures) THEN NoRun
  ELSE [NoRun EXCEPT !.pc = "page", !.opts = r.opts, !.n = r.n + 1, !.cached = r.cached]

Fails == faults < MaxFaults /\ faults' = faults + 1

Init ==
  /\ page = [n \in N |-> [e \in Elements(Enclosures[n]) |-> OK]]
  /\ saved = [n \in N |-> NoFile] /\ lit = [n \in N |-> {}]
  /\ run = [p \in Processes |-> NoRun]
  /\ changes = 0 /\ runs = 0 /\ faults = 0
  /\ last = [n \in N |-> NoPage] /\ dark = [n \in N |-> {}]

-----------------------------------------------------------------------------
(* The comparison of statuses in encl_common.c.                            *)

worse_element_status(cur, new) ==
  IF new \notin {OK, NotInstalled} /\ cur \in {OK, NonCritical} /\ new > OK
  THEN new ELSE cur

(* Of the first and the last of els, which are all there are.              *)
composite_status(els, dp) ==
  worse_element_status(worse_element_status(OK, dp[els[1]]), dp[els[Len(els)]])

WorsenedIfDifferent(old, new) == new # old  \* mutant
WorsenedIfGreater(old, new) == new > old    \* mutant
status_worsened(old, new) == worse_element_status(old, new) # old

Reportable(els, dp, prev) ==
  prev = NoPage \/ \E e \in Range(els) : status_worsened(prev[e], dp[e])

(* svclog_element_status, svclog_composite_status: whether there is an     *)
(* event to log, an error or a warning.                                    *)
Faulty(els, dp) == composite_status(els, dp) \in {Critical, NonCritical}

(* The entries that a run still has to report.                             *)
Remaining(r) ==
  {i \in DOMAIN Reports[Enclosures[r.n]] \ r.said :
     LET els == Reports[Enclosures[r.n]][i]
     IN  Reportable(els, r.dp, r.prev.page) /\ Faulty(els, r.dp)}

-----------------------------------------------------------------------------
(* For the properties: how bad a status is for the reports, and for which  *)
(* elements a report on an element is no matter of course, because an odd  *)
(* status hides others: worse_element_status neither replaces one nor      *)
(* takes it for the lesser evil.                                           *)
Rank(s) == IF s = Critical THEN 2 ELSE IF s = NonCritical THEN 1 ELSE 0
Badness(s) == CASE s \in {OK, NotInstalled, Unsupported} -> 0
                [] s = NonCritical -> 1
                [] OTHER -> 2
Odd(s) == s \notin {OK, Critical, NonCritical}

With(e, m) == {e} \union UNION {Range(els) : els \in {x \in Range(Reports[m]) : e \in Range(x)}}
Hidden(e, r) ==
  \E x \in With(e, Enclosures[r.n]) :
    Odd(r.dp[x]) \/ (r.prev.page # NoPage /\ Odd(r.prev.page[x]))

(* What has been told of a page when its run saves it: what the run has    *)
(* reported, if at the right location, and what was told before and is no  *)
(* worse now.                                                              *)
Misplaced(r) == Enclosures[r.n] = "slider" /\ r.cached \notin {0, r.n}
Said(r) == IF Misplaced(r) THEN {} ELSE UNION {Range(Reports[Enclosures[r.n]][i]) : i \in r.said}
Told(r) ==
  [e \in DOMAIN r.dp |->
     IF e \in Said(r) \ r.missed THEN Rank(r.dp[e])
     ELSE IF r.prev.page = NoPage THEN 0
     ELSE Min({Rank(r.dp[e]), r.prev.told[e]})]
File(r) ==
  [page |-> r.dp, told |-> Told(r), leds |-> "l" \in r.opts,
   missed |-> {e \in DOMAIN r.dp : Rank(r.dp[e]) > Told(r)[e]
                 /\ e \in r.missed \union r.prev.missed \union {x \in DOMAIN r.dp : Hidden(x, r)}}]

-----------------------------------------------------------------------------
(* The enclosures.                                                         *)

Change ==
  /\ changes < MaxChanges /\ changes' = changes + 1
  /\ \E x \in Changing, s \in Statuses :
       page[x[1]][x[2]] # s /\ page' = [page EXCEPT ![x[1]][x[2]] = s]
  /\ UNCHANGED <<saved, lit, run, runs, faults, last, dark>>

-----------------------------------------------------------------------------
(* The runs.                                                               *)

Begin(p) ==
  /\ At(p, "idle") /\ runs < MaxRuns /\ runs' = runs + 1
  /\ \E opts \in Options : Step(p, [NoRun EXCEPT !.pc = "page", !.opts = opts, !.n = 1])
  /\ UNCHANGED <<page, saved, lit, changes, faults, last, dark>>

(* The device may be offline, or not answer: the enclosure is skipped.     *)
SkipEnclosure(p) ==
  /\ At(p, "page") /\ Fails /\ Step(p, NextEnclosure(run[p]))
  /\ UNCHANGED <<page, saved, lit, changes, runs, last, dark>>

ReadPage(p) ==
  LET n == run[p].n
      Here(q) == q # p /\ run[q].n = n /\ ~At(q, "page")
  IN  /\ At(p, "page")
      /\ run' = [q \in Processes |->
                   IF q = p
                   THEN [run[p] EXCEPT !.pc = IF "c" \in run[p].opts THEN "previous" ELSE "report",
                                       !.dp = page[n], !.since = last[n],
                                       !.alone = ~\E x \in Processes : Here(x)]
                   ELSE [run[q] EXCEPT !.alone = @ /\ ~Here(q)]]
      /\ last' = [last EXCEPT ![n] = NoPage]
      /\ UNCHANGED <<page, saved, lit, changes, runs, faults, dark>>

(* With -c only: the file may be missing, or empty.                        *)
ReadPrevious(p) ==
  /\ At(p, "previous")
  /\ Step(p, [run[p] EXCEPT !.pc = "report", !.prev = saved[run[p].n]])
  /\ UNCHANGED <<page, saved, lit, changes, runs, faults, last, dark>>

(* One event.  Nobody looks at the result of servevent.  get_location_code *)
(* of slider.c takes the location of the first enclosure it is called for. *)
Report(p) ==
  /\ At(p, "report") /\ Remaining(run[p]) # {}
  /\ LET r == run[p]
         i == Min(Remaining(r))
         said == [r EXCEPT !.said = @ \union {i},
                           !.cached = IF Enclosure(p) = "slider" /\ @ = 0 THEN r.n ELSE @]
     IN  \/ Step(p, said) /\ UNCHANGED faults
         \/ /\ Fails
            /\ Step(p, [said EXCEPT !.missed = @ \union Range(Reports[Enclosure(p)][i])])
  /\ UNCHANGED <<page, saved, lit, changes, runs, last, dark>>

(* write_page2_to_file: fopen empties the file; if it fails the file stays *)
(* as it is and no LEDs are lit.                                           *)
OpenFile(p) ==
  /\ At(p, "report") /\ Remaining(run[p]) = {}
  /\ \/ /\ Step(p, [run[p] EXCEPT !.pc = "write"])
        /\ saved' = [saved EXCEPT ![run[p].n] = NoFile]
        /\ UNCHANGED faults
     \/ Fails /\ Step(p, NextEnclosure(run[p])) /\ UNCHANGED saved
  /\ UNCHANGED <<page, lit, changes, runs, last, dark>>

AfterFile(r) == IF "l" \in r.opts THEN [r EXCEPT !.pc = "leds"] ELSE NextEnclosure(r)

(* The page is written by fclose, whose result is not looked at.           *)
WritePage(p) ==
  LET r == run[p]
  IN  /\ At(p, "write") /\ Step(p, AfterFile(r))
      /\ \/ /\ saved' = [saved EXCEPT ![r.n] = File(r)]
            /\ last' = [last EXCEPT ![r.n] = IF r.alone THEN r.dp ELSE NoPage]
            /\ UNCHANGED faults
         \/ Fails /\ UNCHANGED <<saved, last>>
      /\ UNCHANGED <<page, lit, changes, runs, dark>>

(* FAULT_LED of every element that has a LED, then one SEND_DIAGNOSTIC.    *)
FaultLedsCritical(r) ==  \* mutant
  {e \in Leds[Enclosures[r.n]] : r.dp[e] \in {Critical, Unrecoverable}}
FaultLeds(r) ==
  {e \in Leds[Enclosures[r.n]] : r.dp[e] \in {Critical, NonCritical, Unrecoverable}}

SetLeds(p) ==
  LET r == run[p]
  IN  /\ At(p, "leds") /\ Step(p, NextEnclosure(r))
      /\ \/ lit' = [lit EXCEPT ![r.n] = @ \union FaultLeds(r)] /\ UNCHANGED <<faults, dark>>
         \/ /\ Fails /\ UNCHANGED lit
            /\ dark' = [dark EXCEPT ![r.n] = @ \union Leds[Enclosure(p)]]
      /\ UNCHANGED <<page, saved, changes, runs, last>>

(* A run is killed, or the machine restarts.                               *)
Kill(p) ==
  /\ ~At(p, "idle") /\ Fails /\ Step(p, NoRun)
  /\ dark' = [dark EXCEPT ![run[p].n] = IF At(p, "leds") THEN Leds[Enclosure(p)] ELSE @]
  /\ UNCHANGED <<page, saved, lit, changes, runs, last>>

-----------------------------------------------------------------------------
Next ==
  \/ Change
  \/ \E p \in Processes :
       \/ Begin(p) \/ SkipEnclosure(p) \/ ReadPage(p) \/ ReadPrevious(p) \/ Report(p)
       \/ OpenFile(p) \/ WritePage(p) \/ SetLeds(p) \/ Kill(p)

Spec == Init /\ [][Next]_vars

-----------------------------------------------------------------------------
(* Properties.                                                             *)

PageOrNone(n) == Pages(n) \union {NoPage}

FileType(f, n) ==
  /\ f.page \in PageOrNone(n) /\ f.missed \subseteq Elements(Enclosures[n]) /\ f.leds \in BOOLEAN
  /\ f.told \in [DOMAIN f.page -> 0 .. 2]

RunType(r) ==
  IF r.pc = "idle" THEN r = NoRun
  ELSE /\ r.pc \in {"page", "previous", "report", "write", "leds"} /\ r.opts \in Options
       /\ r.n \in N /\ r.cached \in 0 .. r.n /\ FileType(r.prev, r.n)
       /\ r.dp \in (IF r.pc = "page" THEN {NoPage} ELSE Pages(r.n))
       /\ r.said \subseteq DOMAIN Reports[Enclosures[r.n]]
       /\ r.missed \subseteq Reported(Enclosures[r.n])
       /\ r.since \in PageOrNone(r.n) /\ r.alone \in BOOLEAN
       /\ r.pc = "previous" => "c" \in r.opts
       /\ r.pc \in {"page", "previous"} => r.said = {} /\ r.prev = NoFile
       /\ r.pc = "leds" => "l" \in r.opts

(* Every variable has its type; a run starts each enclosure without page,  *)
(* previous page and reports of the one before.                            *)
TypeOK ==
  /\ DOMAIN page = N /\ \A n \in N : page[n] \in Pages(n)
  /\ \A n \in N : FileType(saved[n], n) /\ last[n] \in PageOrNone(n)
  /\ \A n \in N : lit[n] \subseteq Leds[Enclosures[n]] /\ dark[n] \subseteq Leds[Enclosures[n]]
  /\ \A p \in Processes : RunType(run[p])
  /\ changes \in 0 .. MaxChanges /\ runs \in 0 .. MaxRuns /\ faults \in 0 .. MaxFaults

(* A fault in the saved page, about which later runs with -c are silent,   *)
(* has been reported with this severity or a higher one, at the location   *)
(* of its own enclosure: whichever runs overlapped, died or failed to      *)
(* save.  The exceptions: the servicelog refused the report, or an odd     *)
(* status of the element or of one reported with it hid the fault.         *)
FaultsTold ==
  \A n \in N : saved[n].page # NoPage =>
    \A e \in Reported(Enclosures[n]) :
      Rank(saved[n].page[e]) <= saved[n].told[e] \/ e \in saved[n].missed

(* A run with -c that follows an undisturbed run, and is not disturbed by  *)
(* another, reports an entry only if an element of it has become worse     *)
(* since that run (diag_encl.8, -c).                                       *)
NothingTwice ==
  \A p \in Processes :
    LET r == run[p]
    IN  "c" \in r.opts /\ r.alone /\ r.since # NoPage =>
          \A i \in r.said : \E e \in Range(Reports[Enclosures[r.n]][i]) :
            Badness(r.dp[e]) > Badness(r.since[e])

(* When no run is under way, every faulty element of a page that a run     *)
(* with -l has saved has its LED lit, unless the enclosure refused or the  *)
(* run was killed.  Fans of an assembly other than the first have none.    *)
(* Includes the type invariant.                                            *)
FaultsLit ==
  /\ TypeOK
  /\ (\A p \in Processes : At(p, "idle")) =>
       \A n \in N : saved[n].leds =>
         \A e \in Leds[Enclosures[n]] :
           Badness(saved[n].page[e]) > 0 /\ saved[n].page[e] <= Unrecoverable
             => e \in lit[n] \union dark[n]

(* Violated: every fault of every element of the saved page was reported.  *)
AllFaultsTold ==
  \A n \in N : \A e \in DOMAIN saved[n].page :
    Rank(saved[n].page[e]) <= saved[n].told[e]

(* Violated: a fault is reported at the location of its own enclosure.     *)
OwnLocation == \A p \in Processes : run[p].said # {} => ~Misplaced(run[p])
=============================================================================

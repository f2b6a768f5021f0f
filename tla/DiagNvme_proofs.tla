-------------------------- MODULE DiagNvme_proofs --------------------------
(***************************************************************************)
(* Proofs about DiagNvme: no second event is open for a device, no fault   *)
(* goes unreported in silence, and the readings are those of the device.   *)
(***************************************************************************)
EXTENDS DiagNvme, SequenceTheorems, TLAPS

-----------------------------------------------------------------------------
(* The fields of a log, under the keys of a file and as the items of an    *)
(* event.                                                                  *)

LEMMA EveryKey == \A f \in Fields : \E k \in DOMAIN SmartKeys : SmartKeys[k] = f
  BY DEF Fields, Range

LEMMA EveryItem == \A f \in Fields \ {"temp_sensor4"} : \E i \in DOMAIN Items : Items[i] = f
<1>1. Fields \ {"temp_sensor4"} \subseteq {Items[i] : i \in DOMAIN Items}
  BY DEF Fields, Range, SmartKeys, Items
<1> QED
  BY <1>1

(* What is read from a file is what has been written to it.                *)
LEMMA FileKept ==
  ASSUME NEW n \in DOMAIN Logs
  PROVE  /\ ~Refused(write_smart_file(Logs[n]))
         /\ set_smart_log_field(write_smart_file(Logs[n])) = Logs[n]
<1> DEFINE lines == write_smart_file(Logs[n])
<1>1. DOMAIN lines = DOMAIN SmartKeys /\ \A k \in DOMAIN SmartKeys : lines[k] = Logs[n][SmartKeys[k]]
  BY DEF write_smart_file
<1>2. \A k \in DOMAIN SmartKeys : SmartKeys[k] \in Fields
  BY DEF Fields, Range
<1>3. Logs[n] \in [Fields -> Nat] /\ \A f \in Fields : Fits(f, Logs[n][f])
  BY ConstantsAssumption
<1>4. ~Refused(lines)
  BY <1>1, <1>2, <1>3 DEF Refused
<1>5. ASSUME NEW f \in Fields
      PROVE  set_smart_log_field(lines)[f] = Logs[n][f]
  <2> DEFINE keys == {k \in DOMAIN lines : SmartKeys[k] = f}
  <2>1. PICK c : c = CHOOSE k \in keys : TRUE
    OBVIOUS
  <2>2. keys # {}
    BY <1>1, EveryKey
  <2>3. c \in keys
    BY <2>1, <2>2
  <2>4. set_smart_log_field(lines)[f] = lines[c]
    BY <2>1, <2>2 DEF set_smart_log_field
  <2> QED
    BY <1>1, <2>3, <2>4
<1>6. set_smart_log_field(lines) = [f \in Fields |-> set_smart_log_field(lines)[f]]
  BY DEF set_smart_log_field
<1>7. set_smart_log_field(lines) = Logs[n]
  <2> PICK g : g = set_smart_log_field(lines)
    OBVIOUS
  <2> QED
    BY <1>3, <1>5, <1>6
<1> QED
  BY <1>4, <1>7

LEMMA ItemsKept ==
  ASSUME NEW log
  PROVE  {log[f] : f \in Fields \ {"temp_sensor4"}} \subseteq Range(raw_data_smart(log))
<1>1. ASSUME NEW f \in Fields \ {"temp_sensor4"}
      PROVE  log[f] \in Range(raw_data_smart(log))
  <2>1. PICK i \in DOMAIN Items : Items[i] = f
    BY EveryItem
  <2>2. i \in DOMAIN raw_data_smart(log) /\ raw_data_smart(log)[i] = log[f]
    BY <2>1 DEF raw_data_smart
  <2> QED
    BY <2>2 DEF Range
<1> QED
  BY <1>1

(* The items that an event is borne out by.                                *)
LEMMA ItemValues ==
  ASSUME NEW log
  PROVE  /\ raw_data_smart(log)["CW"] = log["critical_warning"]
         /\ raw_data_smart(log)["PH"] = log["power_on_hours"]
         /\ raw_data_smart(log)["DW"] = log["data_units_written"]
<1>1. /\ "CW" \in DOMAIN Items /\ Items["CW"] = "critical_warning"
      /\ "PH" \in DOMAIN Items /\ Items["PH"] = "power_on_hours"
      /\ "DW" \in DOMAIN Items /\ Items["DW"] = "data_units_written"
  BY DEF Items
<1> QED
  BY <1>1 DEF raw_data_smart

(* A log that has been read is not mistaken for one that has not.          *)
LEMMA LogRead ==
  ASSUME NEW n \in DOMAIN Logs
  PROVE  LogOf(n) = Logs[n] /\ Logs[n] # NoLog /\ n # "none"
<1>1. Logs[n] \in [Fields -> Nat] /\ "none" \notin DOMAIN Logs
  BY ConstantsAssumption
<1>2. Fields # {} /\ DOMAIN NoLog = {}
  <2>1. "CRIT_WARN" \in DOMAIN SmartKeys
    BY DEF SmartKeys
  <2> QED
    BY <2>1 DEF Fields, Range, NoLog
<1> QED
  BY <1>1, <1>2 DEF LogOf

-----------------------------------------------------------------------------
(* The inductive invariant.                                                *)

Names == DOMAIN Logs \union {"none"}
Raws  == {NoItems} \union {raw_data_smart(Logs[n]) : n \in DOMAIN Logs}

EventSet == [dev : D, serviceable : BOOLEAN, open : BOOLEAN, blind : BOOLEAN, seen : Nat,
             raw : Raws, read : Names]

RunFields == {"pc", "file", "todo", "notify", "time", "vpd", "log", "from", "raw", "severity",
              "then", "rc", "blind", "seen", "faulty", "closed"}
IsRun(r) == r = [f \in RunFields |-> r[f]]

Reporting(r) == r.pc \in {"locate", "check", "log"}

(* A run looks at each device once: one that it has yet to look at has not *)
(* been found faulty.                                                      *)
Ahead(r) ==
  /\ r.todo \in Seq(D) /\ IsInjective(r.todo)
  /\ \A i \in 2 .. Len(r.todo) : r.todo[i] \notin r.faulty

(* The raw data of a run, once filled, are those of the log it has read.   *)
RawOK(r) ==
  /\ r.from \in Names /\ r.log = LogOf(r.from)
  /\ r.raw = NoItems \/ (r.from # "none" /\ r.raw = raw_data_smart(r.log))

(* What an event, logged or about to be, holds of the log of that name.    *)
Held(serviceable, n, raw) ==
  IF n = "none" THEN serviceable /\ raw = NoItems
  ELSE raw = raw_data_smart(Logs[n]) /\ BearOut(serviceable, raw)

Told(r) ==
  /\ r.pc \in {"open", "vpd", "smart"} => r.raw = NoItems
  /\ Reporting(r) => Held(r.severity = "error", r.from, r.raw)

Kept(r) ==
  /\ RawOK(r)
  /\ IsRun(r) /\ r.rc \in Int /\ r.rc <= 0 /\ r.time \in 0 .. MAX_TIME + 5
  /\ r.blind \in BOOLEAN /\ r.seen \in 0 .. Len(events) /\ Ahead(r)

(* A device that has been found faulty is to be reported, or that has been *)
(* done, or the return code tells that it has not.                         *)
Settled(r, d) == r.rc < 0 \/ OpenFor(d) # {} \/ d \in r.closed
ToReport(r, d) == Reporting(r) /\ r.severity = "error" /\ d = Head(r.todo)

(* No event was open for the device when a run that is about to log an     *)
(* error looked, if its lookup was good.                                   *)
LookedUp(r) ==
  r.pc = "log" /\ r.severity = "error" /\ ~r.blind /\ Head(r.todo) \notin Padded =>
    \A e \in 1 .. r.seen : events[e].dev = Head(r.todo) => ~Serviceable(e)

PcOK(r) ==
  /\ r.pc \in PCs /\ r.severity \in {"none", "warning", "error"}
  /\ (r.pc \in {"idle", "ended"}) <=> (r.todo = <<>>)
  /\ Reporting(r) <=> r.severity # "none"
  /\ r.pc = "check" => r.severity = "error"

RunOK(r) ==
  /\ Kept(r) /\ PcOK(r) /\ LookedUp(r) /\ Told(r)
  /\ r.pc \in {"open", "vpd", "smart"} => Head(r.todo) \notin r.faulty
  /\ \A d \in r.faulty : Settled(r, d) \/ ToReport(r, d)

EventsOK ==
  /\ events \in Seq(EventSet)
  /\ \A f \in 1 .. Len(events) :
       /\ events[f].seen < f
       /\ Held(events[f].serviceable, events[f].read, events[f].raw)
       /\ Serviceable(f) /\ ~events[f].blind /\ events[f].dev \notin Padded =>
            \A e \in 1 .. events[f].seen : events[e].dev = events[f].dev => ~Serviceable(e)

RunsOK == DOMAIN run = Processes /\ \A p \in Processes : RunOK(run[p])
RestOK ==
  /\ config \in Configs
  /\ smart \in [D -> DOMAIN Logs \union {"none"}] /\ file \in DOMAIN Logs \union {"none"}
CountOK ==
  /\ changes \in 0 .. MaxChanges /\ runs \in 0 .. MaxRuns /\ repairs \in 0 .. MaxRepairs
  /\ faults \in 0 .. MaxFaults

IInv == EventsOK /\ RunsOK /\ RestOK /\ CountOK

-----------------------------------------------------------------------------
(* What a run does next.                                                   *)

LEMMA NoRunFacts ==
  /\ IsRun(NoRun) /\ NoRun.pc = "idle" /\ NoRun.todo = <<>> /\ NoRun.time = 0
  /\ NoRun.severity = "none" /\ NoRun.rc = 0 /\ NoRun.blind = FALSE /\ NoRun.seen = 0
  /\ NoRun.faulty = {} /\ NoRun.closed = {}
  /\ NoRun.log = NoLog /\ NoRun.from = "none" /\ NoRun.raw = NoItems
  BY DEF IsRun, RunFields, NoRun

(* Before a log is read there are no raw data.                             *)
LEMMA Unread ==
  ASSUME NEW r, r.log = NoLog, r.from = "none", r.raw = NoItems
  PROVE  RawOK(r)
  BY DEF RawOK, Names, LogOf

(* Filling the raw data makes them those of the log, if there is one.      *)
LEMMA Filled ==
  ASSUME NEW r, RawOK(r)
  PROVE  /\ r.from = "none" => fill_raw_data(r.raw, r.log) = NoItems /\ r.log = NoLog
         /\ r.from # "none" => /\ r.from \in DOMAIN Logs /\ r.log = Logs[r.from]
                               /\ fill_raw_data(r.raw, r.log) = raw_data_smart(r.log)
<1>1. CASE r.from = "none"
  <2>1. r.log = NoLog /\ r.raw = NoItems
    BY <1>1 DEF RawOK, LogOf
  <2> QED
    BY <1>1, <2>1 DEF fill_raw_data
<1>2. CASE r.from # "none"
  <2>1. r.from \in DOMAIN Logs /\ r.log = Logs[r.from] /\ r.log # NoLog
    BY <1>2, LogRead DEF RawOK, Names
  <2>2. r.raw = NoItems \/ r.raw = raw_data_smart(r.log)
    BY DEF RawOK
  <2> QED
    BY <1>2, <2>1, <2>2 DEF fill_raw_data
<1> QED
  BY <1>1, <1>2

LEMMA RawTyped ==
  ASSUME NEW r, RawOK(r)
  PROVE  r.raw \in Raws /\ r.from \in Names
<1>1. CASE r.raw = NoItems
  BY <1>1 DEF RawOK, Raws
<1>2. CASE r.raw # NoItems
  <2>1. r.from \in DOMAIN Logs /\ r.raw = raw_data_smart(Logs[r.from])
    BY <1>2, Filled DEF RawOK
  <2> QED
    BY <2>1 DEF RawOK, Raws
<1> QED
  BY <1>1, <1>2

(* What a run finds in a log is what the raw data bear out.                *)
LEMMA FoundHeld ==
  ASSUME NEW n \in DOMAIN Logs, NEW r, r.log = Logs[n]
  PROVE  /\ ErrorBits(r, Logs[n]) # {} => Held(TRUE, n, raw_data_smart(Logs[n]))
         /\ ErrorBits(r, Logs[n]) = {} /\ WarnBits(r, Logs[n]) # {} =>
              Held(FALSE, n, raw_data_smart(Logs[n]))
         /\ Exceeds(r) => Held(FALSE, n, raw_data_smart(Logs[n]))
<1> DEFINE raw == raw_data_smart(Logs[n])
<1>1. /\ raw["CW"] = Logs[n]["critical_warning"] /\ raw["PH"] = Logs[n]["power_on_hours"]
      /\ raw["DW"] = Logs[n]["data_units_written"]
  BY ItemValues
<1>2. n # "none"
  BY LogRead
<1> HIDE DEF raw
<1>3. ErrorBits(r, Logs[n]) # {} => BearOut(TRUE, raw)
  BY <1>1 DEF ErrorBits, BearOut
<1>4. ErrorBits(r, Logs[n]) = {} /\ WarnBits(r, Logs[n]) # {} => BearOut(FALSE, raw)
  BY <1>1 DEF ErrorBits, WarnBits, BearOut
<1>5. Exceeds(r) => BearOut(FALSE, raw)
  BY <1>1 DEF Exceeds, BearOut
<1> QED
  BY <1>2, <1>3, <1>4, <1>5 DEF Held, raw

LEMMA TailAhead ==
  ASSUME NEW r, Ahead(r), r.todo # <<>>
  PROVE  /\ Tail(r.todo) \in Seq(D) /\ IsInjective(Tail(r.todo))
         /\ \A i \in 1 .. Len(Tail(r.todo)) : Tail(r.todo)[i] \notin r.faulty
         /\ (Len(r.todo) = 1) <=> (Tail(r.todo) = <<>>)
<1> PICK s : s = r.todo
  OBVIOUS
<1> PICK t : t = Tail(s)
  OBVIOUS
<1>1. s \in Seq(D) /\ s # <<>> /\ IsInjective(s)
  BY DEF Ahead
<1>2. /\ t \in Seq(D) /\ Len(t) = Len(s) - 1 /\ Len(s) \in Nat /\ DOMAIN t = 1 .. Len(t)
      /\ DOMAIN s = 1 .. Len(s)
      /\ \A i \in 1 .. Len(t) : t[i] = s[i + 1]
  BY <1>1
<1>3. IsInjective(t)
  <2>1. ASSUME NEW i \in DOMAIN t, NEW j \in DOMAIN t, t[i] = t[j]
        PROVE  i = j
    <3>1. i + 1 \in DOMAIN s /\ j + 1 \in DOMAIN s /\ s[i + 1] = s[j + 1]
      BY <1>2, <2>1
    <3>2. i + 1 = j + 1
      BY <1>1, <3>1 DEF IsInjective
    <3> QED
      BY <1>2, <3>2
  <2> QED
    BY <2>1, Zenon DEF IsInjective
<1>4. \A i \in 1 .. Len(t) : t[i] \notin r.faulty
  <2>1. \A j \in 2 .. Len(s) : s[j] \notin r.faulty
    BY DEF Ahead
  <2>2. ASSUME NEW i \in 1 .. Len(t)
        PROVE  t[i] \notin r.faulty
    <3>1. i + 1 \in 2 .. Len(s) /\ t[i] = s[i + 1]
      BY <1>2
    <3> QED
      BY <2>1, <3>1
  <2> QED
    BY <2>2, Zenon
<1>5. (Len(s) = 1) <=> (t = <<>>)
  <2>1. t = <<>> => Len(t) = 0
    BY EmptySeq
  <2>2. t # <<>> => Len(t) # 0
    BY <1>2, EmptySeq
  <2> QED
    BY <1>2, <2>1, <2>2
<1> QED
  BY <1>2, <1>3, <1>4, <1>5

(* The devices found faulty by a run that is done with one are settled.    *)
AllSettled(r, rc) == rc < 0 \/ \A d \in r.faulty : Settled(r, d)

LEMMA SettledStays ==
  ASSUME NEW r, Kept(r), NEW rc \in {0, -1}, AllSettled(r, rc), NEW s,
         s.rc = r.rc + rc, s.faulty = r.faulty, s.closed = r.closed
  PROVE  \A d \in s.faulty : Settled(s, d)
<1>1. r.rc \in Int /\ r.rc <= 0
  BY DEF Kept
<1>2. CASE rc < 0
  BY <1>1, <1>2 DEF Settled
<1>3. CASE rc = 0 /\ \A d \in r.faulty : Settled(r, d)
  BY <1>1, <1>3 DEF Settled
<1> QED
  BY <1>2, <1>3 DEF AllSettled

LEMMA NextDeviceOK ==
  ASSUME NEW r, Kept(r), r.todo # <<>>, NEW rc \in {0, -1}, AllSettled(r, rc), EventsOK
  PROVE  RunOK(NextDevice(r, rc))
<1> PICK s : s = NextDevice(r, rc)
  OBVIOUS
<1>1. /\ IsRun(s) /\ s.pc = (IF Len(r.todo) = 1 THEN "ended" ELSE "open") /\ s.todo = Tail(r.todo)
      /\ s.time = 0 /\ s.severity = "none" /\ s.blind = FALSE /\ s.seen = 0 /\ s.rc = r.rc + rc
      /\ s.faulty = r.faulty /\ s.closed = r.closed
      /\ s.log = NoLog /\ s.from = "none" /\ s.raw = NoItems
  BY DEF NextDevice, Kept, IsRun, RunFields
<1>2. /\ Tail(r.todo) \in Seq(D) /\ IsInjective(Tail(r.todo))
      /\ \A i \in 1 .. Len(Tail(r.todo)) : Tail(r.todo)[i] \notin r.faulty
      /\ (Len(r.todo) = 1) <=> (Tail(r.todo) = <<>>)
  BY TailAhead DEF Kept
<1>3. Ahead(s)
  BY <1>1, <1>2 DEF Ahead
<1>4. Kept(s)
  <2>1. s.rc \in Int /\ s.rc <= 0 /\ 0 \in 0 .. MAX_TIME + 5 /\ 0 \in 0 .. Len(events)
    BY <1>1, ConstantsAssumption, SMTT(30) DEF Kept, EventsOK
  <2> QED
    BY <1>1, <1>3, <2>1, Unread DEF Kept
<1>5. PcOK(s)
  BY <1>1, <1>2 DEF PcOK, PCs, Reporting
<1>6. \A d \in s.faulty : Settled(s, d)
  BY <1>1, SettledStays
<1>7. s.pc = "open" => Head(s.todo) \notin s.faulty
  <2>1. Tail(r.todo) # <<>> =>
          1 \in 1 .. Len(Tail(r.todo)) /\ Head(Tail(r.todo)) = Tail(r.todo)[1]
    BY <1>2, EmptySeq
  <2> QED
    BY <1>1, <1>2, <2>1
<1>8. LookedUp(s) /\ Told(s) /\ s.pc \notin {"vpd", "smart"}
  BY <1>1 DEF LookedUp, Told, Reporting
<1> QED
  BY <1>4, <1>5, <1>6, <1>7, <1>8 DEF RunOK

LEMMA ContinueOK ==
  ASSUME NEW r, Kept(r), r.todo # <<>>, NEW rc \in {0, -1}, AllSettled(r, rc), EventsOK
  PROVE  RunOK(Continue(r, rc))
<1>1. CASE r.then = "dwpd" /\ Exceeds(r)
  <2> PICK s : s = Continue(r, rc)
    OBVIOUS
  <2>1. s = [r EXCEPT !.pc = "locate", !.severity = "warning", !.then = "next", !.rc = r.rc + rc,
                      !.raw = fill_raw_data(r.raw, r.log), !.blind = FALSE, !.seen = 0]
    BY <1>1 DEF Continue
  <2>2. /\ IsRun(s) /\ s.pc = "locate" /\ s.todo = r.todo /\ s.time = r.time
        /\ s.severity = "warning" /\ s.blind = FALSE /\ s.seen = 0 /\ s.rc = r.rc + rc
        /\ s.faulty = r.faulty /\ s.closed = r.closed
        /\ s.log = r.log /\ s.from = r.from /\ s.raw = fill_raw_data(r.raw, r.log)
    BY <2>1, ZenonT(60) DEF Kept, IsRun, RunFields
  <2>7. RawOK(s) /\ Told(s)
    <3>1. RawOK(r) /\ r.log # NoLog
      BY <1>1 DEF Kept, Exceeds
    <3>2. /\ r.from \in DOMAIN Logs /\ r.log = Logs[r.from] /\ r.from # "none"
          /\ s.raw = raw_data_smart(r.log)
      BY <2>2, <3>1, Filled
    <3>3. Held(FALSE, r.from, s.raw)
      BY <1>1, <3>2, FoundHeld
    <3> QED
      BY <2>2, <3>1, <3>2, <3>3 DEF RawOK, Told
  <2>3. Kept(s)
    <3>1. s.rc \in Int /\ s.rc <= 0 /\ 0 \in 0 .. Len(events) /\ Ahead(s)
      BY <2>2 DEF Kept, EventsOK, Ahead
    <3> QED
      BY <2>2, <2>7, <3>1 DEF Kept
  <2>4. PcOK(s)
    BY <2>2 DEF PcOK, PCs, Reporting
  <2>5. \A d \in s.faulty : Settled(s, d)
    BY <2>2, SettledStays
  <2>6. LookedUp(s) /\ s.pc \notin {"open", "vpd", "smart"}
    BY <2>2 DEF LookedUp
  <2> QED
    BY <2>3, <2>4, <2>5, <2>6, <2>7 DEF RunOK
<1>2. CASE ~(r.then = "dwpd" /\ Exceeds(r))
  BY <1>2, NextDeviceOK DEF Continue
<1> QED
  BY <1>1, <1>2

(* A run decides about a device that it has not found faulty before.       *)
LEMMA DecideOK ==
  ASSUME NEW r, RunOK(r), r.pc = "smart", NEW name \in Names, EventsOK
  PROVE  RunOK(Decide(r, LogOf(name), name))
<1> PICK d : d = Head(r.todo)
  OBVIOUS
<1> PICK log : log = LogOf(name)
  OBVIOUS
<1> PICK raw : raw = fill_raw_data(r.raw, log)
  OBVIOUS
<1> PICK s : s = [r EXCEPT !.log = log, !.from = name, !.then = "dwpd", !.closed = r.closed \ {d}]
  OBVIOUS
<1> PICK t : t = [s EXCEPT !.raw = raw]
  OBVIOUS
<1> PICK f : f = [t EXCEPT !.pc = "locate", !.severity = "error", !.faulty = t.faulty \union {d}]
  OBVIOUS
<1>1. /\ Kept(r) /\ r.todo # <<>> /\ d \notin r.faulty /\ r.severity = "none" /\ r.raw = NoItems
      /\ \A x \in r.faulty : Settled(r, x)
  BY DEF RunOK, PcOK, PCs, Reporting, ToReport, Told
<1>2. /\ IsRun(s) /\ s.pc = "smart" /\ s.todo = r.todo /\ s.time = r.time /\ s.severity = "none"
      /\ s.blind = r.blind /\ s.seen = r.seen /\ s.rc = r.rc /\ s.faulty = r.faulty
      /\ s.closed = r.closed \ {d} /\ s.log = log /\ s.from = name /\ s.raw = r.raw
  BY <1>1, ZenonT(60) DEF Kept, IsRun, RunFields
<1>10. RawOK(s)
  BY <1>1, <1>2 DEF RawOK
<1>11. /\ name = "none" => raw = NoItems /\ log = NoLog
       /\ name # "none" => name \in DOMAIN Logs /\ log = Logs[name] /\ log # NoLog
                           /\ raw = raw_data_smart(log)
  <2>1. s.from = name /\ s.log = log /\ fill_raw_data(s.raw, s.log) = raw
    BY <1>2
  <2>2. name \in DOMAIN Logs => log # NoLog
    BY LogRead
  <2> QED
    BY <1>10, <2>1, <2>2, Filled
<1>3. Kept(s) /\ AllSettled(s, 0)
  BY <1>1, <1>2, <1>10 DEF Kept, Ahead, AllSettled, Settled
<1>12. /\ IsRun(t) /\ t.pc = "smart" /\ t.todo = s.todo /\ t.time = s.time /\ t.severity = "none"
       /\ t.blind = s.blind /\ t.seen = s.seen /\ t.rc = s.rc /\ t.faulty = s.faulty
       /\ t.closed = s.closed /\ t.log = log /\ t.from = name /\ t.raw = raw
  BY <1>2, ZenonT(60) DEF IsRun, RunFields
<1>4. ASSUME NEW x, IsRun(x), x.pc = "locate", x.todo = s.todo, x.time = s.time, x.severity = "error",
             x.blind = s.blind, x.seen = s.seen, x.rc = s.rc, x.faulty = s.faulty \union {d},
             x.closed = s.closed, x.log = log, x.from = name, x.raw = raw, Held(TRUE, name, raw)
      PROVE  RunOK(x)
  <2>1. Ahead(x)
    <3>1. \A i \in 2 .. Len(r.todo) : r.todo[i] # d
      <4>1. r.todo \in Seq(D) /\ IsInjective(r.todo) /\ Len(r.todo) \in Nat /\ Len(r.todo) >= 1
            /\ DOMAIN r.todo = 1 .. Len(r.todo) /\ d = r.todo[1]
        BY <1>1 DEF Kept, Ahead
      <4> QED
        BY <4>1 DEF IsInjective
    <3> QED
      BY <1>2, <1>3, <1>4, <3>1 DEF Kept, Ahead
  <2>6. RawOK(x) /\ Told(x)
    <3>1. RawOK(x)
      BY <1>4, <1>11 DEF RawOK
    <3>2. (x.severity = "error") = TRUE
      BY <1>4
    <3> QED
      BY <1>4, <3>1, <3>2 DEF Told
  <2>2. Kept(x)
    BY <1>3, <1>4, <2>1, <2>6 DEF Kept
  <2>3. PcOK(x)
    BY <1>1, <1>2, <1>4 DEF PcOK, PCs, Reporting
  <2>4. \A e \in x.faulty : Settled(x, e) \/ ToReport(x, e)
    BY <1>1, <1>2, <1>4 DEF Settled, ToReport, Reporting
  <2>5. LookedUp(x) /\ x.pc \notin {"open", "vpd", "smart"}
    BY <1>4 DEF LookedUp
  <2> QED
    BY <2>2, <2>3, <2>4, <2>5, <2>6 DEF RunOK
<1>13. /\ IsRun(f) /\ f.pc = "locate" /\ f.severity = "error" /\ f.faulty = s.faulty \union {d}
       /\ f.todo = s.todo /\ f.time = s.time /\ f.blind = s.blind /\ f.seen = s.seen
       /\ f.rc = s.rc /\ f.closed = s.closed /\ f.log = log /\ f.from = name /\ f.raw = raw
  <2>1. IsRun(f) /\ f.pc = "locate" /\ f.severity = "error" /\ f.faulty = t.faulty \union {d}
    BY <1>12, ZenonT(60) DEF IsRun, RunFields
  <2>2. /\ f.todo = t.todo /\ f.time = t.time /\ f.blind = t.blind /\ f.seen = t.seen
        /\ f.rc = t.rc /\ f.closed = t.closed /\ f.log = t.log /\ f.from = t.from /\ f.raw = t.raw
    BY <1>12 DEF IsRun, RunFields
  <2> QED
    BY <1>12, <2>1, <2>2
<1>5. CASE log # NoLog /\ ErrorBits(r, log) # {}
  <2>1. Decide(r, LogOf(name), name) = f
    BY <1>5 DEF Decide
  <2>2. Held(TRUE, name, raw)
    <3>1. ErrorBits(s, log) = ErrorBits(r, log)
      <4>1. s.notify = r.notify
        BY <1>1 DEF Kept, IsRun, RunFields
      <4> QED
        BY <4>1 DEF ErrorBits
    <3> QED
      BY <1>2, <1>5, <1>11, <3>1, FoundHeld
  <2>3. RunOK(f)
    BY <1>4, <1>13, <2>2
  <2> QED
    BY <2>1, <2>3
<1>6. CASE log = NoLog /\ r.notify.smart_missing
  <2> PICK g : g = [f EXCEPT !.then = "next"]
    OBVIOUS
  <2>1. Decide(r, LogOf(name), name) = g
    BY <1>6 DEF Decide
  <2>2. Held(TRUE, name, raw)
    BY <1>6, <1>11 DEF Held
  <2>3. IsRun(g) /\ g.pc = f.pc /\ g.severity = f.severity /\ g.faulty = f.faulty
    <3>1. IsRun(f)
      BY <1>13
    <3>2. DOMAIN f = RunFields
      BY <3>1 DEF IsRun
    <3>3. /\ g.pc = f.pc /\ g.severity = f.severity /\ g.faulty = f.faulty
          /\ DOMAIN g = RunFields
      BY <3>2 DEF RunFields
    <3>4. g = [x \in RunFields |-> g[x]]
      BY <3>2
    <3> QED
      BY <3>3, <3>4 DEF IsRun
  <2>4. /\ g.todo = f.todo /\ g.time = f.time /\ g.blind = f.blind /\ g.seen = f.seen
        /\ g.rc = f.rc /\ g.closed = f.closed /\ g.log = f.log /\ g.from = f.from /\ g.raw = f.raw
    BY <1>13 DEF IsRun, RunFields
  <2>5. RunOK(g)
    <3>1. /\ IsRun(g) /\ g.pc = "locate" /\ g.todo = s.todo /\ g.time = s.time
          /\ g.severity = "error" /\ g.blind = s.blind /\ g.seen = s.seen /\ g.rc = s.rc
          /\ g.faulty = s.faulty \union {d} /\ g.closed = s.closed
          /\ g.log = log /\ g.from = name /\ g.raw = raw
      BY <1>13, <2>3, <2>4
    <3> QED
      BY <1>4, <2>2, <3>1, ZenonT(60)
  <2> QED
    BY <2>1, <2>5
<1>7. CASE log # NoLog /\ ErrorBits(r, log) = {} /\ WarnBits(r, log) # {}
  <2> PICK g : g = [t EXCEPT !.pc = "locate", !.severity = "warning"]
    OBVIOUS
  <2>7. Decide(r, LogOf(name), name) = g
    BY <1>7 DEF Decide
  <2>1. /\ IsRun(g) /\ g.pc = "locate" /\ g.todo = s.todo /\ g.time = s.time
        /\ g.severity = "warning" /\ g.blind = s.blind /\ g.seen = s.seen /\ g.rc = s.rc
        /\ g.faulty = s.faulty /\ g.closed = s.closed
        /\ g.log = log /\ g.from = name /\ g.raw = raw
    BY <1>12, ZenonT(60) DEF IsRun, RunFields
  <2>6. RawOK(g) /\ Told(g)
    <3>1. ErrorBits(s, log) = ErrorBits(r, log) /\ WarnBits(s, log) = WarnBits(r, log)
      <4>1. s.notify = r.notify
        BY <1>1 DEF Kept, IsRun, RunFields
      <4> QED
        BY <4>1 DEF ErrorBits, WarnBits
    <3>2. Held(FALSE, name, raw)
      BY <1>2, <1>7, <1>11, <3>1, FoundHeld
    <3>3. RawOK(g)
      BY <1>11, <2>1 DEF RawOK
    <3>4. (g.severity = "error") = FALSE
      BY <2>1
    <3> QED
      BY <2>1, <3>2, <3>3, <3>4 DEF Told
  <2>2. Kept(g)
    BY <1>3, <2>1, <2>6 DEF Kept, Ahead
  <2>3. PcOK(g)
    BY <1>1, <1>2, <2>1 DEF PcOK, PCs, Reporting
  <2>4. \A x \in g.faulty : Settled(g, x)
    BY <1>1, <1>2, <2>1 DEF Settled
  <2>5. LookedUp(g) /\ g.pc \notin {"open", "vpd", "smart"}
    BY <2>1 DEF LookedUp
  <2> QED
    BY <2>2, <2>3, <2>4, <2>5, <2>6, <2>7 DEF RunOK
<1>8. CASE ~(\/ log = NoLog /\ r.notify.smart_missing
             \/ log # NoLog /\ ErrorBits(r, log) # {}
             \/ log # NoLog /\ ErrorBits(r, log) = {} /\ WarnBits(r, log) # {})
  <2>1. Decide(r, LogOf(name), name) = Continue(s, 0)
    BY <1>8 DEF Decide
  <2>2. RunOK(Continue(s, 0))
    BY <1>1, <1>2, <1>3, ContinueOK
  <2> QED
    BY <2>1, <2>2
<1> QED
  BY <1>5, <1>6, <1>7, <1>8

-----------------------------------------------------------------------------
(* Steps of one run.                                                       *)

LEMMA SameEvents ==
  ASSUME NEW r, UNCHANGED events, RunOK(r)
  PROVE  RunOK(r)'
  BY DEF RunOK, Kept, Ahead, PcOK, Reporting, LookedUp, Settled, ToReport, OpenFor, Serviceable

LEMMA MoreEvents ==
  ASSUME EventsOK, NEW x \in EventSet, events' = Append(events, x), NEW r, RunOK(r)
  PROVE  RunOK(r)'
<1>1. /\ Len(events') = Len(events) + 1 /\ Len(events) \in Nat
      /\ DOMAIN events = 1 .. Len(events) /\ DOMAIN events' = 1 .. Len(events) + 1
      /\ \A e \in 1 .. Len(events) : events'[e] = events[e]
  BY DEF EventsOK
<1>2. Kept(r)'
  BY <1>1 DEF RunOK, Kept, Ahead
<1>3. PcOK(r)'
  BY DEF RunOK, PcOK, Reporting
<1>4. LookedUp(r)'
  <2>1. \A e \in 1 .. r.seen : e \in 1 .. Len(events)
    BY <1>1 DEF RunOK, Kept
  <2> QED
    BY <1>1, <2>1 DEF RunOK, LookedUp, Serviceable
<1>5. \A d : OpenFor(d) # {} => (OpenFor(d) # {})'
  <2>1. \A d : OpenFor(d) \subseteq OpenFor(d)'
    BY <1>1 DEF OpenFor, Serviceable
  <2> QED
    BY <2>1
<1>6. \A d \in r.faulty : Settled(r, d)' \/ ToReport(r, d)'
  BY <1>5 DEF RunOK, Settled, ToReport, Reporting
<1> QED
  BY <1>2, <1>3, <1>4, <1>6 DEF RunOK

LEMMA StepIInv ==
  ASSUME IInv, NEW p \in Processes, NEW s, Step(p, s), RunOK(s), UNCHANGED events,
         RestOK', CountOK'
  PROVE  IInv'
<1>1. run'[p] = s /\ DOMAIN run' = Processes /\ \A q \in Processes : q # p => run'[q] = run[q]
  BY DEF Step, IInv, RunsOK
<1>2. \A q \in Processes : RunOK(run'[q])
  BY <1>1 DEF IInv, RunsOK
<1>3. RunsOK'
  <2>1. ASSUME NEW q \in Processes
        PROVE  RunOK(run[q])'
    <3> PICK r : r = run'[q]
      OBVIOUS
    <3>1. RunOK(r)'
      BY <1>2, SameEvents
    <3> QED
      BY <3>1 DEF RunOK, Kept, Ahead, PcOK, Reporting, LookedUp, Settled, ToReport
  <2> QED
    BY <1>1, <2>1 DEF RunsOK
<1>4. EventsOK'
  BY DEF IInv, EventsOK, Serviceable
<1> QED
  BY <1>3, <1>4 DEF IInv

LEMMA CountStep ==
  ASSUME CountOK, Fails \/ UNCHANGED faults, UNCHANGED <<changes, runs, repairs>>
  PROVE  CountOK'
  BY ConstantsAssumption DEF CountOK, Fails

LEMMA ReadyRun ==
  ASSUME NEW r, RunOK(r), r.pc \notin {"idle", "ended"}
  PROVE  /\ Kept(r) /\ r.todo # <<>> /\ Head(r.todo) \in D
         /\ r.pc \in {"open", "vpd", "smart"} => r.severity = "none" /\ AllSettled(r, 0)
  BY EmptySeq DEF RunOK, Kept, Ahead, PcOK, Reporting, AllSettled, ToReport

LEMMA StartOK ==
  ASSUME IInv, NEW p \in Processes, NEW todo \in Seq(D), IsInjective(todo), NEW fromFile,
         Start(p, todo, fromFile)
  PROVE  IInv'
<1>1. PICK s : /\ Step(p, s)
               /\ \/ s = [NoRun EXCEPT !.pc = "ended", !.rc = -1]
                  \/ s = [NoRun EXCEPT !.pc = IF todo = <<>> THEN "ended" ELSE "open",
                                       !.todo = todo, !.file = fromFile,
                                       !.notify = set_notify(config)]
  BY DEF Start
<1>2. /\ IsRun(s) /\ s.time = 0 /\ s.severity = "none" /\ s.rc \in {0, -1} /\ s.blind = FALSE
      /\ s.seen = 0 /\ s.faulty = {} /\ s.todo \in {<<>>, todo}
      /\ s.log = NoLog /\ s.from = "none" /\ s.raw = NoItems
      /\ s.pc = IF s.todo = <<>> THEN "ended" ELSE "open"
  BY <1>1, NoRunFacts DEF IsRun, RunFields
<1>3. Ahead(s)
  <2>1. IsInjective(<<>>) /\ <<>> \in Seq(D)
    BY DEF IsInjective
  <2> QED
    BY <1>2, <2>1 DEF Ahead
<1>4. Kept(s)
  <2>1. 0 \in 0 .. MAX_TIME + 5 /\ 0 \in 0 .. Len(events)
    BY ConstantsAssumption DEF IInv, EventsOK
  <2>2. s.blind \in BOOLEAN
    BY <1>2, Zenon
  <2>4. s.rc \in Int /\ s.rc <= 0
    BY <1>2
  <2>3. s.time \in 0 .. MAX_TIME + 5 /\ s.seen \in 0 .. Len(events)
    BY <1>2, <2>1, Zenon
  <2> QED
    BY <1>2, <1>3, <2>2, <2>3, <2>4, Unread, Zenon DEF Kept
<1>5. RunOK(s)
  BY <1>2, <1>4 DEF RunOK, PcOK, PCs, Reporting, LookedUp, Told
<1>6. CountOK'
  BY ConstantsAssumption DEF Start, IInv, CountOK
<1>7. RestOK' /\ UNCHANGED events
  BY DEF Start, IInv, RestOK
<1> QED
  BY <1>1, <1>5, <1>6, <1>7, StepIInv

LEMMA KilledOK ==
  ASSUME IInv, NEW p \in Processes, Killed(p)
  PROVE  IInv'
<1> PICK s : s = [NoRun EXCEPT !.pc = "ended", !.rc = -1]
  OBVIOUS
<1>1. /\ IsRun(s) /\ s.pc = "ended" /\ s.todo = <<>> /\ s.time = 0 /\ s.severity = "none"
      /\ s.rc = -1 /\ s.blind = FALSE /\ s.seen = 0 /\ s.faulty = {}
      /\ s.log = NoLog /\ s.from = "none" /\ s.raw = NoItems
  BY NoRunFacts DEF IsRun, RunFields
<1>2. Kept(s)
  <2>1. 0 \in 0 .. MAX_TIME + 5 /\ 0 \in 0 .. Len(events)
    BY ConstantsAssumption DEF IInv, EventsOK
  <2>2. IsInjective(<<>>) /\ <<>> \in Seq(D) /\ Len(<<>>) = 0
    BY DEF IsInjective
  <2>3. Ahead(s)
    BY <1>1, <2>2 DEF Ahead
  <2>4. s.blind \in BOOLEAN
    BY <1>1, Zenon
  <2>6. s.rc \in Int /\ s.rc <= 0
    BY <1>1
  <2>5. s.time \in 0 .. MAX_TIME + 5 /\ s.seen \in 0 .. Len(events)
    BY <1>1, <2>1, Zenon
  <2> QED
    BY <1>1, <2>3, <2>4, <2>5, <2>6, Unread, Zenon DEF Kept
<1>3. RunOK(s)
  BY <1>1, <1>2 DEF RunOK, PcOK, PCs, Reporting, LookedUp, Told
<1>4. CountOK' /\ RestOK' /\ UNCHANGED events /\ Step(p, s)
  BY CountStep DEF Killed, IInv, RestOK
<1> QED
  BY <1>3, <1>4, StepIInv

(* Steps that only lead from one reading to the next.                      *)
LEMMA ReadingOn ==
  ASSUME NEW r, RunOK(r), r.pc \in {"open", "vpd"}, NEW s, IsRun(s), s.pc \in {"vpd", "smart"},
         s.todo = r.todo, s.time \in 0 .. MAX_TIME + 5, s.severity = r.severity, s.rc = r.rc,
         s.blind = r.blind, s.seen = r.seen, s.faulty = r.faulty, s.closed = r.closed,
         s.log = r.log, s.from = r.from, s.raw = r.raw
  PROVE  RunOK(s)
<1>1. RawOK(s) /\ Told(s)
  BY DEF RunOK, Kept, RawOK, Told, Reporting
<1> QED
  BY <1>1 DEF RunOK, Kept, Ahead, PcOK, PCs, Reporting, LookedUp, Settled, ToReport

LEMMA OpenDeviceOK ==
  ASSUME IInv, NEW p \in Processes, OpenDevice(p)
  PROVE  IInv'
<1> PICK r : r = run[p]
  OBVIOUS
<1>1. r.pc = "open" /\ RunOK(r) /\ EventsOK
  BY DEF OpenDevice, At, IInv, RunsOK
<1>2. PICK s : Step(p, s) /\ s \in {NextDevice(r, 0), NextDevice(r, -1), [r EXCEPT !.pc = "vpd"]}
  BY DEF OpenDevice
<1>3. RunOK(NextDevice(r, 0)) /\ RunOK(NextDevice(r, -1))
  <2>1. Kept(r) /\ r.todo # <<>> /\ AllSettled(r, 0) /\ AllSettled(r, -1)
    BY <1>1, ReadyRun DEF AllSettled
  <2> QED
    BY <1>1, <2>1, NextDeviceOK
<1>4. RunOK([r EXCEPT !.pc = "vpd"])
  <2> PICK v : v = [r EXCEPT !.pc = "vpd"]
    OBVIOUS
  <2>1. /\ IsRun(v) /\ v.pc = "vpd" /\ v.todo = r.todo /\ v.time = r.time /\ v.severity = r.severity
        /\ v.rc = r.rc /\ v.blind = r.blind /\ v.seen = r.seen /\ v.faulty = r.faulty
        /\ v.closed = r.closed /\ v.log = r.log /\ v.from = r.from /\ v.raw = r.raw
    BY <1>1 DEF RunOK, Kept, IsRun, RunFields
  <2>2. v.time \in 0 .. MAX_TIME + 5
    <3>1. r.time \in 0 .. MAX_TIME + 5
      BY <1>1 DEF RunOK, Kept
    <3> QED
      BY <2>1, <3>1
  <2> QED
    BY <1>1, <2>1, <2>2, ReadingOn, ZenonT(60)
<1>5. CountOK' /\ RestOK' /\ UNCHANGED events
  BY CountStep DEF OpenDevice, IInv, RestOK
<1> QED
  BY <1>2, <1>3, <1>4, <1>5, StepIInv

LEMMA VpdOK ==
  ASSUME IInv, NEW p \in Processes, WaitVpd(p) \/ ReadVpd(p)
  PROVE  IInv'
<1> PICK r : r = run[p]
  OBVIOUS
<1>1. r.pc = "vpd" /\ RunOK(r)
  BY DEF WaitVpd, ReadVpd, At, IInv, RunsOK
<1>2. IsRun(r) /\ r.time \in 0 .. MAX_TIME + 5
  BY <1>1 DEF RunOK, Kept
<1>3. PICK s : /\ Step(p, s)
               /\ \/ r.time <= MAX_TIME /\ s = [r EXCEPT !.time = r.time + 5]
                  \/ \E known \in BOOLEAN : s = [r EXCEPT !.pc = "smart", !.vpd = known]
  BY DEF WaitVpd, ReadVpd
<1>4. /\ IsRun(s) /\ s.pc \in {"vpd", "smart"} /\ s.todo = r.todo /\ s.severity = r.severity
      /\ s.rc = r.rc /\ s.blind = r.blind /\ s.seen = r.seen /\ s.faulty = r.faulty
      /\ s.closed = r.closed /\ (s.time = r.time \/ (r.time <= MAX_TIME /\ s.time = r.time + 5))
      /\ s.log = r.log /\ s.from = r.from /\ s.raw = r.raw
  BY <1>1, <1>2, <1>3, ZenonT(60) DEF IsRun, RunFields
<1>5. s.time \in 0 .. MAX_TIME + 5
  BY <1>2, <1>4, ConstantsAssumption, SMTT(30)
<1>6. RunOK(s)
  BY <1>1, <1>4, <1>5, ReadingOn
<1>7. CountOK' /\ RestOK' /\ UNCHANGED events
  BY CountStep DEF WaitVpd, ReadVpd, counters, IInv, RestOK
<1> QED
  BY <1>3, <1>6, <1>7, StepIInv

LEMMA ReadSmartOK ==
  ASSUME IInv, NEW p \in Processes, ReadSmart(p)
  PROVE  IInv'
<1> PICK r : r = run[p]
  OBVIOUS
<1>1. r.pc = "smart" /\ RunOK(r) /\ EventsOK
  BY DEF ReadSmart, At, IInv, RunsOK
<1>2. PICK name \in Names : Step(p, Decide(r, LogOf(name), name))
  <2>1. r.todo # <<>> /\ Head(r.todo) \in D
    BY <1>1, ReadyRun
  <2>2. smart[Head(r.todo)] \in Names
    BY <2>1 DEF IInv, RestOK, Names
  <2>3. "none" \in Names /\ LogOf("none") = NoLog
    BY DEF Names, LogOf
  <2> QED
    BY <2>2, <2>3 DEF ReadSmart, Dev
<1>3. RunOK(Decide(r, LogOf(name), name))
  BY <1>1, DecideOK
<1>4. CountOK' /\ RestOK' /\ UNCHANGED events
  BY CountStep DEF ReadSmart, IInv, RestOK
<1> QED
  BY <1>2, <1>3, <1>4, StepIInv

LEMMA ReadFileOK ==
  ASSUME IInv, NEW p \in Processes, ReadFile(p)
  PROVE  IInv'
<1> PICK r : r = run[p]
  OBVIOUS
<1>1. r.pc = "smart" /\ RunOK(r) /\ EventsOK
  BY DEF ReadFile, At, IInv, RunsOK
<1>2. PICK s : /\ Step(p, s)
               /\ s = NextDevice(r, -1) \/ \E name \in Names : s = Decide(r, LogOf(name), name)
  <2>1. "none" \in Names /\ LogOf("none") = NoLog
    BY DEF Names, LogOf
  <2>2. file # "none" =>
          file \in Names /\ ~Refused(Content) /\ set_smart_log_field(Content) = LogOf(file)
    <3>1. file # "none" => file \in DOMAIN Logs
      BY DEF IInv, RestOK
    <3> QED
      BY <3>1, FileKept, LogRead DEF Content, Names
  <2> QED
    BY <2>1, <2>2 DEF ReadFile
<1>3. RunOK(NextDevice(r, -1))
  <2>1. Kept(r) /\ r.todo # <<>> /\ AllSettled(r, -1)
    BY <1>1, ReadyRun DEF AllSettled
  <2> QED
    BY <1>1, <2>1, NextDeviceOK
<1>4. RunOK(s)
  BY <1>1, <1>2, <1>3, DecideOK
<1>5. CountOK' /\ RestOK' /\ UNCHANGED events
  BY CountStep DEF ReadFile, counters, IInv, RestOK
<1> QED
  BY <1>2, <1>4, <1>5, StepIInv

-----------------------------------------------------------------------------
(* Steps of log_event.                                                     *)

LEMMA FailedOK ==
  ASSUME NEW r, RunOK(r), Reporting(r), EventsOK
  PROVE  RunOK(Continue(r, -1))
<1>1. Kept(r) /\ r.todo # <<>> /\ AllSettled(r, -1)
  BY ReadyRun DEF Reporting, AllSettled
<1> QED
  BY <1>1, ContinueOK

LEMMA LocateOK ==
  ASSUME IInv, NEW p \in Processes, Locate(p)
  PROVE  IInv'
<1> PICK r : r = run[p]
  OBVIOUS
<1> PICK s : s = [r EXCEPT !.pc = IF r.severity = "error" THEN "check" ELSE "log"]
  OBVIOUS
<1>1. r.pc = "locate" /\ RunOK(r) /\ EventsOK
  BY DEF Locate, At, IInv, RunsOK
<1>2. /\ IsRun(s) /\ s.pc = (IF r.severity = "error" THEN "check" ELSE "log") /\ s.todo = r.todo
      /\ s.time = r.time /\ s.severity = r.severity /\ s.rc = r.rc /\ s.blind = r.blind
      /\ s.seen = r.seen /\ s.faulty = r.faulty /\ s.closed = r.closed
      /\ s.log = r.log /\ s.from = r.from /\ s.raw = r.raw
  BY <1>1 DEF RunOK, Kept, IsRun, RunFields
<1>7. RawOK(s) /\ Told(s)
  BY <1>1, <1>2 DEF RunOK, Kept, RawOK, Told, Reporting
<1>3. RunOK(s)
  BY <1>1, <1>2, <1>7 DEF RunOK, Kept, Ahead, PcOK, PCs, Reporting, LookedUp, Settled, ToReport
<1>4. RunOK(Continue(r, -1))
  BY <1>1, FailedOK DEF Reporting
<1>5. Step(p, s) \/ Step(p, Continue(r, -1))
  BY DEF Locate
<1>6. CountOK' /\ RestOK' /\ UNCHANGED events
  BY CountStep DEF Locate, IInv, RestOK
<1> QED
  BY <1>3, <1>4, <1>5, <1>6, StepIInv

LEMMA CheckOpenOK ==
  ASSUME IInv, NEW p \in Processes, CheckOpen(p)
  PROVE  IInv'
<1> PICK r : r = run[p]
  OBVIOUS
<1>1. r.pc = "check" /\ RunOK(r) /\ EventsOK
  BY DEF CheckOpen, At, IInv, RunsOK
<1>2. \/ Step(p, Continue(r, 0)) /\ check_open_serv_event(Head(r.todo))
      \/ /\ ~check_open_serv_event(Head(r.todo))
         /\ Step(p, [r EXCEPT !.pc = "log", !.seen = Len(events)])
      \/ Step(p, [r EXCEPT !.pc = "log", !.blind = TRUE, !.seen = Len(events)])
  BY DEF CheckOpen, Dev
<1>3. CountOK' /\ RestOK' /\ UNCHANGED events
  BY CountStep DEF CheckOpen, IInv, RestOK
<1>4. CASE Step(p, Continue(r, 0)) /\ check_open_serv_event(Head(r.todo))
  <2>1. AllSettled(r, 0)
    BY <1>1, <1>4 DEF RunOK, AllSettled, Settled, ToReport, check_open_serv_event
  <2>2. Kept(r) /\ r.todo # <<>>
    BY <1>1, ReadyRun
  <2>3. RunOK(Continue(r, 0))
    BY <1>1, <2>1, <2>2, ContinueOK
  <2> QED
    BY <1>3, <1>4, <2>3, StepIInv
<1> PICK now : now = Len(events)
  OBVIOUS
<1>5. ASSUME NEW s, IsRun(s), s.pc = "log", s.todo = r.todo, s.time = r.time, s.severity = r.severity,
             s.rc = r.rc, s.seen = now, s.faulty = r.faulty, s.closed = r.closed,
             s.log = r.log, s.from = r.from, s.raw = r.raw,
             s.blind \in BOOLEAN, s.blind \/ ~check_open_serv_event(Head(r.todo))
      PROVE  RunOK(s)
  <2>1. now \in 0 .. Len(events) /\ 1 .. now = DOMAIN events
    BY <1>1 DEF EventsOK
  <2>6. RawOK(s) /\ Told(s)
    BY <1>1, <1>5 DEF RunOK, Kept, RawOK, Told, Reporting
  <2>2. Kept(s)
    BY <1>1, <1>5, <2>1, <2>6 DEF RunOK, Kept, Ahead
  <2>3. PcOK(s)
    BY <1>1, <1>5 DEF RunOK, PcOK, PCs, Reporting
  <2>4. LookedUp(s)
    BY <1>5, <2>1 DEF LookedUp, check_open_serv_event, OpenFor
  <2>5. \A d \in s.faulty : Settled(s, d) \/ ToReport(s, d)
    BY <1>1, <1>5 DEF RunOK, Settled, ToReport, Reporting
  <2> QED
    BY <1>5, <2>2, <2>3, <2>4, <2>5, <2>6 DEF RunOK
<1>6. CASE /\ ~check_open_serv_event(Head(r.todo))
           /\ Step(p, [r EXCEPT !.pc = "log", !.seen = Len(events)])
  <2> PICK s : s = [r EXCEPT !.pc = "log", !.seen = now]
    OBVIOUS
  <2>1. /\ IsRun(s) /\ s.pc = "log" /\ s.todo = r.todo /\ s.time = r.time /\ s.severity = r.severity
        /\ s.rc = r.rc /\ s.seen = now /\ s.faulty = r.faulty /\ s.closed = r.closed
        /\ s.blind = r.blind /\ s.log = r.log /\ s.from = r.from /\ s.raw = r.raw
    BY <1>1 DEF RunOK, Kept, IsRun, RunFields
  <2>2. s.blind \in BOOLEAN
    BY <1>1, <2>1 DEF RunOK, Kept
  <2>3. RunOK(s)
    BY <1>5, <1>6, <2>1, <2>2
  <2> QED
    BY <1>3, <1>6, <2>3, StepIInv
<1>7. CASE Step(p, [r EXCEPT !.pc = "log", !.blind = TRUE, !.seen = Len(events)])
  <2> PICK s : s = [r EXCEPT !.pc = "log", !.blind = TRUE, !.seen = now]
    OBVIOUS
  <2>1. /\ IsRun(s) /\ s.pc = "log" /\ s.todo = r.todo /\ s.time = r.time /\ s.severity = r.severity
        /\ s.rc = r.rc /\ s.seen = now /\ s.faulty = r.faulty /\ s.closed = r.closed
        /\ s.blind = TRUE /\ s.log = r.log /\ s.from = r.from /\ s.raw = r.raw
    BY <1>1 DEF RunOK, Kept, IsRun, RunFields
  <2>2. s.blind \in BOOLEAN /\ s.blind
    BY <2>1, Zenon
  <2>3. RunOK(s)
    BY <1>5, <2>1, <2>2
  <2> QED
    BY <1>3, <1>7, <2>3, StepIInv
<1> QED
  BY <1>2, <1>4, <1>6, <1>7

(* The lemma about Continue, for the servicelog as it is after a step.     *)
LEMMA ContinueAll ==
  \A r, rc : Kept(r) /\ r.todo # <<>> /\ rc \in {0, -1} /\ AllSettled(r, rc) /\ EventsOK =>
    RunOK(Continue(r, rc))
  BY ContinueOK

LEMMA ContinueThen ==
  (\A r, rc : Kept(r) /\ r.todo # <<>> /\ rc \in {0, -1} /\ AllSettled(r, rc) /\ EventsOK =>
     RunOK(Continue(r, rc)))'
  BY ContinueAll, PTL

LEMMA LogEventOK ==
  ASSUME IInv, NEW p \in Processes, LogEvent(p)
  PROVE  IInv'
<1> PICK r : r = run[p]
  OBVIOUS
<1>1. r.pc = "log" /\ RunOK(r) /\ EventsOK
  BY DEF LogEvent, At, IInv, RunsOK
<1>2. Kept(r) /\ r.todo # <<>> /\ Head(r.todo) \in D
  BY <1>1, ReadyRun
<1>3. CountOK' /\ RestOK'
  BY CountStep DEF LogEvent, IInv, RestOK
<1> PICK x : x = [dev |-> Head(r.todo), serviceable |-> r.severity = "error", open |-> TRUE,
                  raw |-> r.raw, blind |-> r.blind, seen |-> r.seen, read |-> r.from]
  OBVIOUS
<1>4. /\ x \in EventSet /\ x.dev = Head(r.todo) /\ x.seen = r.seen
      /\ x.serviceable <=> r.severity = "error"
      /\ x.blind <=> r.blind
      /\ x.open
      /\ Held(x.serviceable, x.read, x.raw)
  <2>1. r.blind \in BOOLEAN /\ r.seen \in Nat
    BY <1>1, <1>2 DEF Kept, EventsOK
  <2>7. r.raw \in Raws /\ r.from \in Names
    BY <1>2, RawTyped DEF Kept
  <2>2. x \in EventSet
    BY <1>2, <2>1, <2>7 DEF EventSet
  <2>8. Held(x.serviceable, x.read, x.raw)
    <3>1. Held(r.severity = "error", r.from, r.raw)
      BY <1>1 DEF RunOK, Told, Reporting
    <3>2. x.read = r.from /\ x.raw = r.raw /\ x.serviceable = (r.severity = "error")
      OBVIOUS
    <3> QED
      BY <3>1, <3>2
  <2>3. x.dev = Head(r.todo) /\ x.seen = r.seen
    OBVIOUS
  <2>4. x.serviceable <=> r.severity = "error"
    BY Zenon
  <2>5. x.blind <=> r.blind
    BY Zenon
  <2>6. x.open
    BY Zenon
  <2> QED
    BY <2>2, <2>3, <2>4, <2>5, <2>6, <2>8
<1>5. \/ events' = Append(events, x) /\ Step(p, Continue(r, 0))
      \/ UNCHANGED events /\ Step(p, Continue(r, -1))
  BY DEF LogEvent, Dev
<1>6. CASE UNCHANGED events /\ Step(p, Continue(r, -1))
  <2>1. RunOK(Continue(r, -1))
    BY <1>1, FailedOK DEF Reporting
  <2> QED
    BY <1>3, <1>6, <2>1, StepIInv
<1>7. CASE events' = Append(events, x) /\ Step(p, Continue(r, 0))
  <2> PICK now : now = Len(events)
    OBVIOUS
  <2>1. /\ Len(events') = now + 1 /\ now \in Nat /\ events' \in Seq(EventSet)
        /\ DOMAIN events = 1 .. now /\ DOMAIN events' = 1 .. (now + 1)
        /\ \A e \in 1 .. now : events'[e] = events[e]
        /\ events'[now + 1] = x
    BY <1>1, <1>4, <1>7 DEF EventsOK
  <2>2. EventsOK'
    <3>1. ASSUME NEW f \in 1 .. (now + 1)
          PROVE  /\ events'[f].seen < f
                 /\ Held(events'[f].serviceable, events'[f].read, events'[f].raw)
                 /\ Serviceable(f)' /\ ~events'[f].blind /\ events'[f].dev \notin Padded =>
                      \A e \in 1 .. events'[f].seen :
                        events'[e].dev = events'[f].dev => ~Serviceable(e)'
      <4>1. CASE f \in 1 .. now
        <5>1. /\ events[f].seen < f
              /\ Held(events[f].serviceable, events[f].read, events[f].raw)
              /\ Serviceable(f) /\ ~events[f].blind /\ events[f].dev \notin Padded =>
                   \A e \in 1 .. events[f].seen : events[e].dev = events[f].dev => ~Serviceable(e)
          BY <1>1, <2>1, <4>1 DEF EventsOK
        <5>2. events[f].seen \in Nat
          <6>1. events[f] \in EventSet
            BY <1>1, <2>1, <4>1 DEF EventsOK
          <6> QED
            BY <6>1 DEF EventSet
        <5>3. \A e \in 1 .. events[f].seen : e \in 1 .. now
          BY <2>1, <4>1, <5>1, <5>2
        <5> QED
          BY <2>1, <4>1, <5>1, <5>3 DEF Serviceable
      <4>2. CASE f = now + 1
        <5>1. r.seen \in 0 .. now
          BY <1>2 DEF Kept
        <5>2. \A e \in 1 .. r.seen : e \in 1 .. now
          BY <2>1, <5>1
        <5>3. LookedUp(r)
          BY <1>1 DEF RunOK
        <5> QED
          BY <1>1, <1>4, <2>1, <4>2, <5>1, <5>2, <5>3 DEF LookedUp, Serviceable
      <4> QED
        BY <2>1, <4>1, <4>2
    <3> QED
      BY <2>1, <3>1 DEF EventsOK
  <2>3. RunOK(r)' /\ Kept(r)'
    BY <1>1, <1>4, <1>7, MoreEvents DEF RunOK
  <2>4. AllSettled(r, 0)'
    <3>1. \A d \in r.faulty : Settled(r, d)' \/ (r.severity = "error" /\ d = Head(r.todo))
      BY <2>3 DEF RunOK, ToReport
    <3>2. r.severity = "error" => now + 1 \in OpenFor(Head(r.todo))'
      BY <1>4, <2>1 DEF OpenFor, Serviceable
    <3>3. \A d \in r.faulty : Settled(r, d)'
      BY <3>1, <3>2 DEF Settled
    <3> QED
      BY <3>3 DEF AllSettled
  <2> PICK s : s = Continue(r, 0)
    OBVIOUS
  <2>5. RunOK(s)'
    <3>1. RunOK(Continue(r, 0))'
      BY <1>2, <2>2, <2>3, <2>4, ContinueThen
    <3> QED
      BY <3>1
  <2>6. run'[p] = s /\ DOMAIN run' = Processes /\ \A q \in Processes : q # p => run'[q] = run[q]
    BY <1>7 DEF Step, IInv, RunsOK
  <2>7. ASSUME NEW q \in Processes
        PROVE  RunOK(run[q])'
    <3> PICK t : t = run'[q]
      OBVIOUS
    <3>1. RunOK(t)'
      <4>1. CASE q = p
        BY <2>5, <2>6, <4>1
      <4>2. CASE q # p
        <5>1. RunOK(t)
          BY <2>6, <4>2 DEF IInv, RunsOK
        <5> QED
          BY <1>1, <1>4, <1>7, <5>1, MoreEvents
      <4> QED
        BY <4>1, <4>2
    <3> QED
      BY <3>1 DEF RunOK, Kept, Ahead, PcOK, Reporting, LookedUp, Settled, ToReport
  <2>8. RunsOK'
    BY <2>6, <2>7 DEF RunsOK
  <2> QED
    BY <1>3, <2>2, <2>8 DEF IInv
<1> QED
  BY <1>5, <1>6, <1>7

-----------------------------------------------------------------------------
(* Steps of the environment.                                               *)

LEMMA NoRunSteps ==
  ASSUME IInv, UNCHANGED <<run, events>>, RestOK', CountOK'
  PROVE  IInv'
<1>1. EventsOK'
  BY DEF IInv, EventsOK, Serviceable
<1>2. ASSUME NEW q \in Processes
      PROVE  RunOK(run[q])'
  <2> PICK r : r = run[q]
    OBVIOUS
  <2>1. RunOK(r)'
    BY SameEvents DEF IInv, RunsOK
  <2> QED
    BY <2>1 DEF RunOK, Kept, Ahead, PcOK, Reporting, LookedUp, Settled, ToReport
<1>3. RunsOK'
  BY <1>2 DEF IInv, RunsOK
<1> QED
  BY <1>1, <1>3 DEF IInv

LEMMA OutsideOK ==
  ASSUME IInv, Change \/ (\E d \in D : dump_smart_data(d)) \/ UNCHANGED vars
  PROVE  IInv'
<1>1. UNCHANGED <<run, events>>
  BY DEF Change, dump_smart_data, vars
<1>2. CountOK'
  BY ConstantsAssumption DEF Change, dump_smart_data, vars, counters, IInv, CountOK
<1>3. RestOK'
  BY DEF Change, dump_smart_data, vars, IInv, RestOK
<1> QED
  BY <1>1, <1>2, <1>3, NoRunSteps

(* A repair closes the events of a device, for which every run is told.    *)
LEMMA RepairOK ==
  ASSUME IInv, Repair
  PROVE  IInv'
<1> PICK d \in D :
      /\ events' = [e \in DOMAIN events |-> [events[e] EXCEPT !.open = @ /\ e \notin OpenFor(d)]]
      /\ run' = [p \in Processes |-> [run[p] EXCEPT !.closed = @ \union {d}]]
  BY DEF Repair
<1> PICK now : now = Len(events)
  OBVIOUS
<1>1. EventsOK /\ events \in Seq(EventSet) /\ now \in Nat /\ DOMAIN events = 1 .. now
  BY DEF IInv, EventsOK
<1>2. ASSUME NEW e \in 1 .. now
      PROVE  /\ events'[e] \in EventSet /\ events'[e].dev = events[e].dev
             /\ events'[e].seen = events[e].seen /\ events'[e].blind = events[e].blind
             /\ events'[e].serviceable = events[e].serviceable
             /\ events'[e].raw = events[e].raw /\ events'[e].read = events[e].read
             /\ events'[e].open <=> events[e].open /\ e \notin OpenFor(d)
  <2> PICK x : x = events[e]
    OBVIOUS
  <2> PICK b : b = (x.open /\ e \notin OpenFor(d))
    OBVIOUS
  <2>1. x \in EventSet
    BY <1>1
  <2>2. b \in BOOLEAN /\ (b <=> x.open /\ e \notin OpenFor(d))
    BY Zenon
  <2>3. events'[e] = [x EXCEPT !.open = b]
    BY <1>1
  <2> PICK y : y = [x EXCEPT !.open = b]
    OBVIOUS
  <2>4. y \in EventSet /\ y.dev = x.dev /\ y.seen = x.seen /\ y.blind = x.blind
        /\ y.serviceable = x.serviceable /\ y.open = b /\ y.raw = x.raw /\ y.read = x.read
    BY <2>1, <2>2 DEF EventSet
  <2> QED
    BY <2>2, <2>3, <2>4
<1>3. events' \in Seq(EventSet) /\ Len(events') = now /\ DOMAIN events' = 1 .. now
  <2>1. events' \in [1 .. now -> EventSet]
    BY <1>1, <1>2
  <2>2. events' \in Seq(EventSet)
    BY <1>1, <2>1, SeqDef
  <2>3. DOMAIN events' = 1 .. now /\ DOMAIN events' = 1 .. Len(events') /\ Len(events') \in Nat
    BY <2>1, <2>2, LenProperties
  <2> QED
    BY <1>1, <2>2, <2>3
<1>4. \A e \in 1 .. now : Serviceable(e)' <=> Serviceable(e) /\ e \notin OpenFor(d)
  <2> SUFFICES ASSUME NEW e \in 1 .. now
               PROVE  Serviceable(e)' <=> Serviceable(e) /\ e \notin OpenFor(d)
    OBVIOUS
  <2>1. /\ events'[e].serviceable = events[e].serviceable
        /\ events'[e].open <=> events[e].open /\ e \notin OpenFor(d)
    BY <1>2
  <2> QED
    BY <2>1, Zenon DEF Serviceable
<1>5. EventsOK'
  <2>1. ASSUME NEW f \in 1 .. now
        PROVE  /\ events'[f].seen < f
               /\ Held(events'[f].serviceable, events'[f].read, events'[f].raw)
               /\ Serviceable(f)' /\ ~events'[f].blind /\ events'[f].dev \notin Padded =>
                    \A e \in 1 .. events'[f].seen :
                      events'[e].dev = events'[f].dev => ~Serviceable(e)'
    <3>1. /\ events[f].seen < f
          /\ Held(events[f].serviceable, events[f].read, events[f].raw)
          /\ Serviceable(f) /\ ~events[f].blind /\ events[f].dev \notin Padded =>
               \A e \in 1 .. events[f].seen : events[e].dev = events[f].dev => ~Serviceable(e)
      BY <1>1, <2>1 DEF EventsOK
    <3>2. events[f].seen \in Nat
      <4>1. events[f] \in EventSet
        BY <1>1, <2>1
      <4> QED
        BY <4>1 DEF EventSet
    <3>3. \A e \in 1 .. events[f].seen : e \in 1 .. now
      BY <1>1, <2>1, <3>1, <3>2
    <3> QED
      BY <1>2, <1>4, <3>1, <3>3
  <2> QED
    BY <1>3, <2>1 DEF EventsOK
<1>6. \A x : x # d => OpenFor(x) \subseteq OpenFor(x)'
  <2>1. SUFFICES ASSUME NEW x, x # d, NEW e \in OpenFor(x)
                 PROVE  e \in OpenFor(x)'
    OBVIOUS
  <2>2. e \in 1 .. now /\ events[e].dev = x /\ Serviceable(e) /\ e \notin OpenFor(d)
    BY <1>1, <2>1 DEF OpenFor
  <2> QED
    BY <1>2, <1>3, <1>4, <2>2 DEF OpenFor
<1>7. ASSUME NEW q \in Processes
      PROVE  RunOK(run[q])'
  <2> PICK r : r = run[q]
    OBVIOUS
  <2> PICK s : s = [r EXCEPT !.closed = r.closed \union {d}]
    OBVIOUS
  <2>1. run'[q] = s /\ RunOK(r)
    BY DEF IInv, RunsOK
  <2>2. /\ IsRun(s) /\ s.pc = r.pc /\ s.todo = r.todo /\ s.time = r.time /\ s.severity = r.severity
        /\ s.rc = r.rc /\ s.blind = r.blind /\ s.seen = r.seen /\ s.faulty = r.faulty
        /\ s.closed = r.closed \union {d} /\ s.log = r.log /\ s.from = r.from /\ s.raw = r.raw
    BY <2>1 DEF RunOK, Kept, IsRun, RunFields
  <2>8. RawOK(s) /\ Told(s)
    BY <2>1, <2>2 DEF RunOK, Kept, RawOK, Told, Reporting
  <2>3. Kept(s)' /\ PcOK(s)'
    BY <1>1, <1>3, <2>1, <2>2, <2>8 DEF RunOK, Kept, Ahead, PcOK, Reporting
  <2>4. LookedUp(s)'
    <3>1. \A e \in 1 .. r.seen : e \in 1 .. now
      BY <1>1, <2>1 DEF RunOK, Kept
    <3> QED
      BY <1>2, <1>4, <2>1, <2>2, <3>1 DEF RunOK, LookedUp
  <2>5. ASSUME NEW x \in r.faulty
        PROVE  Settled(s, x)' \/ ToReport(s, x)'
    <3>1. Settled(r, x) \/ ToReport(r, x)
      BY <2>1 DEF RunOK
    <3>2. x # d /\ OpenFor(x) # {} => (OpenFor(x) # {})'
      BY <1>6
    <3> QED
      BY <2>2, <3>1, <3>2 DEF Settled, ToReport, Reporting
  <2>6. s.pc \in {"open", "vpd", "smart"} => Head(s.todo) \notin s.faulty
    BY <2>1, <2>2 DEF RunOK
  <2>7. RunOK(s)'
    BY <2>2, <2>3, <2>4, <2>5, <2>6, <2>8 DEF RunOK
  <2> QED
    BY <2>1, <2>7 DEF RunOK, Kept, Ahead, PcOK, Reporting, LookedUp, Settled, ToReport
<1>8. RunsOK'
  BY <1>7 DEF RunsOK
<1>9. RestOK' /\ CountOK'
  BY ConstantsAssumption DEF Repair, IInv, RestOK, CountOK
<1> QED
  BY <1>5, <1>8, <1>9 DEF IInv

-----------------------------------------------------------------------------
(* The theorems.                                                           *)

LEMMA InitIInv == Init => IInv
<1> SUFFICES ASSUME Init PROVE IInv
  OBVIOUS
<1>1. EventsOK
  <2>1. events = <<>> /\ <<>> \in Seq(EventSet) /\ Len(<<>>) = 0
    BY DEF Init
  <2> QED
    BY <2>1 DEF EventsOK
<1>2. RunsOK
  <2>1. Kept(NoRun)
    <3>1. 0 \in 0 .. MAX_TIME + 5 /\ 0 \in 0 .. Len(events)
      BY <1>1, ConstantsAssumption DEF EventsOK
    <3>2. IsInjective(<<>>) /\ <<>> \in Seq(D) /\ Len(<<>>) = 0
      BY DEF IsInjective
    <3>3. Ahead(NoRun)
      BY NoRunFacts, <3>2 DEF Ahead
    <3>4. NoRun.blind \in BOOLEAN
      BY NoRunFacts, Zenon
    <3> QED
      BY NoRunFacts, <3>1, <3>3, <3>4, Unread DEF Kept
  <2>2. RunOK(NoRun)
    BY NoRunFacts, <2>1 DEF RunOK, PcOK, PCs, Reporting, LookedUp, Told
  <2>3. DOMAIN run = Processes /\ \A p \in Processes : run[p] = NoRun
    BY DEF Init
  <2> QED
    BY <2>2, <2>3 DEF RunsOK
<1>3. RestOK /\ CountOK
  BY ConstantsAssumption DEF Init, RestOK, CountOK
<1> QED
  BY <1>1, <1>2, <1>3 DEF IInv

LEMMA RunDevices ==
  /\ Devices \in Seq(D) /\ IsInjective(Devices)
  /\ \A d \in D : <<d>> \in Seq(D) /\ IsInjective(<<d>>)
  BY ConstantsAssumption, SeqOfRange DEF D, IsInjective

LEMMA NextIInv == IInv /\ [Next]_vars => IInv'
<1> SUFFICES ASSUME IInv, [Next]_vars PROVE IInv'
  OBVIOUS
<1>1. ASSUME NEW p \in Processes, RunAll(p) \/ RunFile(p)
      PROVE  IInv'
  BY <1>1, RunDevices, StartOK DEF RunAll, RunFile
<1>2. ASSUME NEW p \in Processes, Proceed(p)
      PROVE  IInv'
  BY <1>2, OpenDeviceOK, VpdOK, ReadSmartOK, ReadFileOK, LocateOK, CheckOpenOK, LogEventOK
  DEF Proceed
<1> QED
  BY <1>1, <1>2, KilledOK, OutsideOK, RepairOK DEF Next

LEMMA Always == Spec => []IInv
  BY InitIInv, NextIInv, PTL DEF Spec

(* For any devices, logs and configuration, any overlap of runs, repairs   *)
(* and failures: two serviceable events are open for a device only if the  *)
(* lookup before the second failed or came before the first was logged, or *)
(* the location of the device ends in spaces.                              *)
THEOREM OneEventOpen == Spec => []OneOpenEvent
<1>1. IInv => OneOpenEvent
  <2>1. SUFFICES ASSUME IInv, NEW e \in DOMAIN events, NEW f \in DOMAIN events, e < f,
                        events[e].dev = events[f].dev, Serviceable(e), Serviceable(f),
                        ~events[f].blind, ~(e > events[f].seen), events[f].dev \notin Padded
                 PROVE  FALSE
    BY DEF OneOpenEvent
  <2>2. /\ e \in 1 .. Len(events) /\ f \in 1 .. Len(events) /\ events[f] \in EventSet
    BY <2>1 DEF IInv, EventsOK
  <2>3. e \in 1 .. events[f].seen
    BY <2>1, <2>2 DEF EventSet
  <2> QED
    BY <2>1, <2>2, <2>3 DEF IInv, EventsOK
<1> QED
  BY <1>1, Always, PTL

(* Likewise, a run returns 0 only if every device in which it has found an *)
(* error has an open event, or had one that has been closed since.         *)
THEOREM FaultsReturned == Spec => []FaultReported
<1>1. IInv => FaultReported
  <2>1. SUFFICES ASSUME IInv, NEW p \in Processes, run[p].pc = "ended", run[p].rc = 0,
                        NEW d \in run[p].faulty
                 PROVE  OpenFor(d) # {} \/ d \in run[p].closed
    BY DEF FaultReported, At
  <2>2. Settled(run[p], d)
    BY <2>1 DEF IInv, RunsOK, RunOK, ToReport, Reporting
  <2> QED
    BY <2>1, <2>2 DEF Settled
<1> QED
  BY <1>1, Always, PTL

(* For any logs, any overlap of runs and any changes and failures: the raw *)
(* data of every event hold the log that was decided on, but its fourth    *)
(* sensor, and bear the event out; they hold none only in the serviceable  *)
(* event about a log that could not be read.  What --file reads is what    *)
(* --dump wrote.                                                           *)
THEOREM LogsKept == Spec => []ReadingsKept
<1>1. ASSUME IInv
      PROVE  TypeOK
  <2>1. \A e \in DOMAIN events : events[e].dev \in D /\ events[e].seen < e
    <3>1. ASSUME NEW e \in DOMAIN events
          PROVE  events[e] \in EventSet /\ events[e].seen < e
      BY <1>1 DEF IInv, EventsOK
    <3> QED
      BY <3>1 DEF EventSet
  <2>2. ASSUME NEW p \in Processes
        PROVE  /\ run[p].pc \in PCs /\ run[p].rc \in Int /\ run[p].rc <= 0
               /\ run[p].time \in 0 .. MAX_TIME + 5
               /\ (run[p].pc \in {"idle", "ended"}) <=> (run[p].todo = <<>>)
               /\ run[p].pc \in {"locate", "check", "log"} => run[p].severity # "none"
               /\ run[p].severity # "none" => run[p].pc \in {"locate", "check", "log"}
    BY <1>1 DEF IInv, RunsOK, RunOK, Kept, PcOK, Reporting
  <2> QED
    BY <1>1, <2>1, <2>2 DEF IInv, RestOK, CountOK, TypeOK
<1>2. ASSUME IInv, NEW p \in Processes, run[p].pc = "smart", file # "none"
      PROVE  ~Refused(Content) /\ set_smart_log_field(Content) = Logs[file]
  <2>1. file \in DOMAIN Logs
    BY <1>2 DEF IInv, RestOK
  <2> QED
    BY <2>1, FileKept DEF Content
<1>4. ASSUME IInv, NEW e \in DOMAIN events
      PROVE  IF events[e].read = "none"
             THEN events[e].serviceable /\ events[e].raw = NoItems
             ELSE /\ {Logs[events[e].read][f] : f \in Fields \ {"temp_sensor4"}}
                        \subseteq Range(events[e].raw)
                  /\ BearOut(events[e].serviceable, events[e].raw)
  <2>1. Held(events[e].serviceable, events[e].read, events[e].raw)
    BY <1>4 DEF IInv, EventsOK
  <2> QED
    BY <2>1, ItemsKept DEF Held
<1>3. IInv => ReadingsKept
  BY <1>1, <1>2, <1>4 DEF ReadingsKept, At
<1> QED
  BY <1>3, Always, PTL
=============================================================================

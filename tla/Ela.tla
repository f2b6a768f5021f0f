--------------------------------- MODULE Ela ---------------------------------
(***************************************************************************)
(* rtas_errd, ela.c: the analysis of events before version 6 into a        *)
(* reference code (an SRN such as A03-140, or the number of a menu goal)   *)
(* and callouts of parts at locations, and, from V6Ela, of events of       *)
(* version 6.  The daemon analyses one event after the other; what it      *)
(* remembers in between are the descriptions in dchrp_frus.h, which it     *)
(* writes into, and the list of EPOWs that have been reset.                *)
(*                                                                         *)
(* Bit n of the symptoms is bit n % 8 of byte 12 + n \div 8 of the event,  *)
(* or of byte 16 + n \div 8 for EPOW and the service processor.  What the  *)
(* code never prints is left out: names and texts of parts, confidences    *)
(* except for whether they are zero, and the error data, which nobody      *)
(* fills in (so a menu goal never shows a reference code).                 *)
(***************************************************************************)
EXTENDS Integers, SequencesExt

CONSTANTS
  Events,     \* the events that may come
  PartNumber, \* the part number of a location in the vital product data
  Planars,    \* locations that look like a planar
  Processors, \* locations that look like a processor
  MaxEvents   \* bound: events analysed by one run of the daemon

V6 == INSTANCE V6Ela

CPU == 1
MEM == 2
IO == 3
POST == 4
EPOW == 5
SP == 13
MAXFRUS == 4
Short(n) == n % 65536
NA == "n/a"

(* The part number in the vital product data.                              *)
diag_get_fru_pn(loc) == IF loc \in DOMAIN PartNumber THEN PartNumber[loc] ELSE NA

-----------------------------------------------------------------------------
VARIABLES
  mem,     \* what the daemon keeps in its static data
  report,  \* what it has logged for the last event
  last,    \* the last event
  known,   \* mem before the last event
  count    \* events analysed since the daemon started

vars == <<mem, report, last, known, count>>

(* floc of io9CC (two parts each), the reason codes of unknown_epow and of *)
(* platform_error, and the types of EPOW that have been reset.             *)
Pristine ==
  [io9CC |-> [k \in 0 .. 2 |-> <<" ", " ">>], unknown |-> 0, platform |-> \h900, resets |-> {}]

Nothing ==
  [kind |-> "none", sn |-> 0, rcode |-> 0, message |-> V6!NoMessage, callouts |-> <<>>, home |-> FALSE]

-----------------------------------------------------------------------------
(* An analysis in progress has the memory m, the report r, the description *)
(* d for version 3 (v3_errdscr), and the result rc of the last function.   *)
Begin(e, m) == [m |-> m, r |-> Nothing, d |-> [sn |-> 0, rcode |-> 0], rc |-> 0]
Return(s, n) == [s EXCEPT !.rc = n]

(* Locations after the character > are hidden: the text is there, but      *)
(* get_loc_code does not return them.                                      *)
LOC_CODES_OK(e) == e.locs # <<>> \/ e.hidden
GetLoc(e, i) == IF i \in DOMAIN e.locs THEN e.locs[i] ELSE ""

(* The callouts of up to MAXFRUS parts.  A part without a location gets    *)
(* the part number of the one before it.                                   *)
Callouts(frus) ==
  LET Located(i) == {j \in 1 .. i : frus[j].loc # ""}
  IN  [i \in DOMAIN frus |->
        [loc  |-> IF frus[i].loc = "" THEN NA ELSE frus[i].loc,
         proc |-> frus[i].proc,
         fru  |-> IF Located(i) = {} THEN NA
                  ELSE diag_get_fru_pn(frus[Max(Located(i))].loc)]]

set_srn_and_callouts(s, sn, rcode, frus) ==
  [s EXCEPT !.r = [@ EXCEPT !.kind = "srn", !.sn = Short(sn), !.rcode = Short(rcode),
                            !.callouts = @ \o Callouts(frus)]]
add_more_descrs(s, frus) == [s EXCEPT !.r.callouts = @ \o Callouts(frus)]

(* Parts are reported in groups of MAXFRUS.                                *)
Groups(n) == IF n = 0 THEN 1 ELSE (n + MAXFRUS - 1) \div MAXFRUS
(* Mutant: a group one short.                                              *)
GroupShort(frus, k) == SubSeq(frus, MAXFRUS * (k - 1) + 1, IF MAXFRUS * k <= Len(frus) THEN MAXFRUS * k - 1 ELSE Len(frus))
Group(frus, k) == SubSeq(frus, MAXFRUS * (k - 1) + 1, IF MAXFRUS * k < Len(frus) THEN MAXFRUS * k ELSE Len(frus))
ReportGroups(s, sn, rcode, frus) ==
  FoldLeft(LAMBDA t, k : add_more_descrs(t, Group(frus, k)),
           set_srn_and_callouts(s, sn, rcode, Group(frus, 1)),
           [k \in 1 .. Groups(Len(frus)) - 1 |-> k + 1])

Parts(locs) == [i \in DOMAIN locs |-> [loc |-> locs[i], proc |-> NA]]
HomeCandidate(s) == [s EXCEPT !.r.home = TRUE]
report_srn(s, e, sn, rcode) == HomeCandidate(ReportGroups(s, sn, rcode, Parts(e.locs)))

report_menugoal(s, n) == [s EXCEPT !.r = [@ EXCEPT !.kind = "goal", !.sn = 0, !.rcode = n]]
IfLocated(s, e, n, otherwise) == report_menugoal(s, IF LOC_CODES_OK(e) THEN n ELSE otherwise)

(* Reference codes: each is called out once for each of its locations, or  *)
(* once without one.  n: the number of locations of the code.              *)
CodesAt(src, k) == FoldLeft(LAMBDA t, c : t + c.n, 0, SubSeq(src, 1, k - 1))
CodeParts(e, src, k) ==
  [i \in 1 .. (IF src[k].n = 0 THEN 1 ELSE src[k].n) |->
    [loc |-> IF src[k].n = 0 THEN "" ELSE GetLoc(e, CodesAt(src, k) + i), proc |-> src[k].code]]
process_refcodes(s, e, src) ==
  ReportGroups(s, IF e.predictive THEN \h652 ELSE \h651, \h880,
               FlattenSeq([k \in DOMAIN src |-> CodeParts(e, src, k)]))

-----------------------------------------------------------------------------
(* The symptoms of error_type.  For IO, four bits of byte 13 only say      *)
(* where; io_error_type has them.                                          *)
Symptoms(e) ==
  CASE e.fmt = CPU -> e.bits \intersect 0 .. 7
    [] e.fmt = IO  -> e.bits \ 8 .. 11
    [] e.fmt = SP  -> e.bits \intersect 0 .. 23
    [] OTHER       -> e.bits

(* Deferred: the description for a predictive error.                       *)
Deferred(e, n) == [sn |-> IF e.predictive THEN \h652 ELSE \h651, rcode |-> n]
Always(n) == [sn |-> \h651, rcode |-> n]
None == [sn |-> 0, rcode |-> 0]

(* The SRNs of version 1 and of POST, by the symptom if there is just one. *)
Only(e, table) ==
  LET hit == {i \in DOMAIN table : Symptoms(e) = {table[i][1]}}
  IN  IF hit = {} THEN 0 ELSE table[CHOOSE i \in hit : TRUE][2]
Numbered(first, rcodes) == [i \in DOMAIN rcodes |-> <<first + i - 1, rcodes[i]>>]

MemTable == Numbered(0, <<\h600, \h600, \h600, \h624, \h625, \h626, 0, \h627,
                          \h722, \h628, \h723, \h724, \h725>>)
SpTable  == Numbered(0, <<\h740, \h640, \h641, \h642, \h741, \h742, \h643, \h644>>)
            \o Numbered(8, <<\h743, \h744, \h745, \h746, \h747, \h748>>)
            \o Numbered(16, <<\h749, \h750, \h751, \h752, \h753>>)
            \o << <<23, \h760>> >>
CpuTable == Numbered(0, <<\h610, \h611, \h612, \h613, \h614, \h615>>)

V1Cpu(e) ==
  LET n == IF Symptoms(e) = {} THEN \h619 ELSE Only(e, CpuTable)
  IN  IF n \in \h610 .. \h613 THEN Deferred(e, n) ELSE IF n = 0 THEN None ELSE Always(n)
V1Mem(e) ==
  LET n == IF Symptoms(e) = {} THEN \h629 ELSE Only(e, MemTable)
  IN  IF n = 0 THEN None ELSE Always(n)
V1Sp(e) == LET n == Only(e, SpTable) IN IF n = 0 THEN None ELSE Always(n)


(* A parity or time-out error of an I/O bus: no device is ever found, so   *)
(* both names are empty and equal.  The description has room for two       *)
(* locations, and without one keeps those it had.                          *)
report_io_error_frus(s, e, k) ==
  LET locs == SubSeq(e.locs, 1, IF Len(e.locs) < 2 THEN Len(e.locs) ELSE 2)
      t == IF locs = <<>> THEN s ELSE [s EXCEPT !.m.io9CC[k] = locs]
  IN  Return(set_srn_and_callouts(t, \h9AA, \h100, Parts(t.m.io9CC[k])), 1)

analyze_io_bus_error(s, e, version) ==
  LET k == CHOOSE b \in 0 .. 3 : Symptoms(e) = {b} \/ b = 3
  IN  IF (version >= 3 /\ LOC_CODES_OK(e)) \/ k = 3 THEN Return(s, 0)
      ELSE report_io_error_frus(s, e, k)

(* The bits of io_error_type that choose among the descriptions.           *)
V1Io(e) ==
  CASE Symptoms(e) = {}  -> Always(\h639)
    [] Symptoms(e) = {3} -> IF e.bits = {3, 10} THEN Deferred(e, \h634) ELSE [sn |-> \h832, rcode |-> 0]
    [] Symptoms(e) = {4} -> Always(\h730)
    [] Symptoms(e) = {5} -> Deferred(e, CASE e.bits = {5, 9} -> \h733 [] e.bits = {5, 10} -> \h770
                                          [] OTHER -> \h731)
    [] Symptoms(e) = {6} -> Deferred(e, CASE e.bits = {6, 9} -> \h734 [] e.bits = {6, 10} -> \h771
                                          [] e.bits = {6, 11} -> \h773 [] OTHER -> \h732)
    [] Symptoms(e) = {7} -> Deferred(e, CASE e.bits = {7, 9} -> \h736 [] e.bits = {7, 10} -> \h772
                                          [] OTHER -> \h735)
    [] \E b \in 12 .. 15 : Symptoms(e) = {b} ->
         Deferred(e, \h630 + (CHOOSE b \in 12 .. 15 : Symptoms(e) = {b}) - 12)
    [] OTHER -> None

(* A processor or bus error with the bits 6 or 7: the locations choose the *)
(* description, and are put into the order planar, processor, processor.   *)
Is(e, kinds) == Len(e.locs) = Len(kinds) /\ \A i \in DOMAIN kinds : e.locs[i] \in kinds[i]
NoPlanarFirst == Processors \ Planars
get_cpu_frus(e) ==
  LET P == Planars  C == Processors  F == NoPlanarFirst
      three == SubSeq(e.locs, 1, IF Len(e.locs) < 3 THEN Len(e.locs) ELSE 3)
      t == [e EXCEPT !.locs = three]
      swapped == [e EXCEPT !.locs = [i \in DOMAIN three |-> IF i < 3 THEN three[3 - i] ELSE three[i]],
                           !.hidden = FALSE]
  IN  CASE Is(t, <<P>>)       -> [rc |-> 1, e |-> e]
        [] Is(t, <<P, C>>)    -> [rc |-> 2, e |-> e]
        [] Is(t, <<P, C, C>>) -> [rc |-> 3, e |-> e]
        [] Is(t, <<F, P>>)    -> [rc |-> 2, e |-> swapped]
        [] Is(t, <<F, P, C>>) -> [rc |-> 3, e |-> swapped]
        [] OTHER              -> [rc |-> 0, e |-> e]
V1CpuBus(s, e) ==
  LET got == get_cpu_frus(e)
      rcode == IF got.rc = 0 THEN \h619 ELSE (IF Symptoms(e) = {6} THEN \h70F ELSE \h712) + got.rc
  IN  report_srn(s, got.e, \h651, rcode)

(* POST: up to four locations, and the code of the event as it is.         *)
PostSymptoms == 0 .. 13 \union {15}
(* Mutant: an event without a symptom is not reported.                     *)
V1PostSome(s, e) ==
  IF \E b \in PostSymptoms : Symptoms(e) = {b}
  THEN LET t == set_srn_and_callouts(s, 0, 0, Parts(SubSeq(e.locs, 1, IF Len(e.locs) < 4 THEN Len(e.locs) ELSE 4)))
       IN  [t EXCEPT !.r.kind = "post", !.r.rcode = e.code]
  ELSE s

V1Post(s, e) ==
  IF Symptoms(e) = {} \/ \E b \in PostSymptoms : Symptoms(e) = {b}
  THEN LET t == set_srn_and_callouts(s, 0, 0, Parts(SubSeq(e.locs, 1, IF Len(e.locs) < 4 THEN Len(e.locs) ELSE 4)))
       IN  [t EXCEPT !.r.kind = "post", !.r.rcode = e.code]
  ELSE s

(* What remains after versions 3 and EPOW: the switch of process_pre_v6.   *)
V1(s, e) ==
  LET d == CASE e.fmt = CPU -> V1Cpu(e) [] e.fmt = MEM -> V1Mem(e) [] e.fmt = IO -> V1Io(e)
             [] e.fmt = SP -> V1Sp(e) [] OTHER -> None
  IN  CASE e.fmt = CPU /\ Symptoms(e) \in {{6}, {7}}      -> V1CpuBus(s, e)
        [] e.fmt = MEM /\ Symptoms(e) = {4, 11}           -> report_menugoal(s, 651174)
        [] e.fmt = IO /\ Symptoms(e) \in {{0}, {1}, {2}}  -> analyze_io_bus_error(s, e, 1)
        [] e.fmt = POST                                   -> V1Post(s, e)
        [] d # None                                       -> report_srn(s, e, d.sn, d.rcode)
        [] OTHER                                          -> s

(* Version 2 of the service processor: byte 19, bit 0.                     *)
process_v2_sp(s, e) ==
  IF e.version = 2 /\ e.fmt = SP /\ 24 \in e.bits
  THEN Return(report_srn(s, e, \h651, \h754), 1) ELSE Return(s, 0)

-----------------------------------------------------------------------------
(* EPOW: the bits of byte 16 and byte 17 are tested in turn; 8: none.      *)
Lead(bits) == CHOOSE n \in bits \union {8} : \A b \in bits : n <= b
Lead16(e) == Lead(e.bits \intersect 0 .. 4)
Lead17(e) == Lead({n \in 0 .. 4 : n + 8 \in e.bits})
SensorBit == 0
PowerBit == 1
FanBit == 2
ThermalBit == 3
RedundantBit == 4
Redundant(e) == RedundantBit \in e.bits

save_epow_reset(s, e) == [s EXCEPT !.m.resets = @ \union {e.bits}]
HasReset(s, e) == e.bits \in s.m.resets

unknown_epow_ela(s, e) ==
  CASE e.class < 3 -> IfLocated(s, e, 651156, 651157)
    [] e.class = 3 -> IfLocated(s, e, 651158, 651159)
    [] OTHER       -> IfLocated(s, e, 651160, 651161)

(* An EPOW of version 1, by its extended code without the sensor.          *)
XEpow == [x \in {\h1011, \h1064, \h2032, \h2052, \h3021, \h3073} |->
           CASE x = \h1011 -> \h800 [] x = \h1064 -> \h801 [] x = \h2032 -> \h810
             [] x = \h2052 -> \h811 [] x = \h3021 -> \h820 [] OTHER -> \h821]
IgnoreSensor(x) == (x \div \h1000) * \h1000 + (x % 256)
process_v1_epow(s, e) ==
  CASE e.xepow = 0 /\ e.class = 5 -> Return(report_srn(s, e, \h651, \h812), 1)
    [] e.xepow # 0 /\ IgnoreSensor(e.xepow) \in DOMAIN XEpow ->
         Return(report_srn(s, e, \h651, XEpow[IgnoreSensor(e.xepow)]), 1)
    [] OTHER -> Return(unknown_epow_ela(s, e), 0)

(* An EPOW of a sensor.  Version 3 fills in its description d, the others  *)
(* report at once, and so does version 4, whose description is reported    *)
(* after that too.                                                         *)
V3Sensor == [fan |-> \h10, volt |-> \h30, therm |-> \h50, power |-> \h70, other |-> \h90]
V3Shut   == [fan |-> \h20, volt |-> \h40, therm |-> \h60, power |-> \h80, other |-> \h100]
V3Redundant(token) == CASE token = "fan" -> \h110 [] token = "power" -> \h120 [] OTHER -> \h130
V2Sensor == [fan |-> \h830, volt |-> \h831, therm |-> \h832, power |-> \h833]

WithCode(s, e, version) ==
  CASE version = 3           -> [s EXCEPT !.d.rcode = V3Sensor[e.token]]
    [] version # 3 /\ e.token = "other" ->
         LET u == Short(s.m.unknown + \h839)
         IN  [s EXCEPT !.m.unknown = u, !.d = [sn |-> \h651, rcode |-> u]]
    [] OTHER                 -> [s EXCEPT !.d = [sn |-> \h651, rcode |-> V2Sensor[e.token]]]

Warned(s, e, version) ==
  CASE version = 3                        -> [s EXCEPT !.d.sn = @ + \h10]
    [] version # 3 /\ e.token = "other"   -> [s EXCEPT !.d.rcode = @ + \h10, !.m.unknown = Short(@ + \h10)]
    [] OTHER                              -> [s EXCEPT !.d.rcode = @ + \h10]

Judged(s, e, version) ==
  CASE Redundant(e) /\ version = 3    -> [s EXCEPT !.d = [sn |-> @.sn + \h10, rcode |-> V3Redundant(e.token)]]
    [] Redundant(e) /\ version # 3    -> [s EXCEPT !.d.sn = \h652]
    [] ~ Redundant(e) /\ e.status = "warn" -> Warned(s, e, version)
    [] OTHER -> IF version = 3 /\ e.class > 2 THEN [s EXCEPT !.d.rcode = V3Shut[e.token]] ELSE s

sensor_epow(s, e, version) ==
  LET t == WithCode(s, e, version)
      u == Judged(t, e, version)
  IN  CASE Redundant(e) \/ e.status \in {"crit", "warn"} ->
             Return(IF version = 3 THEN u
                    ELSE [report_srn(u, e, u.d.sn, u.d.rcode) EXCEPT !.d = s.d], 1)
        [] ~ Redundant(e) /\ e.status = "normal" -> Return(t, 0)
        [] OTHER -> Return(IfLocated(t, e, 651152, 651153), 0)

(* Power faults of version 2, with the register pci of the system.         *)
V2Supply(e) ==
  CASE e.pci = 1 -> Always(\h816)
    [] e.pci = 2 -> Always(\h817)
    [] OTHER     -> [sn |-> IF Redundant(e) THEN \h652 ELSE \h651, rcode |-> \h819]
V2Source == [pci \in {7, 4, 3} |-> CASE pci = 7 -> \h813 [] pci = 4 -> \h814 [] OTHER -> \h815]
V2Power(s, e) ==
  CASE Lead17(e) = 0 -> IF LOC_CODES_OK(e) THEN report_srn(s, e, \h651, IF e.class < 3 THEN \h809 ELSE \h824)
                                           ELSE report_menugoal(s, 651175)
    [] Lead17(e) = 1 -> IF e.pci \in DOMAIN V2Source THEN report_srn(s, e, \h651, V2Source[e.pci])
                                                     ELSE IfLocated(s, e, 651150, 651151)
    [] Lead17(e) = 2 -> report_srn(s, e, V2Supply(e).sn, V2Supply(e).rcode)
    [] Lead17(e) = 3 -> report_menugoal(s, 651162)
    [] OTHER         -> unknown_epow_ela(s, e)

V2Fan(s, e) ==
  CASE Redundant(e) -> report_srn(s, e, \h652, \h820)
    [] ~ Redundant(e) /\ ThermalBit \in e.bits -> report_srn(s, e, \h651, \h822)
    [] OTHER -> report_srn(s, e, \h651, IF e.class < 3 THEN \h802 ELSE \h823)

process_v2_epow(s, e) ==
  CASE Lead16(e) = SensorBit    -> sensor_epow(s, e, 2)
    [] Lead16(e) = PowerBit     -> Return(V2Power(s, e), IF Lead17(e) < 4 THEN 1 ELSE 0)
    [] Lead16(e) = FanBit       -> Return(V2Fan(s, e), 1)
    [] Lead16(e) = ThermalBit   -> Return(report_srn(s, e, \h651, \h821), 1)
    [] Lead16(e) = RedundantBit -> Return(report_srn(s, e, \h652, \h810), 1)
    [] OTHER                    -> Return(unknown_epow_ela(s, e), 0)

process_epow(s, e) ==
  CASE e.fmt # EPOW -> Return(s, 0)
    [] e.fmt = EPOW /\ e.class = 0 -> Return(save_epow_reset(s, e), 0)
    [] e.fmt = EPOW /\ e.class # 0 /\ HasReset(s, e) -> Return(report_menugoal(s, 651202), 1)
    [] OTHER -> IF e.version = 1 THEN process_v1_epow(s, e) ELSE process_v2_epow(s, e)

-----------------------------------------------------------------------------
(* Version 3 and later.  An EPOW fills in the description, asks for a goal *)
(* or, from version 4 on, is reported by reference codes if there are any. *)
Describe(rcode, low) == [rcode |-> rcode, low |-> low, goal |-> 0]
AsGoal(n) == [rcode |-> 0, low |-> FALSE, goal |-> n]

(* low: the source number says that the repair can be deferred.            *)
V3Power(e) ==
  CASE Lead17(e) = 0 -> Describe(\h140, e.class < 3)
    [] Lead17(e) = 1 -> AsGoal(CASE Redundant(e) -> 651204
                                 [] ~ Redundant(e) /\ e.class = 2 /\ e.version = 4 -> 651205
                                 [] OTHER -> IF LOC_CODES_OK(e) THEN 651150 ELSE 651151)
    [] Lead17(e) = 2 -> IF Redundant(e) THEN Describe(\h170, TRUE) ELSE Describe(\h160, e.class < 3)
    [] Lead17(e) = 3 -> AsGoal(651162)
    [] OTHER         -> Describe(\h240, e.class < 3)
V3Fan(e) ==
  CASE Redundant(e) -> Describe(\h200, TRUE)
    [] ~ Redundant(e) /\ ThermalBit \in e.bits -> Describe(\h220, e.class < 3)
    [] OTHER -> Describe(\h190, e.class < 3)
V3Epow(e) ==
  CASE Lead16(e) = PowerBit   -> V3Power(e)
    [] Lead16(e) = FanBit     -> V3Fan(e)
    [] Lead16(e) = ThermalBit -> IF e.class = 1 THEN AsGoal(651102) ELSE Describe(\h210, e.class < 3)
    [] OTHER -> IF 9 \in e.bits THEN AsGoal(651204) ELSE Describe(\h230, TRUE)
V3Unknown(e) == Lead16(e) = 8 \/ (Lead16(e) = PowerBit /\ Lead17(e) = 8)

process_v3_epow(s, e) ==
  LET refcodes == e.version > 3 /\ e.src04 # <<>>
      v == V3Epow(e)
      d == [sn |-> s.d.sn + (IF v.low THEN \h10 ELSE 0), rcode |-> v.rcode]
  IN  CASE e.class = 0                        -> Return(save_epow_reset(s, e), 0)
        [] e.class # 0 /\ HasReset(s, e)      -> Return(report_menugoal(s, 651202), 0)
        [] e.class # 0 /\ ~ HasReset(s, e)    ->
             IF ~ V3Unknown(e) /\ Lead16(e) # SensorBit /\ v.goal # 0
               THEN Return(report_menugoal(s, v.goal), 0)
             ELSE IF refcodes THEN Return(process_refcodes(s, e, e.src04), 2)
             ELSE IF V3Unknown(e) THEN Return(unknown_epow_ela(s, e), 0)
             ELSE IF Lead16(e) = SensorBit THEN sensor_epow(s, e, e.version)
             ELSE Return([s EXCEPT !.d = d], 1)

(* The sequence number of the first signature whose bits are all set.      *)
Singles(n) == [i \in 1 .. n |-> {i - 1}]
io_log_sig == <<{0}, {1}, {2}, {3}, {4}, {5}, {5, 11}, {6}, {6, 11}, {7}, {7, 11},
                {11}, {12}, {13}, {14}, {15}>>
First(sig, bits) ==
  LET hits == {i \in DOMAIN sig : sig[i] \subseteq bits}
  IN  IF hits = {} THEN 0 ELSE CHOOSE i \in hits : \A j \in hits : i <= j
convert_bcd(n) == 16 * (n \div 10) + (n % 10)

(* Mutant: both fields are numbered from 1.                                *)
SpSequenceSame(e) ==
  IF e.bits # {} THEN First(Singles(32), e.bits) ELSE First(Singles(8), e.more)

(* The service processor has a second field of symptoms in byte 28, whose  *)
(* numbers follow those of the first.                                      *)
SpSequence(e) ==
  IF e.bits # {} THEN First(Singles(32), e.bits)
  ELSE LET n == First(Singles(8), e.more) IN IF n = 0 THEN 0 ELSE 32 + n
convert_symptom(e) ==
  CASE e.fmt = CPU -> convert_bcd(First(Singles(8), e.bits))
    [] e.fmt = MEM -> convert_bcd(First(Singles(16), e.bits))
    [] e.fmt = IO  -> convert_bcd(First(io_log_sig, e.bits \ {8, 9, 10}))
    [] e.fmt = SP  -> convert_bcd(SpSequence(e))
    [] OTHER       -> \hFF

(* The repair modifiers: software also, concurrent, replace all.           *)
Modifiers(e) == (IF "sw" \in e.mods THEN 4 ELSE 0) + (IF "concurrent" \in e.mods THEN 2 ELSE 0)
                + (IF "all" \in e.mods THEN 1 ELSE 0)

(* Predictive errors and the modifiers change the SRN.  The goal for       *)
(* software is reported first, and replaced if an SRN follows.             *)
Low(sn) == IF (sn \div 16) % 2 = 1 THEN sn ELSE sn + \h10

Modified(s, e) ==
  LET sn == IF e.predictive THEN Low(s.d.sn) ELSE s.d.sn
      t == IF "sw" \in e.mods THEN report_menugoal(s, 651171) ELSE s
  IN  Return(IF s.rc > 0 THEN report_srn(t, e, sn, s.d.rcode + Modifiers(e)) ELSE t, 1)

V3Symptom(s, e) ==
  LET bus == analyze_io_bus_error(s, e, 3)
      seqn == convert_symptom(e)
      t == [s EXCEPT !.d.rcode = 16 * seqn]
  IN  CASE e.fmt = IO /\ bus.rc = 1 -> bus
        [] e.fmt \notin {CPU, MEM, IO, SP} ->
             Return(IF e.src04 # <<>> THEN process_refcodes(s, e, e.src04)
                    ELSE report_srn(t, e, t.d.sn, t.d.rcode), 1)
        [] OTHER -> Modified(Return(t, 1), e)

(* Mutant: the reason code stays in the description.                       *)
PlatformKept(s, e) ==
  LET t == [s EXCEPT !.m.platform = @ + e.platform]
  IN  report_srn(t, e, \h651, t.m.platform)

(* The reason code of a platform error is put into its description for the *)
(* report, and taken out again.                                            *)
PlatformError(s, e) ==
  LET t == [s EXCEPT !.m.platform = @ + e.platform]
  IN  [report_srn(t, e, \h651, t.m.platform) EXCEPT !.m.platform = @ - e.platform]

process_v3_logs(s, e) ==
  LET t == [s EXCEPT !.d = [sn |-> \hA00 + e.fmt, rcode |-> 0]]
      epow == process_v3_epow(t, e)
  IN  CASE e.version < 3                       -> Return(s, 0)
        [] e.version >= 3 /\ e.platform >= 0   -> Return(PlatformError(s, e), 1)
        [] e.version >= 3 /\ e.platform < 0 /\ e.fmt = POST -> Return(s, 0)
        [] e.version >= 3 /\ e.platform < 0 /\ e.fmt = EPOW ->
             IF epow.rc = 2 THEN epow ELSE Modified(epow, e)
        [] OTHER -> V3Symptom(t, e)

-----------------------------------------------------------------------------
(* The status of a part in the device tree is asked for without naming the *)
(* part: the answer is none, so that no error is ever ignored, or the      *)
(* daemon dies of comparing with nothing.  It may also die in              *)
(* get_cpu_frus, which frees the copy of the locations that get_loc_code   *)
(* frees again, and measures the text of the locations without looking     *)
(* whether there is one.                                                   *)
Deconfigured(e) == e.bypassed /\ e.predictive
ReportDeconfigured(s, e) ==
  report_srn(s, e, Low(\hA00 + e.fmt), IF e.fmt = CPU /\ e.repair THEN \h560 ELSE \h500)

CpuBus(e) == e.version < 3 /\ e.fmt = CPU /\ Symptoms(e) \in {{6}, {7}}
MayDie(e) ==
  /\ e.src02 = <<>>
  /\ IF Deconfigured(e) THEN e.locs # <<>> ELSE CpuBus(e) /\ (e.locs # <<>> \/ ~ e.hidden)
MustDie(e) == MayDie(e) /\ ~ Deconfigured(e) /\ e.locs = <<>>

process_pre_v6(e, m) ==
  LET s  == Begin(e, m)
      v3 == process_v3_logs(s, e)
      ep == process_epow(s, e)
      sp == process_v2_sp(ep, e)
  IN  CASE e.src02 # <<>>                        -> process_refcodes(s, e, e.src02)
        [] e.src02 = <<>> /\ Deconfigured(e)     -> ReportDeconfigured(s, e)
        [] e.src02 = <<>> /\ ~ Deconfigured(e)   ->
             IF e.bypassed /\ e.fmt = SP /\ LOC_CODES_OK(e) THEN report_srn(s, e, \hA10, \h100)
             ELSE IF v3.rc # 0 THEN v3
             ELSE IF ep.rc # 0 THEN ep
             ELSE IF sp.rc # 0 THEN sp
             ELSE V1(sp, e)

Died == [Nothing EXCEPT !.kind = "died"]

Init ==
  /\ mem = Pristine /\ known = Pristine
  /\ report = Nothing
  /\ last = <<>>
  /\ count = 0

Take(e) ==
  /\ count < MaxEvents
  /\ count' = count + 1
  /\ last' = <<e>>
  /\ known' = mem

(* handle_rtas_event chooses the analysis by the version, and logs.        *)
PreV6(e) ==
  /\ e.version < 6 /\ ~ MustDie(e)
  /\ Take(e)
  /\ LET s == process_pre_v6(e, mem) IN mem' = s.m /\ report' = s.r

PreV6Dies(e) ==
  /\ e.version < 6 /\ MayDie(e)
  /\ Take(e)
  /\ mem' = Pristine
  /\ report' = Died

Version6(e) ==
  /\ e.version = 6
  /\ Take(e)
  /\ report' = V6!process_v6(e)
  /\ UNCHANGED mem

(* The daemon is stopped and started again.                                *)
Restart ==
  /\ count > 0
  /\ mem' = Pristine /\ known' = Pristine
  /\ report' = Nothing /\ last' = <<>> /\ count' = 0

Next ==
  \/ \E e \in Events : PreV6(e) \/ PreV6Dies(e) \/ Version6(e)
  \/ Restart

Spec == Init /\ [][Next]_vars

-----------------------------------------------------------------------------
(* The type invariant: numbers fit the 16 bits they are printed from, and  *)
(* the description of the I/O bus has one or two parts.                    *)
TypeOK ==
  /\ \A k \in 0 .. 2 : Len(mem.io9CC[k]) \in 1 .. 2
  /\ mem.unknown \in 0 .. 65535 /\ mem.platform \in 0 .. 65535
  /\ report.kind \in {"none", "died", "srn", "goal", "post", "src", "garbage"}
  /\ report.sn \in 0 .. 65535 /\ report.rcode \in Nat
  /\ report.home \in BOOLEAN
  /\ count \in 0 .. MaxEvents /\ Len(last) <= 1

Analysed == last # <<>> /\ report.kind \notin {"died", "garbage"}
Old == Analysed /\ last[1].version < 6
SensorEpow(e) == e.fmt = EPOW /\ e.class # 0 /\ Lead16(e) = SensorBit
BusError(e) == e.fmt = IO /\ Symptoms(e) \in {{0}, {1}, {2}} /\ e.src02 = <<>>
SrcOf(e) == IF e.src02 # <<>> THEN e.src02 ELSE e.src04
Placed(e) == FoldLeft(LAMBDA t, c : t + c.n, 0, SrcOf(e))

(* The report of an event does not depend on the events before it: every   *)
(* field that the analysis writes into the shared descriptions is written  *)
(* again or put back before the next report.  Three things do last: the    *)
(* locations of an I/O bus error, for one that has none; the reason code   *)
(* of an unknown sensor, which is added to; and the EPOWs reset.           *)
AnalysisForgets ==
  Old => LET e == last[1]
         IN  \/ report = process_pre_v6(e, Pristine).r
             \/ BusError(e) /\ e.locs = <<>>
             \/ SensorEpow(e) /\ e.token = "other" /\ e.version # 3
             \/ e.fmt = EPOW /\ e.class # 0 /\ HasReset([m |-> known], e)

(* Every location that is not hidden is called out once, in its order, and *)
(* no other: up to two for an I/O bus error and up to four for POST, which *)
(* have no room for more.  Reference codes take as many as they say.  An   *)
(* EPOW of a sensor of version 4 is called out twice.                      *)
Prefix(s, n) == SubSeq(s, 1, IF Len(s) < n THEN Len(s) ELSE n)
CalloutsOwn ==
  Old /\ report.kind \in {"srn", "post"} =>
    LET e == last[1]
        called == [i \in DOMAIN report.callouts |-> report.callouts[i].loc]
    IN  \/ report.rcode = \h880 /\ SelectSeq(called, LAMBDA l : l # NA) = Prefix(e.locs, Placed(e))
        \/ called = e.locs
        \/ BusError(e) /\ (e.locs = <<>> \/ called = Prefix(e.locs, 2))
        \/ report.kind = "post" /\ called = Prefix(e.locs, 4)
        \/ CpuBus(e) /\ ToSet(called) \subseteq ToSet(e.locs)
        \/ SensorEpow(e) /\ e.version > 3 /\ called = e.locs \o e.locs

(* No fault is silent: from version 3 on, whatever its symptoms, and       *)
(* before if it has one symptom that is not reserved.  An EPOW says        *)
(* nothing if it is a reset or if its sensor is normal.                    *)
Reserved(e) ==
  \/ e.fmt = MEM /\ Symptoms(e) \subseteq {6, 13, 14, 15}
  \/ e.fmt = SP /\ Symptoms(e) \subseteq {14, 15, 21, 22}
  \/ e.fmt = POST /\ Symptoms(e) = {14}
  \/ e.fmt \notin {CPU, MEM, IO, SP, POST, EPOW}
(* Includes the type invariant.                                            *)
NeverSilent ==
  TypeOK /\ (Analysed /\ report.kind = "none" =>
    LET e == last[1]
    IN  \/ e.fmt = EPOW /\ e.class = 0
        \/ SensorEpow(e) /\ e.status = "normal"
        \/ (e.version < 3 \/ e.fmt = POST) /\ (Cardinality(Symptoms(e)) > 1 \/ Reserved(e)))

(* From version 3 on, an SRN tells the format, the first symptom, whether  *)
(* the repair can be deferred and the repair modifiers: two events that    *)
(* differ in one of them have different SRNs.                              *)
Ordinary(e) ==
  /\ e.version \in 3 .. 5 /\ e.fmt \in {CPU, MEM, IO, SP} /\ e.platform < 0
  /\ ~ e.bypassed /\ e.src02 = <<>> /\ ~ BusError(e)
FirstSymptom(e) ==
  LET bits == CASE e.fmt = CPU -> e.bits \intersect 0 .. 7
                [] e.fmt = IO  -> e.bits \ {8, 9, 10}
                [] OTHER       -> e.bits \union (IF e.bits = {} THEN {32 + b : b \in e.more} ELSE {})
  IN  IF bits = {} THEN -1 ELSE Min(bits)
SrnTellsSymptom ==
  Old /\ count = 1 /\ Ordinary(last[1]) =>
    \A e \in {f \in Events : f.version < 6} :
      Ordinary(e) =>
        LET r == process_pre_v6(e, Pristine).r
        IN  (report.sn = r.sn /\ report.rcode = r.rcode) =>
              /\ FirstSymptom(e) = FirstSymptom(last[1])
              /\ <<e.fmt, e.predictive, e.mods>> = <<last[1].fmt, last[1].predictive, last[1].mods>>
=============================================================================

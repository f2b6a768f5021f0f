----------------------------- MODULE Indicator -----------------------------
(* The service indicators (lpd/usysident.c, usysattn, usysfault, and the     *)
(* helpers of lpd/indicator*.c that lp_diag shares): every process builds a   *)
(* list of indicators from the platform's back ends, looks one of them up or  *)
(* walks over all of them, and reads and sets them one call at a time.        *)
(*                                                                            *)
(* Back ends: RTAS (work areas that may change between the calls), OPAL       *)
(* (/sys/class/leds), SES (the encl_led command on enclosures that several sg  *)
(* devices may stand for) and the Marvell controller, whose registers are      *)
(* reached through one address/data pair with no lock.                         *)
(*                                                                            *)
(* A location code is the sequence of its parts between the hyphens.           *)
EXTENDS Integers, Sequences, FiniteSets, FiniteSetsExt, Functions

CONSTANTS
  Procs,       \* processes that use the indicators, one command each
  Commands,    \* the commands they may be given
  NoDev,       \* "no -d option"
  RtasFirst,   \* [LedTypes -> indicators the platform lists at first]
  RtasSpare,   \* an RTAS indicator that may be plugged in or pulled out
  Chunk,       \* entries that fit in one work area
  OpalAttn,    \* /sys/class/leds entries of attention type, sorted
  OpalLeds,    \* [LedTypes -> /sys/class/leds entries of that type, sorted]
  Enclosures,  \* SES devices in the order of sysfs: [loc, supported, leds]
  Blocks,      \* block devices in the order of sysfs: [dev, located, is]
  AtaIndex,    \* [disks of the Marvell controller -> index of the SATA port]
  LocOf,       \* [indicator -> location code]
  MaxPlug,     \* bound: changes of the RTAS list
  MaxFail      \* bound: calls of a back end that fail

LedTypes == {"ident", "fault"}
Mv == DOMAIN AtaIndex
Indicators == DOMAIN LocOf
Regs == {"out", "enable", "active"}     \* GPIO data out, its enable, port mode
MaxPort == 9

\* Every indicator of a back end has a location, and only the block devices are
\* Marvell disks. A back end names none of its indicators twice, an enclosure
\* none of another one's or of the platform's, and the disks of a controller
\* have a SATA port each.
LightsOf(s) == s \in Seq(Indicators \ Mv) /\ IsInjective(s)
ASSUME CommandsAssumption ==
  /\ Commands # {}
  /\ \A c \in Commands :
       /\ c.kind \in {"print", "set", "all", "setall", "check"} /\ c.type \in LedTypes
       /\ c.dev \in Indicators \union {NoDev} /\ NoDev \notin Indicators /\ c.loc \in Seq(STRING)
       /\ c.val \in BOOLEAN /\ c.only \in BOOLEAN /\ c.trunc \in BOOLEAN
ASSUME PlatformAssumption ==
  /\ RtasFirst \in [LedTypes -> Seq(Indicators)]
  /\ \A t \in LedTypes : LightsOf(RtasFirst[t]) /\ LightsOf(OpalLeds[t])
  /\ RtasSpare \in Indicators \ Mv
  /\ LightsOf(OpalAttn) /\ Range(OpalAttn) \cap Range(OpalLeds["fault"]) = {}
ASSUME LocationsAssumption == LocOf \in [Indicators -> Seq(STRING)]
ASSUME DisksAssumption == /\ AtaIndex \in [Mv -> Nat] /\ IsInjective(AtaIndex)
                          /\ Mv \subseteq Indicators
ASSUME BlocksAssumption ==
  /\ DOMAIN Blocks = 1 .. Len(Blocks) /\ Len(Blocks) \in Nat
  /\ \A i \in DOMAIN Blocks : /\ Blocks[i].is \in {"disk", "longpath", "unreadable", "other"}
                          /\ Blocks[i].is \in {"disk", "longpath"} => Blocks[i].dev \in Mv
                          /\ \A j \in DOMAIN Blocks : Blocks[i].dev = Blocks[j].dev => i = j
ASSUME BoundsAssumption == Chunk \in Nat \ {0} /\ MaxPlug \in Nat /\ MaxFail \in Nat

VARIABLES
  platform,   \* get_platform(): "rtas" or "opal"
  opalMode,   \* the led-mode property of the device tree, once it has been read
  rtasList,   \* the platform's lists of RTAS indicators
  gen,        \* how often they changed
  lit,        \* [LedTypes -> indicators that shine], Marvell ones apart
  reg, addr,  \* the Marvell registers (sets of high bits); the one selected
  proc,       \* the processes
  fails,      \* failed calls so far
  history,    \* ghost: every list the platform has had
  raced       \* ghost: two processes were inside the Marvell registers at once

indicatorVars == <<platform, opalMode, rtasList, gen, lit, reg, addr, proc, fails, history, raced>>

NoCall == [pc |-> "idle", cmd |-> CHOOSE c \in Commands : TRUE, mode |-> "path",
         list |-> <<>>, idx |-> 1, gen |-> 0, cur |-> 0, st |-> FALSE, io |-> 0,
         buf |-> {}, rc |-> 0, shown |-> <<>>, failed |-> FALSE, killed |-> {}, with |-> {}]

IndicatorInit ==
  /\ platform \in {"rtas", "opal"} /\ opalMode = "unread"
  /\ rtasList = RtasFirst /\ gen = 0
  /\ lit = [t \in LedTypes |-> {}]
  /\ reg = [out |-> {AtaIndex[d] + 2 : d \in Mv}, enable |-> {}, active |-> {3}]
  /\ addr = "out"
  /\ proc = [p \in Procs |-> NoCall]
  /\ fails = 0 /\ raced = FALSE
  /\ history = [t \in LedTypes |-> {RtasFirst[t]}]

Cmd(p) == proc[p].cmd
Led(p) == proc[p].list[proc[p].cur]
Working(p) == proc[p].pc \in {"find", "read", "set", "again", "last"}
Running(p) == proc[p].pc \notin {"idle", "done", "crashed"}
Port(d) == AtaIndex[d] + 2
Lit(t, l) == IF l \in Mv THEN t = "ident" /\ Port(l) \notin reg["out"] ELSE l \in lit[t]
Inside(p) == proc[p].io > 0
InsideNow == {p \in Procs : Inside(p)}
OfFault(p) == Cmd(p).type = "fault"

-----------------------------------------------------------------------------
\* Mutants of StartOver, SetState and NewOut: forms the code could have had.
StartOverKeeping(p, r) == [r EXCEPT !.idx = 1]
SetStateIgnored(p, ok) == [proc[p] EXCEPT !.io = 0, !.pc = "done"]
NewOutAlone(p) == IF Cmd(p).val THEN {} ELSE {Port(Led(p))}

-----------------------------------------------------------------------------
\* The options main accepts: lights of fault type may only be turned off, a
\* device names the place of an identify light, -P leaves the disks out and
\* --all-on, --all-off stand alone. Kinds setall and check are lp_diag's.
Accepted(c) ==
  \/ c.kind \in {"setall", "check"} /\ ~c.only
  \/ /\ c.kind \in {"set", "all"} /\ c.type = "fault" => ~c.val
     /\ c.dev # NoDev => c.type = "ident" /\ ~c.only
     /\ c.trunc => c.kind = "set"
     /\ c.kind = "all" => c.dev = NoDev /\ ~c.only

\* The disks: one whose sysfs link cannot be read ends the search, and so does
\* one whose path is too long, which stays in the list.
Listed(b) == b.located /\ b.is \in {"disk", "longpath"}
Ends(b) == b.located /\ b.is \in {"longpath", "unreadable"}
mv_indicator_list(list, b) == IF Listed(b) THEN Append(list, b.dev) ELSE list

\* The platform supports lights when one of its back ends has any.
probe_indicator(c) ==
  \/ platform = "rtas"
  \/ \E l \in {OpalAttn, OpalLeds["ident"], OpalLeds["fault"]} : l # <<>>
  \/ /\ ~c.only
     /\ \E i \in DOMAIN Blocks : Listed(Blocks[i]) /\ \A j \in 1 .. (i - 1) : ~Ends(Blocks[j])

\* One process: the options are checked and the platform is probed.
\* `state` is not initialised: --all-off may compare any value when its first
\* read fails (the other commands look at the error first).
Start(p) ==
  /\ proc[p].pc = "idle"
  /\ \E c \in {d \in Commands : probe_indicator(d) /\ Accepted(d)} : \E junk \in IF c.kind = "all" THEN BOOLEAN ELSE {FALSE} :
       LET others == {q \in Procs : Running(q)} IN
       proc' = [q \in Procs |->
         IF q = p THEN [NoCall EXCEPT !.cmd = c, !.with = others, !.st = junk,
                          !.pc = IF c.type = "fault" THEN "mode" ELSE "list"]
         ELSE IF q \in others THEN [proc[q] EXCEPT !.with = @ \cup {p}] ELSE proc[q]]
  /\ UNCHANGED <<platform, opalMode, rtasList, gen, lit, reg, addr, fails, history, raced>>

Local(p, r) == /\ proc' = [proc EXCEPT ![p] = r]
               /\ UNCHANGED <<platform, opalMode, rtasList, gen, history>>
OpalModes == {"path", "guiding", "bad"}
Failed(r) == [r EXCEPT !.pc = "done", !.rc = 1, !.failed = TRUE]
NoFail == UNCHANGED fails
OneFail == fails < MaxFail /\ fails' = fails + 1

\* The platform starts a list over when it changed between two work areas.
StartOver(p, r) == [r EXCEPT !.list = <<>>, !.idx = 1]

\* What a whole retrieval is for: the operating mode, or the list itself.
\* In guiding light mode there are no enclosure indicators of fault type, and
\* with -P (system_scan_flag) none at all.
Retrieved(r) ==
  IF r.pc = "mode"
  THEN [r EXCEPT !.mode = IF Len(r.list) = 1 THEN "guiding" ELSE "path",
                 !.list = <<>>, !.idx = 1, !.pc = "list"]
  ELSE [r EXCEPT !.idx = 1,
                 !.pc = IF r.cmd.type = "fault" /\ r.mode = "guiding" THEN "find"
                        ELSE IF r.cmd.only THEN "find" ELSE "ses"]

\* The entries of the work area that starts at index idx of the platform's list.
parse_rtas_workarea(list, all, idx) ==
  list \o SubSeq(all, idx, Min({idx + Chunk - 1, Len(all)}))

\* One rtas_get_indices call and the parsing of its work area.
GetRtasIndices(p) ==
  LET r == proc[p]
      all == rtasList[Cmd(p).type]
      last == Min({r.idx + Chunk - 1, Len(all)})
      more == [r EXCEPT !.list = parse_rtas_workarea(@, all, r.idx), !.gen = gen,
                        !.idx = last + 1]
  IN /\ platform = "rtas" /\ r.pc \in {"mode", "list"}
     /\ \/ /\ r.idx > 1 /\ r.gen # gen
           /\ Local(p, StartOver(p, r)) /\ NoFail
        \/ /\ r.idx = 1 \/ r.gen = gen
           /\ Local(p, IF more.list = <<>> THEN Failed(r)
                       ELSE IF last < Len(all) THEN more ELSE Retrieved(more))
           /\ NoFail
        \/ Local(p, Failed(r)) /\ OneFail
     /\ UNCHANGED <<lit, reg, addr, raced>>

\* OPAL: the mode comes from the device tree, where it never changes (what it
\* is need not be known until it is read); the check log indicator is the first
\* entry of a fault list.
GetOpalMode(p) ==
  LET r == proc[p] IN
  /\ platform = "opal" /\ r.pc = "mode"
  /\ opalMode' \in IF opalMode = "unread" THEN OpalModes ELSE {opalMode}
  /\ proc' = [proc EXCEPT ![p] = IF opalMode' = "bad" THEN Failed(r)
                                 ELSE [r EXCEPT !.mode = opalMode', !.pc = "list"]]
  /\ NoFail /\ UNCHANGED <<platform, rtasList, gen, history, lit, reg, addr, raced>>

opal_get_indices(type) == OpalLeds[type]

OpalGetIndices(p) ==
  LET r == proc[p]
      attn == IF OfFault(p) THEN OpalAttn ELSE <<>>
      all == attn \o opal_get_indices(Cmd(p).type)
  IN /\ platform = "opal" /\ r.pc = "list"
     /\ Local(p, IF OfFault(p) /\ r.mode = "guiding" THEN [r EXCEPT !.list = attn, !.pc = "find"]
                 ELSE IF ~Cmd(p).only THEN [r EXCEPT !.list = all, !.pc = "ses"]
                 ELSE IF all = <<>> THEN Failed(r) ELSE [r EXCEPT !.list = all, !.pc = "find"])
     /\ NoFail /\ UNCHANGED <<lit, reg, addr, raced>>

\* The lights of the platform itself.
RtasLights == {RtasSpare} \union UNION {Range(RtasFirst[t]) : t \in LedTypes}
PlatformLights == RtasLights \union Range(OpalAttn) \union UNION {Range(OpalLeds[t]) : t \in LedTypes}

\* The location lsvpd gives for a controller of an enclosure is cut to that of
\* the enclosure.
trim_location_code(loc) ==
  IF Len(loc) = 3 /\ loc[2] = "P1" /\ loc[3] \in {"C1", "C2"} THEN <<loc[1]>> ELSE loc

Location(i) == trim_location_code(Enclosures[i].loc)
ASSUME EnclosuresAssumption ==
  /\ DOMAIN Enclosures = 1 .. Len(Enclosures) /\ Len(Enclosures) \in Nat
  /\ \A i \in DOMAIN Enclosures : Enclosures[i].supported \in BOOLEAN /\ LightsOf(Enclosures[i].leds)
  /\ \A i, j \in DOMAIN Enclosures :
       /\ Enclosures[i].supported /\ Enclosures[j].supported /\ Location(i) # Location(j)
       => Range(Enclosures[i].leds) \cap Range(Enclosures[j].leds) = {}
  /\ \A i \in DOMAIN Enclosures : Enclosures[i].supported =>
       Range(Enclosures[i].leds) \cap PlatformLights = {}

\* Enclosures that several sg devices stand for are taken once, by the last.
SesOnce(i) == /\ Enclosures[i].supported /\ Location(i) # <<>>
              /\ ~\E j \in (i + 1) .. Len(Enclosures) :
                   Enclosures[j].supported /\ Location(j) = Location(i)

\* The lines of encl_led for one enclosure: n of them, if it fails then. Its exit
\* status is never looked at (spclose returns 0 once the child is waited for).
ses_indicator_list(list, i, n) == list \o SubSeq(Enclosures[i].leds, 1, n)

\* One enclosure. After an encl_led that fails the search goes on with the next
\* enclosure; a fork, a wait or an allocation that fails ends it. What was listed
\* before stays in both cases.
GetSesIndices(p) ==
  LET r == proc[p]
      i == r.idx
      all == Len(Enclosures[i].leds)
      over == [r EXCEPT !.idx = 1, !.pc = IF platform = "opal" THEN "mv" ELSE "find"]
  IN /\ r.pc = "ses"
     /\ \/ i > Len(Enclosures) /\ Local(p, over) /\ NoFail
        \/ /\ i <= Len(Enclosures) /\ NoFail
           /\ Local(p, [r EXCEPT !.idx = i + 1,
                           !.list = IF SesOnce(i) THEN ses_indicator_list(@, i, all) ELSE @])
        \/ /\ i <= Len(Enclosures) /\ SesOnce(i) /\ OneFail
           /\ \E n \in 0 .. all, after \in {over, [r EXCEPT !.idx = i + 1]} :
                Local(p, [after EXCEPT !.list = ses_indicator_list(@, i, n), !.failed = TRUE])
     /\ UNCHANGED <<lit, reg, addr, raced>>

\* One block device; a list that is empty at the end is an error of OPAL.
GetMvIndices(p) ==
  LET r == proc[p]
      b == Blocks[r.idx]
      over == OfFault(p) \/ r.idx > Len(Blocks)
  IN /\ r.pc = "mv"
     /\ \/ over /\ Local(p, IF r.list = <<>> THEN Failed(r) ELSE [r EXCEPT !.pc = "find"])
        \/ ~over /\ Local(p, [r EXCEPT !.idx = IF Ends(b) THEN Len(Blocks) + 1 ELSE @ + 1,
                                      !.list = mv_indicator_list(@, b)])
     /\ NoFail /\ UNCHANGED <<lit, reg, addr, raced>>

-----------------------------------------------------------------------------
\* Which entry a location means: the first at that location, but a disk of the
\* Marvell controller only when -d names it.
Fits(c, l) == LocOf[l] = c.at /\ (l \in Mv /\ c.dev # NoDev => l = c.dev)

At(p, at) == {i \in DOMAIN proc[p].list :
                Fits([at |-> at, dev |-> Cmd(p).dev], proc[p].list[i])}

\* The location a command is about: -l, or what lsvpd knows of the -d device.
Place(p) == IF Cmd(p).dev = NoDev THEN Cmd(p).loc ELSE LocOf[Cmd(p).dev]

\* -t cuts the location at its last hyphen until an indicator is found.
Places(p) == {n \in 1 .. Len(Place(p)) : /\ n = Len(Place(p)) \/ Cmd(p).trunc
                                        /\ At(p, SubSeq(Place(p), 1, n)) # {}}

Found(p) == IF Places(p) = {} THEN 0
            ELSE Min(At(p, SubSeq(Place(p), 1, Max(Places(p)))))

\* Without -d a disk must be alone at its location.
NotUnique(p, i) ==
  LET l == proc[p].list[i] IN
  /\ l \in Mv /\ Cmd(p).dev = NoDev
  /\ \E j \in (i + 1) .. Len(proc[p].list) : LocOf[proc[p].list[j]] = LocOf[l]

\* The first indicator of a fault list is the check log indicator. A list can be
\* empty in guiding light mode of OPAL only: then there is nothing to go through,
\* and the command on the check log indicator dereferences NULL.
CheckLog(r) == IF r.list = <<>> THEN [r EXCEPT !.pc = "crashed"]
               ELSE [r EXCEPT !.cur = 1, !.pc = "set"]
GoThrough(r) == IF r.list = <<>> THEN [r EXCEPT !.pc = "done"] ELSE [r EXCEPT !.cur = 1, !.pc = "read"]

LookUp(p) == IF Found(p) = 0 THEN Failed(proc[p])
             ELSE IF NotUnique(p, Found(p)) THEN Failed(proc[p])
             ELSE [proc[p] EXCEPT !.cur = Found(p), !.pc = "read"]

Find(p) ==
  /\ proc[p].pc = "find"
  /\ \/ /\ Local(p, CASE Cmd(p).kind = "set" -> LookUp(p)
                      [] Cmd(p).kind = "check" -> CheckLog(proc[p])
                      [] OTHER -> GoThrough(proc[p]))
        /\ NoFail
     \/ Cmd(p).dev # NoDev /\ Local(p, Failed(proc[p])) /\ OneFail  \* lsvpd
  /\ UNCHANGED <<lit, reg, addr, raced>>

-----------------------------------------------------------------------------
\* After the last entry the first identify indicator (the enclosure's) is
\* turned off once more: turning off the parts does not turn it off.
Advance(r) ==
  IF r.cur < Len(r.list) THEN [r EXCEPT !.cur = @ + 1, !.pc = "read"]
  ELSE IF r.cmd.kind \in {"all", "setall"} /\ r.cmd.type = "ident" /\ ~r.cmd.val
       THEN [r EXCEPT !.cur = 1, !.pc = "last"]
       ELSE [r EXCEPT !.pc = "done"]

Show(r, ok) == [r EXCEPT !.shown = Append(@, IF ok THEN IF r.st THEN "on" ELSE "off"
                                             ELSE "unknown"),
                         !.rc = IF ok THEN 0 ELSE 1]

\* --all-on and --all-off compare the state even when it could not be read, and
\* then find the state of the entry before; the other callers look at the error.
Differs(r, ok) == r.st # r.cmd.val \/ (~ok /\ r.cmd.kind # "all")

\* What each caller does with the state it read (r.st is stale or whatever the
\* back end left there when ok is FALSE).
PrintOnly(r, ok) == Advance(Show(r, ok))
OneState(r, ok) == IF r.pc = "again" THEN [Show(r, ok) EXCEPT !.pc = "done"]
                   ELSE [r EXCEPT !.pc = IF Differs(r, ok) THEN "set" ELSE "again"]
AllState(r, ok) == IF r.pc = "read" /\ Differs(r, ok) THEN [r EXCEPT !.pc = "set"]
                   ELSE Advance(Show(r, ok))
set_all_indicator_state(r, ok) == IF Differs(r, ok) THEN [r EXCEPT !.pc = "set"]
                                  ELSE Advance(r)
GotState(p, ok, v) ==
  LET r == [proc[p] EXCEPT !.st = v, !.io = 0, !.buf = {}, !.failed = @ \/ ~ok] IN
  CASE r.cmd.kind = "print" -> PrintOnly(r, ok)
    [] r.cmd.kind = "set" -> OneState(r, ok)
    [] r.cmd.kind = "all" -> AllState(r, ok)
    [] OTHER -> set_all_indicator_state(r, ok)

\* What each caller does with the outcome of a set.
SetState(p, ok) ==
  LET r == [proc[p] EXCEPT !.io = 0, !.buf = {}, !.failed = @ \/ ~ok] IN
  IF r.pc = "last" THEN [r EXCEPT !.pc = "done"] ELSE
  CASE r.cmd.kind = "set" -> IF ok THEN [r EXCEPT !.pc = "again"] ELSE Failed(r)
    [] r.cmd.kind = "all" -> [r EXCEPT !.pc = "again"]
    [] r.cmd.kind = "setall" -> Advance(r)
    [] OTHER -> [r EXCEPT !.pc = "done", !.rc = IF ok THEN 0 ELSE 1]

Reading(p) == proc[p].pc \in {"read", "again"}
Setting(p) == proc[p].pc \in {"set", "last"}

\* What a read returns, and the state it leaves to its caller, of a light v.
\* An encl_led that fails after it printed the state is not noticed; one whose
\* state is missing is, and so is a wait that fails, with the state stored or not.
get_rtas_sensor(v, old) == {<<TRUE, v>>, <<FALSE, old>>}
opal_get_indicator(v, old) == {<<TRUE, v>>, <<FALSE, old>>}
get_ses_indicator(v, old) == {<<TRUE, v>>, <<FALSE, old>>, <<FALSE, v>>}

\* What a set returns, and whether the light was set: a failing encl_led, or a
\* wait for it that fails, may have set it. One that a signal kills has exit
\* status 0 for the caller, who does not ask whether it exited.
set_rtas_indicator == {<<TRUE, TRUE>>, <<FALSE, FALSE>>}
opal_set_indicator == {<<TRUE, TRUE>>, <<FALSE, FALSE>>}
set_ses_indicator == {<<TRUE, TRUE>>, <<FALSE, FALSE>>, <<FALSE, TRUE>>, <<TRUE, FALSE>>}

SesLeds == UNION {Range(Enclosures[i].leds) : i \in {n \in DOMAIN Enclosures : Enclosures[n].supported}}
Get(l, v, old) == IF l \in SesLeds THEN get_ses_indicator(v, old)
                  ELSE IF platform = "rtas" THEN get_rtas_sensor(v, old)
                  ELSE opal_get_indicator(v, old)
Set(l) == IF l \in SesLeds THEN set_ses_indicator
          ELSE IF platform = "rtas" THEN set_rtas_indicator ELSE opal_set_indicator

\* Ghost: the lights whose encl_led was killed with the light as it was.
Noted(r, l, o) == IF o = <<TRUE, FALSE>> THEN [r EXCEPT !.killed = @ \union {l}] ELSE r

GetIndicator(p) ==
  /\ Reading(p) /\ ~Inside(p) /\ Led(p) \notin Mv
  /\ \E o \in Get(Led(p), Led(p) \in lit[Cmd(p).type], proc[p].st) :
       Local(p, GotState(p, o[1], o[2])) /\ IF o[1] THEN NoFail ELSE OneFail
  /\ UNCHANGED <<lit, reg, addr, raced>>

SetIndicator(p) ==
  /\ Setting(p) /\ ~Inside(p) /\ Led(p) \notin Mv
  /\ \E o \in Set(Led(p)) :
       /\ Local(p, Noted(SetState(p, o[1]), Led(p), o))
       /\ IF o = <<TRUE, TRUE>> THEN NoFail ELSE OneFail
       /\ lit' = IF ~o[2] THEN lit
                 ELSE [lit EXCEPT ![Cmd(p).type] =
                         IF Cmd(p).val THEN @ \cup {Led(p)} ELSE @ \ {Led(p)}]
  /\ UNCHANGED <<reg, addr, raced>>

-----------------------------------------------------------------------------
\* The registers are in the file of the controller, whose path fits but for the
\* disk that ended the search.
Opens(d) == \E b \in Range(Blocks) : b.dev = d /\ b.is = "disk"

\* The Marvell controller: mv_vsr_read and mv_vsr_write are two accesses each,
\* the address and then the data.
MvEnter(p) ==
  /\ Reading(p) \/ Setting(p)
  /\ ~Inside(p) /\ Led(p) \in Mv
  /\ \/ /\ Opens(Led(p)) /\ Local(p, [proc[p] EXCEPT !.io = 1]) /\ NoFail
        /\ addr' = "out"
        /\ raced' = (raced \/ InsideNow # {})
        /\ UNCHANGED <<lit, reg>>
     \/ /\ Local(p, IF Reading(p) THEN GotState(p, FALSE, proc[p].st) ELSE SetState(p, FALSE))
        /\ IF Opens(Led(p)) THEN OneFail ELSE NoFail
        /\ UNCHANGED <<lit, reg, addr, raced>>

\* get_mv_indicator reads the three registers and uses the first.
MvRead(p) ==
  LET r == proc[p]
      ok == Port(Led(p)) <= MaxPort
      step == [r EXCEPT !.io = @ + 1]
  IN /\ Reading(p) /\ Inside(p)
     /\ \/ r.io = 1 /\ Local(p, [step EXCEPT !.buf = reg[addr]]) /\ UNCHANGED addr
        \/ r.io = 2 /\ addr' = "enable" /\ Local(p, step)
        \/ r.io = 3 /\ addr' = "active" /\ Local(p, step)
        \/ r.io = 4 /\ UNCHANGED addr
           /\ Local(p, GotState(p, ok, IF ok THEN Port(Led(p)) \notin r.buf ELSE r.st))
     /\ NoFail /\ UNCHANGED <<lit, reg, raced>>

\* The value set_mv_indicator writes back: a light is on when its bit is low.
NewOut(p) == IF Cmd(p).val THEN proc[p].buf \ {Port(Led(p))}
             ELSE proc[p].buf \cup {Port(Led(p))}

\* set_mv_indicator reads the register, changes a bit, writes it, reads it again.
MvWrite(p) ==
  LET r == proc[p]
      step == [r EXCEPT !.io = @ + 1]
  IN /\ Setting(p) /\ Inside(p)
     /\ \/ r.io = 1 /\ Local(p, [step EXCEPT !.buf = reg[addr]]) /\ UNCHANGED <<reg, addr>>
        \/ r.io = 2 /\ addr' = "out" /\ Local(p, step) /\ UNCHANGED reg
        \/ r.io = 3 /\ reg' = [reg EXCEPT ![addr] = NewOut(p)]
           /\ Local(p, step) /\ UNCHANGED addr
        \/ r.io = 4 /\ addr' = "out" /\ Local(p, SetState(p, TRUE)) /\ UNCHANGED reg
     /\ NoFail /\ UNCHANGED <<lit, raced>>

\* The platform's list changes: a part is plugged in or pulled out.
Plug(t) ==
  /\ platform = "rtas" /\ gen < MaxPlug /\ gen' = gen + 1
  /\ \/ /\ RtasSpare \notin Range(rtasList[t]) /\ rtasList[t] # <<>>
        /\ rtasList' = [rtasList EXCEPT ![t] = <<Head(@), RtasSpare>> \o Tail(@)]
     \/ \E i \in DOMAIN rtasList[t] :
          /\ rtasList[t][i] = RtasSpare
          /\ rtasList' = [rtasList EXCEPT ![t] = SubSeq(@, 1, i - 1) \o SubSeq(@, i + 1, Len(@))]
  /\ history' = [history EXCEPT ![t] = @ \cup {rtasList'[t]}]
  /\ UNCHANGED <<platform, opalMode, lit, reg, addr, proc, fails, raced>>

IndicatorNext ==
  \/ \E p \in Procs :
       \/ Start(p) \/ GetRtasIndices(p) \/ GetOpalMode(p) \/ OpalGetIndices(p)
       \/ GetSesIndices(p) \/ GetMvIndices(p) \/ Find(p)
       \/ GetIndicator(p) \/ SetIndicator(p)
       \/ MvEnter(p) \/ MvRead(p) \/ MvWrite(p)
  \/ \E t \in LedTypes : Plug(t)

IndicatorSpec == IndicatorInit /\ [][IndicatorNext]_indicatorVars

-----------------------------------------------------------------------------
\* Every variable keeps its type.
IndicatorTypeOK ==
  /\ platform \in {"rtas", "opal"} /\ opalMode \in OpalModes \union {"unread"}
  /\ gen \in 0 .. MaxPlug /\ fails \in 0 .. MaxFail /\ raced \in BOOLEAN
  /\ \A t \in LedTypes : lit[t] \subseteq Indicators \ Mv
  /\ DOMAIN reg = Regs /\ addr \in Regs
  /\ \A p \in Procs : /\ proc[p].pc \in {"idle", "mode", "list", "ses", "mv", "find", "read",
                                         "set", "again", "last", "done", "crashed"}
                      /\ proc[p].cmd \in Commands /\ proc[p].io \in 0 .. 4
                      /\ proc[p].cur \in 0 .. Len(proc[p].list)
                      /\ proc[p].with \subseteq Procs \ {p} /\ proc[p].killed \subseteq SesLeds

\* A process writes a sequence of work areas, or several sg devices of one
\* enclosure: what it then works on must be one list the platform has had,
\* followed by every enclosure part once, whatever changed in between
\* (get_rtas_indices starting over on -4, get_ses_indices skipping repeats).
ListSound ==
  \A p \in Procs : Working(p) =>
    /\ IsInjective(proc[p].list)
    /\ platform = "rtas" => \E n \in 0 .. Len(proc[p].list) :
         /\ SubSeq(proc[p].list, 1, n) \in history[Cmd(p).type]
         /\ \A i \in DOMAIN proc[p].list : i > n => proc[p].list[i] \notin RtasLights

\* Two disks of one controller may share a location code: a command never works
\* on a disk it does not mean, among those that the search for disks has found
\* (main in usysident.c: the retry after an entry with another device name, and
\* the refusal when -d is missing).
DiskNotMistaken ==
  \A p \in Procs :
    LET r == proc[p] IN
    r.cmd.kind = "set" /\ r.pc \in {"read", "set", "again"} /\ Led(p) \in Mv =>
      IF r.cmd.dev = NoDev
      THEN \A i \in DOMAIN r.list : LocOf[r.list[i]] = LocOf[Led(p)] => i = r.cur
      ELSE Led(p) = r.cmd.dev

\* What a process works on is what the platform has and what was meant.
EntriesSound == IndicatorTypeOK /\ ListSound /\ DiskNotMistaken

\* The indicators a command may change.
Aims(q) == IF proc[q].cmd.kind = "print" \/ proc[q].cur = 0 THEN {}
           ELSE IF proc[q].cmd.kind \in {"set", "check"} THEN {Led(q)} ELSE Range(proc[q].list)
Disturbed(p, l) == \/ l \in Mv /\ raced
                   \/ \E q \in proc[p].with : proc[q].cmd.type = Cmd(p).type /\ l \in Aims(q)

\* A command that ends well has done what it was asked: its indicator has the
\* state asked for, --all-off has turned everything off when no call failed,
\* unless a command on the same indicator overlapped, or a signal killed the
\* encl_led of that indicator (set_ses_indicator takes that for success and the
\* light stays as it was: indicator_ses.c:503); and a command that shows states
\* has shown one for every indicator of its list.
\* Later commands may change the indicator again, so this is about the step in
\* which the command ends (main in usysident.c, set_all_indicator_state).
DoneAsAsked ==
  [][\A p \in Procs : proc[p].pc # "done" /\ proc'[p].pc = "done" =>
       LET r == proc'[p]
           kind == Cmd(p).kind
           listed == Range(proc[p].list)
           as(l) == Lit(Cmd(p).type, l)' = Cmd(p).val \/ Disturbed(p, l) \/ l \in r.killed
       IN /\ kind \in {"set", "check"} /\ r.rc = 0 => as(Led(p))
          /\ kind \in {"all", "setall"} /\ ~r.failed => \A l \in listed : as(l)
          /\ kind \in {"all", "print"} /\ ~r.failed =>
                Len(r.shown) = Len(proc[p].list)]_indicatorVars

\* No command changes an indicator it was not given, and the registers that
\* decide how the Marvell lights work never change: both can only go wrong when
\* two processes are inside the registers at once, as nothing keeps them apart
\* (set_mv_indicator reads, changes and writes a register that all disks share).
OthersUntouched ==
  [][/\ \A t \in LedTypes, l \in Indicators : Lit(t, l) # Lit(t, l)' =>
          \/ \E p \in Procs : Setting(p) /\ Led(p) = l /\ Cmd(p).type = t
          \/ l \in Mv /\ raced
     /\ reg["enable"] # reg'["enable"] \/ reg["active"] # reg'["active"] => raced]_indicatorVars
=============================================================================

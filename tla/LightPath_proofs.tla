-------------------------- MODULE LightPath_proofs --------------------------
(***************************************************************************)
(* Proofs about the two ways to the indicators.  LightPath, that of the    *)
(* servicelog: when all processes have ended, the indicators that open     *)
(* events ask for are lit, and no others.  Then Indicator, that of the     *)
(* commands: usysident and usysattn do as they are asked to the indicators *)
(* they are asked about, and to no others.                                 *)
(***************************************************************************)
EXTENDS LightPath, Indicator, TLAPS, WellFoundedInduction, SequenceTheorems

(* The indicators that a process still has to set.                         *)
Pending(p) == p.todo \union (IF p.attn THEN {Attn} ELSE {})
Idle(p)    == p.pc # "set" => Pending(p) = {}

(* A service process lights only what its event asks for.                  *)
ServiceOK ==
  /\ \A e \in Events : Idle(service[e])
  /\ \A e \in 1 .. logged : Pending(service[e]) \subseteq Calls(e)

(* A repair process switches off what an event mentions that it has closed *)
(* and, of what the events ask for that it has seen open, the attention    *)
(* indicator at most.                                                      *)
RepairOK ==
  \A r \in Repairs :
    /\ Idle(repair[r])
    /\ repair[r].seen \subseteq 1 .. logged
    /\ \A x \in Pending(repair[r]) : \E e \in ClosedBy(r) : x \in Mentioned(e)
    /\ \A x \in Pending(repair[r]) : \A e \in repair[r].seen :
         x \in Calls(e) \cap Mentioned(e) => x = Attn /\ Conflict

(* What an open event asks for is lit or will be.                          *)
WillLight(e, x) == service[e].pc = "start" \/ x \in Pending(service[e])
OpenInv ==
  \A e \in OpenAmong(1 .. logged) : \A x \in Calls(e) \cap Mentioned(e) :
    x \in led \union excused \/ (x = Attn /\ Conflict) \/ WillLight(e, x)

(* What is lit without an open event is about to be switched off.          *)
WillReadOrSwitchOff(r, x) ==
  \/ repair[r].pc = "start" /\ \E e \in ClosedBy(r) : x \in Mentioned(e)
  \/ x \in Pending(repair[r])
LitInv ==
  \A x \in led \ excused :
    \/ \E e \in OpenAmong(1 .. logged) : x \in Mentioned(e)
    \/ \E e \in 1 .. logged : x \in Calls(e) \ Mentioned(e)
    \/ \E r \in Repairs : WillReadOrSwitchOff(r, x)

IInv == TypeOK /\ ServiceOK /\ RepairOK /\ OpenInv /\ LitInv

-----------------------------------------------------------------------------
(* From callouts to indicators.                                            *)

(* A set of numbers with a bound has a greatest member.                    *)
LEMMA MaxIn ==
  ASSUME NEW n \in Nat, NEW S \in SUBSET (1 .. n), S # {}
  PROVE  Max(S) \in S
<1> DEFINE Below == {n - k : k \in S}
<1>1. Below \subseteq Nat /\ Below # {}
  <2>1. PICK k \in S : TRUE
    OBVIOUS
  <2>2. n - k \in Below
    OBVIOUS
  <2> QED
    BY <2>2
<1>2. PICK m \in Below : \A k \in Below : ~(<<k, m>> \in OpToRel(<, Nat))
  BY <1>1, NatLessThanWellFounded, WFMin
<1>3. \A k \in Below : ~(k < m)
  BY <1>1, <1>2 DEF OpToRel
<1>4. PICK x \in S : m = n - x
  OBVIOUS
<1>5. \A y \in S : x >= y
  BY <1>3, <1>4
<1> QED
  BY <1>5 DEF Max

(* An indicator that is found for a location exists.                       *)
LEMMA NearestLed ==
  ASSUME NEW path \in Seq(STRING)
  PROVE  Nearest(path) \in Leds \union {Nowhere}
<1> DEFINE n == {k \in 1 .. Len(path) : SubSeq(path, 1, k) \in Leds}
<1>1. CASE n = {}
  BY <1>1 DEF Nearest
<1>2. CASE n # {}
  <2>1. Len(path) \in Nat /\ n \in SUBSET (1 .. Len(path))
    OBVIOUS
  <2>2. Max(n) \in n
    <3> HIDE DEF n
    <3> QED
      BY <1>2, <2>1, MaxIn
  <2> QED
    BY <1>2, <2>2 DEF Nearest
<1> QED
  BY <1>1, <1>2

LEMMA LocationLed ==
  ASSUME NEW loc \in Locations
  PROVE  Trimmed(loc) \in Leds \union {Nowhere} /\ Untrimmed(loc) \in Leds \union {Nowhere}
<1>1. loc.path \in Seq(STRING) /\ SubSeq(loc.path, 1, Len(loc.path) - 1) \in Seq(STRING)
  BY DEF Locations
<1> QED
  BY <1>1, NearestLed DEF Trimmed, Untrimmed

LEMMA EventLeds ==
  ASSUME TypeOK, NEW e \in Events
  PROVE  Lights(e) \subseteq Leds /\ Frus(e) \subseteq Leds /\ Calls(e) \subseteq Leds
         /\ Mentioned(e) \subseteq Leds
<1>1. content[e] \in Contents \union {NoContent}
  BY DEF TypeOK, LogType
<1>2. \A o \in content[e].callouts : o.location \in Locations
  BY <1>1, ConstantsAssumption DEF NoContent
<1>3. Lights(e) \subseteq Leds
  BY <1>2, LocationLed DEF Lights, Considered
<1>4. Frus(e) \subseteq Leds
  BY <1>2, LocationLed DEF Frus, AllLocations
<1> QED
  BY <1>3, <1>4, ConstantsAssumption DEF Calls, Mentioned

(* What an event asks for depends on the event and the mode only.          *)
LEMMA SameEvent ==
  ASSUME UNCHANGED mode, NEW e, content'[e] = content[e]
  PROVE  Calls(e)' = Calls(e) /\ Mentioned(e)' = Mentioned(e) /\ Frus(e)' = Frus(e)
         /\ FrusAttn(e)' = FrusAttn(e)
  BY DEF Calls, Mentioned, Frus, FrusAttn, Supported, Lights, LightsAttn, Considered, AllLocations

(* While the servicelog stays as it is, so does all that follows from it.  *)
LEMMA SameLog ==
  ASSUME UNCHANGED <<mode, servicelog>>
  PROVE  /\ \A e : Calls(e)' = Calls(e) /\ Mentioned(e)' = Mentioned(e)
         /\ \A r : ClosedBy(r)' = ClosedBy(r)
         /\ OpenAmong(1 .. logged)' = OpenAmong(1 .. logged)
         /\ Conflict' <=> Conflict
<1>1. UNCHANGED mode /\ UNCHANGED content /\ UNCHANGED logged /\ UNCHANGED closedBy
  BY DEF servicelog
<1>2. \A e : Calls(e)' = Calls(e) /\ Mentioned(e)' = Mentioned(e) /\ Frus(e)' = Frus(e)
             /\ (FrusAttn(e)' <=> FrusAttn(e))
  BY <1>1, SameEvent
<1> QED
  BY <1>1, <1>2 DEF ClosedBy, OpenAmong, Conflict

-----------------------------------------------------------------------------
(* The processes.                                                          *)

LEMMA NoneProcess ==
  /\ NoProcess \in Processes /\ Started \in Processes
  /\ Pending(NoProcess) = {} /\ Pending(Started) = {}
  /\ NoProcess.pc = "none" /\ Started.pc = "start"
  /\ NoProcess.seen = {} /\ Started.seen = {}
<1>1. NoProcess \in Processes
  BY DEF NoProcess, Processes
<1>2. Started \in Processes
  BY <1>1 DEF Started, Processes
<1>3. /\ NoProcess.pc = "none" /\ Started.pc = "start"
      /\ NoProcess.seen = {} /\ Started.seen = {}
      /\ NoProcess.todo = {} /\ Started.todo = {}
      /\ NoProcess.attn = FALSE /\ Started.attn = FALSE
  BY DEF NoProcess, Started
<1> QED
  BY <1>1, <1>2, <1>3 DEF Pending

(* A process that has something to set.                                    *)
LEMMA SetsProcess ==
  ASSUME NEW todo \in SUBSET Leds, NEW attn \in BOOLEAN, NEW seen \in SUBSET Events
  PROVE  /\ Sets(todo, attn, seen) \in Processes
         /\ Pending(Sets(todo, attn, seen)) = todo \union (IF attn THEN {Attn} ELSE {})
         /\ Sets(todo, attn, seen).seen \subseteq seen
         /\ Sets(todo, attn, seen).pc # "start"
         /\ Idle(Sets(todo, attn, seen))
<1>1. CASE todo = {} /\ ~attn
  <2>1. Sets(todo, attn, seen) = NoProcess
    BY <1>1 DEF Sets
  <2> QED
    BY <1>1, <2>1, NoneProcess DEF Idle
<1>2. CASE ~(todo = {} /\ ~attn)
  <2>1. PICK p : p = [pc |-> "set", todo |-> todo, attn |-> attn, seen |-> seen]
    OBVIOUS
  <2>2. Sets(todo, attn, seen) = p
    BY <1>2, <2>1 DEF Sets
  <2>3. p.pc = "set" /\ p.todo = todo /\ p.attn = attn /\ p.seen = seen
    BY <2>1
  <2>4. p \in Processes
    BY <2>1 DEF Processes
  <2>5. Pending(p) = todo \union (IF attn THEN {Attn} ELSE {})
    BY <2>3 DEF Pending
  <2> QED
    BY <2>2, <2>3, <2>4, <2>5 DEF Idle
<1> QED
  BY <1>1, <1>2

(* A process that sets an indicator had it pending and keeps the others.   *)
LEMMA AfterProcess ==
  ASSUME NEW p \in Processes, NEW x \in NextLeds(p)
  PROVE  /\ x \in Leds /\ x \in Pending(p)
         /\ After(p, x) \in Processes /\ Idle(After(p, x))
         /\ Pending(After(p, x)) \subseteq Pending(p)
         /\ Pending(p) \subseteq Pending(After(p, x)) \union {x}
         /\ After(p, x).seen \subseteq p.seen /\ After(p, x).pc # "start"
<1>1. p.todo \in SUBSET Leds /\ p.attn \in BOOLEAN /\ p.seen \in SUBSET Events
  BY DEF Processes
<1>2. CASE p.todo # {}
  <2>1. x \in p.todo /\ p.todo \ {x} \in SUBSET Leds
    BY <1>1, <1>2 DEF NextLeds
  <2>2. After(p, x) = Sets(p.todo \ {x}, p.attn, p.seen)
    BY <1>2 DEF After
  <2>3. Pending(Sets(p.todo \ {x}, p.attn, p.seen))
          = (p.todo \ {x}) \union (IF p.attn THEN {Attn} ELSE {})
    BY <1>1, <2>1, SetsProcess
  <2>4. Pending(p) = p.todo \union (IF p.attn THEN {Attn} ELSE {})
    BY DEF Pending
  <2> QED
    BY <1>1, <2>1, <2>2, <2>3, <2>4, SetsProcess
<1>3. CASE p.todo = {}
  <2>1. p.attn /\ x = Attn
    BY <1>1, <1>3 DEF NextLeds
  <2>2. After(p, x) = NoProcess
    BY <1>3 DEF After
  <2>3. Pending(p) = {Attn}
    BY <1>3, <2>1 DEF Pending
  <2> QED
    BY <2>1, <2>2, <2>3, NoneProcess, ConstantsAssumption DEF Idle
<1> QED
  BY <1>2, <1>3

-----------------------------------------------------------------------------
LEMMA InitInv == Init => IInv
<1> SUFFICES ASSUME Init PROVE IInv
  OBVIOUS
<1> USE ConstantsAssumption
<1>1. /\ mode \in Modes /\ logged = 0 /\ content = [e \in Events |-> NoContent]
      /\ closedBy = [e \in Events |-> 0] /\ repaired = 0 /\ led = {}
      /\ service = [e \in Events |-> NoProcess] /\ repair = [r \in Repairs |-> NoProcess]
      /\ faults = 0 /\ excused = {}
  BY DEF Init
<1>2. TypeOK
  BY <1>1, NoneProcess DEF TypeOK, LogType, ProcessType, Events, Repairs
<1>3. ServiceOK /\ RepairOK
  BY <1>1, NoneProcess DEF ServiceOK, RepairOK, Idle
<1>4. OpenInv /\ LitInv
  BY <1>1 DEF OpenInv, LitInv, OpenAmong
<1> QED
  BY <1>2, <1>3, <1>4 DEF IInv

-----------------------------------------------------------------------------
(* The steps of the servicelog.                                            *)

LEMMA LogEventInv ==
  ASSUME IInv, LogEvent
  PROVE  IInv'
<1>1. /\ logged < MaxEvents /\ logged' = logged + 1
      /\ service' = [service EXCEPT ![logged + 1] = Started]
      /\ UNCHANGED <<mode, closedBy, repaired, led, repair, faults, excused>>
  BY DEF LogEvent
<1>2. PICK c \in Contents : content' = [content EXCEPT ![logged + 1] = c]
  BY DEF LogEvent
<1>3. /\ logged \in 0 .. MaxEvents /\ repaired \in 0 .. MaxRepairs /\ logged + 1 \in Events
      /\ content \in [Events -> Contents \union {NoContent}]
      /\ service \in [Events -> Processes] /\ repair \in [Repairs -> Processes]
      /\ closedBy \in [Events -> 0 .. repaired]
      /\ \A e \in Events : e > logged => service[e] = NoProcess /\ closedBy[e] = 0
  BY <1>1, ConstantsAssumption DEF IInv, TypeOK, LogType, ProcessType, Events
<1>4. \A e \in 1 .. logged : e \in Events /\ e # logged + 1
  BY <1>3, ConstantsAssumption DEF Events
<1>5. \A e \in 1 .. logged : content'[e] = content[e] /\ service'[e] = service[e]
  BY <1>1, <1>2, <1>3, <1>4
<1>6. \A e \in 1 .. logged : /\ Calls(e)' = Calls(e) /\ Mentioned(e)' = Mentioned(e)
                             /\ Frus(e)' = Frus(e) /\ (FrusAttn(e)' <=> FrusAttn(e))
  BY <1>1, <1>5, SameEvent
<1>7. service'[logged + 1] = Started
  BY <1>1, <1>3
<1>8. 1 .. logged \subseteq (1 .. logged)' /\ \A e \in (1 .. logged)' : e \in 1 .. logged \/ e = logged + 1
  BY <1>1, <1>3
<1>9. Conflict => Conflict'
  BY <1>6, <1>8 DEF Conflict
<1>10. TypeOK'
  <2>1. service' \in [Events -> Processes]
    BY <1>1, <1>3, NoneProcess
  <2>2. content' \in [Events -> Contents \union {NoContent}]
    BY <1>2, <1>3
  <2>3. \A e \in Events : e > logged' => service'[e] = NoProcess /\ closedBy'[e] = 0
    BY <1>1, <1>3 DEF Events
  <2> QED
    BY <1>1, <1>3, <2>1, <2>2, <2>3, ConstantsAssumption DEF IInv, TypeOK, LogType, ProcessType
<1>11. ServiceOK'
  <2>1. \A e \in Events : Idle(service'[e])
    BY <1>1, <1>3, NoneProcess DEF IInv, ServiceOK, Idle
  <2>2. \A e \in (1 .. logged)' : Pending(service'[e]) \subseteq Calls(e)'
    BY <1>5, <1>6, <1>7, <1>8, NoneProcess DEF IInv, ServiceOK
  <2> QED
    BY <2>1, <2>2 DEF ServiceOK
<1>12. \A r \in Repairs : ClosedBy(r)' = ClosedBy(r)
  <2>1. closedBy'[logged + 1] = 0
    BY <1>1, <1>3
  <2>2. ASSUME NEW r \in Repairs, NEW e
        PROVE  e \in ClosedBy(r)' <=> e \in ClosedBy(r)
    BY <1>1, <1>8, <2>1 DEF ClosedBy, Repairs
  <2> QED
    BY <2>2
<1>13. \A r : \A e \in ClosedBy(r) : e \in 1 .. logged
  BY DEF ClosedBy
<1>14. RepairOK'
  BY <1>1, <1>6, <1>8, <1>9, <1>12, <1>13 DEF IInv, RepairOK
<1>15. OpenInv'
  <2>1. SUFFICES ASSUME NEW e \in OpenAmong(1 .. logged)', NEW x \in (Calls(e) \cap Mentioned(e))'
                 PROVE  (x \in led \union excused \/ (x = Attn /\ Conflict) \/ WillLight(e, x))'
    BY DEF OpenInv
  <2>2. CASE e = logged + 1
    BY <1>7, <2>2, NoneProcess DEF WillLight
  <2>3. CASE e \in 1 .. logged
    <3>1. e \in OpenAmong(1 .. logged) /\ x \in Calls(e) \cap Mentioned(e)
      BY <1>1, <1>6, <2>3 DEF OpenAmong
    <3>2. x \in led \union excused \/ (x = Attn /\ Conflict) \/ WillLight(e, x)
      BY <3>1 DEF IInv, OpenInv
    <3> QED
      BY <1>1, <1>5, <1>9, <2>3, <3>2 DEF WillLight
  <2> QED
    BY <1>8, <2>2, <2>3 DEF OpenAmong
<1>16. LitInv'
  <2>1. SUFFICES ASSUME NEW x \in led \ excused
                 PROVE  \/ \E e \in OpenAmong(1 .. logged)' : x \in Mentioned(e)'
                        \/ \E e \in (1 .. logged)' : x \in (Calls(e) \ Mentioned(e))'
                        \/ \E r \in Repairs : WillReadOrSwitchOff(r, x)'
    BY <1>1 DEF LitInv
  <2>2. \A e \in OpenAmong(1 .. logged) : e \in OpenAmong(1 .. logged)' /\ e \in 1 .. logged
    BY <1>1, <1>8 DEF OpenAmong
  <2>3. \A r \in Repairs : WillReadOrSwitchOff(r, x) => WillReadOrSwitchOff(r, x)'
    BY <1>1, <1>6, <1>12, <1>13 DEF WillReadOrSwitchOff
  <2> QED
    BY <1>6, <1>8, <2>2, <2>3 DEF IInv, LitInv
<1> QED
  BY <1>10, <1>11, <1>14, <1>15, <1>16 DEF IInv

LEMMA LogRepairInv ==
  ASSUME IInv, LogRepair
  PROVE  IInv'
<1>1. /\ repaired < MaxRepairs /\ repaired' = repaired + 1
      /\ repair' = [repair EXCEPT ![repaired + 1] = Started]
      /\ UNCHANGED <<mode, logged, content, led, service, faults, excused>>
  BY DEF LogRepair
<1>2. PICK closed \in SUBSET OpenAmong(1 .. logged) :
        closedBy' = [e \in Events |-> IF e \in closed THEN repaired + 1 ELSE closedBy[e]]
  BY DEF LogRepair
<1>0. PICK n : n = repaired + 1
  OBVIOUS
<1>3. /\ logged \in 0 .. MaxEvents /\ repaired \in 0 .. MaxRepairs /\ n \in Repairs
      /\ service \in [Events -> Processes] /\ repair \in [Repairs -> Processes]
      /\ closedBy \in [Events -> 0 .. repaired] /\ 1 .. logged \subseteq Events
      /\ \A e \in Events : e > logged => service[e] = NoProcess /\ closedBy[e] = 0
      /\ \A r \in Repairs : r > repaired => repair[r] = NoProcess
  BY <1>0, <1>1, ConstantsAssumption DEF IInv, TypeOK, LogType, ProcessType, Events, Repairs
<1>4. \A e \in closed : e \in 1 .. logged /\ closedBy[e] = 0
  BY DEF OpenAmong
<1>5. \A e : Calls(e)' = Calls(e) /\ Mentioned(e)' = Mentioned(e) /\ Frus(e)' = Frus(e)
             /\ (FrusAttn(e)' <=> FrusAttn(e))
  BY <1>1, SameEvent
<1>6. Conflict' <=> Conflict
  BY <1>1, <1>5 DEF Conflict
<1>7. \A e \in 1 .. logged : closedBy'[e] = IF e \in closed THEN n ELSE closedBy[e]
  BY <1>0, <1>2, <1>3
<1>8. \A r \in Repairs : r # n => ClosedBy(r)' = ClosedBy(r) /\ repair'[r] = repair[r]
  BY <1>0, <1>1, <1>3, <1>4, <1>7 DEF ClosedBy, Repairs
<1>9. repair'[n] = Started /\ closed \subseteq ClosedBy(n)'
  <2>1. repair'[n] = Started
    BY <1>0, <1>1, <1>3
  <2>2. ASSUME NEW e \in closed
        PROVE  e \in (1 .. logged)' /\ closedBy'[e] = n
    BY <1>1, <1>4, <1>7
  <2> QED
    BY <2>1, <2>2 DEF ClosedBy
<1>10. TypeOK'
  <2>1. repair' \in [Repairs -> Processes]
    BY <1>0, <1>1, <1>3, NoneProcess
  <2>2. closedBy' \in [Events -> 0 .. repaired']
    BY <1>0, <1>1, <1>2, <1>3
  <2>3. \A e \in Events : e > logged' => service'[e] = NoProcess /\ closedBy'[e] = 0
    BY <1>0, <1>1, <1>2, <1>3, <1>4
  <2>4. \A r \in Repairs : r > repaired' => repair'[r] = NoProcess
    BY <1>0, <1>1, <1>3, <1>8 DEF Repairs
  <2> QED
    BY <1>1, <1>3, <2>1, <2>2, <2>3, <2>4, ConstantsAssumption
       DEF IInv, TypeOK, LogType, ProcessType
<1>11. ServiceOK'
  BY <1>1, <1>5 DEF IInv, ServiceOK
<1>12. RepairOK'
  <2>1. SUFFICES ASSUME NEW r \in Repairs
                 PROVE  /\ Idle(repair'[r])
                        /\ repair'[r].seen \subseteq (1 .. logged)'
                        /\ \A x \in Pending(repair'[r]) : \E e \in ClosedBy(r)' : x \in Mentioned(e)'
                        /\ \A x \in Pending(repair'[r]) : \A e \in repair'[r].seen :
                             x \in Calls(e)' \cap Mentioned(e)' => x = Attn /\ Conflict'
    BY DEF RepairOK
  <2>2. CASE r = n
    BY <1>9, <2>2, NoneProcess DEF Idle
  <2>3. CASE r # n
    BY <1>1, <1>5, <1>6, <1>8, <2>3 DEF IInv, RepairOK
  <2> QED
    BY <2>2, <2>3
<1>13. OpenInv'
  <2>1. \A e \in OpenAmong(1 .. logged)' : e \in OpenAmong(1 .. logged)
    BY <1>1, <1>3, <1>7 DEF OpenAmong
  <2> QED
    BY <1>1, <1>5, <1>6, <2>1 DEF IInv, OpenInv, WillLight
<1>14. LitInv'
  <2>1. SUFFICES ASSUME NEW x \in led \ excused
                 PROVE  \/ \E e \in OpenAmong(1 .. logged)' : x \in Mentioned(e)'
                        \/ \E e \in (1 .. logged)' : x \in (Calls(e) \ Mentioned(e))'
                        \/ \E r \in Repairs : WillReadOrSwitchOff(r, x)'
    BY <1>1 DEF LitInv
  <2>2. CASE \E e \in OpenAmong(1 .. logged) : x \in Mentioned(e)
    <3>1. PICK e \in OpenAmong(1 .. logged) : x \in Mentioned(e)
      BY <2>2
    <3>2. CASE e \in closed
      <4>1. WillReadOrSwitchOff(n, x)'
        BY <1>1, <1>5, <1>9, <3>1, <3>2, NoneProcess DEF WillReadOrSwitchOff
      <4> QED
        BY <1>3, <4>1
    <3>3. CASE e \notin closed
      <4>1. e \in OpenAmong(1 .. logged)'
        BY <1>1, <1>7, <3>1, <3>3 DEF OpenAmong
      <4> QED
        BY <1>5, <3>1, <4>1
    <3> QED
      BY <3>2, <3>3
  <2>3. CASE \E e \in 1 .. logged : x \in Calls(e) \ Mentioned(e)
    BY <1>1, <1>5, <2>3
  <2>4. CASE \E r \in Repairs : WillReadOrSwitchOff(r, x)
    <3>1. PICK r \in Repairs : WillReadOrSwitchOff(r, x)
      BY <2>4
    <3>2. r # n
      BY <1>0, <1>3, <3>1, NoneProcess DEF WillReadOrSwitchOff, Repairs
    <3> QED
      BY <1>5, <1>8, <3>1, <3>2 DEF WillReadOrSwitchOff
  <2> QED
    BY <2>2, <2>3, <2>4 DEF IInv, LitInv
<1> QED
  BY <1>10, <1>11, <1>12, <1>13, <1>14 DEF IInv

-----------------------------------------------------------------------------
(* The steps of service processes.                                         *)

(* What changes only processes and indicators keeps the types.             *)
LEMMA StepType ==
  ASSUME TypeOK, UNCHANGED <<mode, servicelog>>,
         service' \in [Events -> Processes], repair' \in [Repairs -> Processes],
         \A e \in Events : e > logged => service'[e] = NoProcess,
         \A r \in Repairs : r > repaired => repair'[r] = NoProcess,
         led' \subseteq Leds, excused' \subseteq Leds, faults' \in 0 .. MaxFaults
  PROVE  TypeOK'
  BY DEF TypeOK, LogType, ProcessType, servicelog

(* After a fault, one more is counted.                                     *)
LEMMA FaultType ==
  ASSUME TypeOK, UNCHANGED faults \/ Fault
  PROVE  faults' \in 0 .. MaxFaults
  BY ConstantsAssumption DEF TypeOK, Fault

LEMMA ReadEventProcess ==
  ASSUME TypeOK, NEW e \in Events, ReadEvent(e)
  PROVE  /\ e \in 1 .. logged
         /\ UNCHANGED <<mode, servicelog, led, repair, faults, excused>>
         /\ \E p \in Processes :
              /\ service' = [service EXCEPT ![e] = p]
              /\ Idle(p) /\ Pending(p) = Calls(e)
<1>1. service[e].pc = "start" /\ UNCHANGED <<mode, servicelog, led, repair, faults, excused>>
  BY DEF ReadEvent
<1>2. e \in 1 .. logged
  BY <1>1, NoneProcess, ConstantsAssumption DEF TypeOK, ProcessType, LogType, Events
<1>3. Lights(e) \in SUBSET Leds /\ LightsAttn(e) \in BOOLEAN
  BY EventLeds DEF LightsAttn
<1>4. CASE ~Supported(e) /\ service' = [service EXCEPT ![e] = NoProcess]
  BY <1>1, <1>2, <1>4, NoneProcess DEF Calls, Idle
<1>5. CASE Supported(e) /\ mode = "lightpath"
           /\ service' = [service EXCEPT ![e] = Sets(Lights(e), LightsAttn(e), {})]
  <2>1. Pending(Sets(Lights(e), LightsAttn(e), {})) = Calls(e)
    <3>1. Calls(e) = Lights(e) \union (IF LightsAttn(e) THEN {Attn} ELSE {})
      BY <1>5 DEF Calls
    <3>2. {} \in SUBSET Events
      OBVIOUS
    <3>3. Pending(Sets(Lights(e), LightsAttn(e), {}))
            = Lights(e) \union (IF LightsAttn(e) THEN {Attn} ELSE {})
      BY <1>3, <3>2, SetsProcess, Zenon
    <3> QED
      BY <3>1, <3>3, Zenon
  <2> QED
    BY <1>1, <1>2, <1>3, <1>5, <2>1, SetsProcess
<1>6. CASE Supported(e) /\ mode = "guiding"
           /\ service' = [service EXCEPT ![e] = Sets({}, TRUE, {})]
  <2>1. Pending(Sets({}, TRUE, {})) = Calls(e)
    <3>1. Calls(e) = {Attn}
      BY <1>6 DEF Calls
    <3>2. {} \in SUBSET Events /\ {} \in SUBSET Leds /\ TRUE \in BOOLEAN
      OBVIOUS
    <3>3. Pending(Sets({}, TRUE, {})) = {} \union (IF TRUE THEN {Attn} ELSE {})
      BY <3>2, SetsProcess, Zenon
    <3> QED
      BY <3>1, <3>3
  <2> QED
    BY <1>1, <1>2, <1>6, <2>1, SetsProcess
<1> QED
  BY <1>4, <1>5, <1>6 DEF ReadEvent

LEMMA ReadEventInv ==
  ASSUME IInv, NEW e \in Events, ReadEvent(e)
  PROVE  IInv'
<1>1. e \in 1 .. logged /\ UNCHANGED <<mode, servicelog, led, repair, faults, excused>>
  BY ReadEventProcess DEF IInv
<1>2. PICK p \in Processes : service' = [service EXCEPT ![e] = p]
                             /\ Idle(p) /\ Pending(p) = Calls(e)
  BY ReadEventProcess DEF IInv
<1>3. logged \in 0 .. MaxEvents /\ service \in [Events -> Processes] /\ UNCHANGED logged
  BY <1>1 DEF IInv, TypeOK, LogType, ProcessType, servicelog
<1>4. service'[e] = p /\ \A f \in Events : f # e => service'[f] = service[f]
  BY <1>2, <1>3
<1>5. 1 .. logged \subseteq Events
  BY <1>3, ConstantsAssumption DEF Events
<1>6. TypeOK'
  <2>1. service' \in [Events -> Processes]
    BY <1>2, <1>3
  <2>2. \A f \in Events : f > logged => service'[f] = NoProcess
    BY <1>1, <1>3, <1>4 DEF IInv, TypeOK, ProcessType
  <2> QED
    BY <1>1, <2>1, <2>2, StepType, FaultType DEF IInv, TypeOK, ProcessType
<1>7. ServiceOK'
  BY <1>1, <1>2, <1>3, <1>4, <1>5, SameLog DEF IInv, ServiceOK
<1>8. RepairOK'
  BY <1>1, <1>3, SameLog DEF IInv, RepairOK
<1>9. OpenInv'
  <2>1. \A f \in OpenAmong(1 .. logged) : f \in Events
    BY <1>5 DEF OpenAmong
  <2>2. ASSUME NEW f \in OpenAmong(1 .. logged), NEW x \in Calls(f), WillLight(f, x)
        PROVE  WillLight(f, x)'
    BY <1>2, <1>4, <2>1, <2>2 DEF WillLight
  <2> QED
    BY <1>1, <2>2, SameLog DEF IInv, OpenInv
<1>10. LitInv'
  BY <1>1, <1>3, SameLog DEF IInv, LitInv, WillReadOrSwitchOff
<1> QED
  BY <1>6, <1>7, <1>8, <1>9, <1>10 DEF IInv

LEMMA SetOnInv ==
  ASSUME IInv, NEW e \in Events, SetOn(e)
  PROVE  IInv'
<1>1. UNCHANGED <<mode, servicelog, repair>>
  BY DEF SetOn
<1>2. PICK x \in NextLeds(service[e]) :
        /\ service' = [service EXCEPT ![e] = After(service[e], x)]
        /\ \/ /\ led' = led \union {x} /\ UNCHANGED faults
              /\ excused' = (excused \ {x}) \union (IF closedBy[e] = 0 THEN {} ELSE {x})
           \/ /\ Fault /\ UNCHANGED led
              /\ excused' = excused \union {x}
  BY DEF SetOn
<1>3. logged \in 0 .. MaxEvents /\ service \in [Events -> Processes] /\ UNCHANGED logged
  BY <1>1 DEF IInv, TypeOK, LogType, ProcessType, servicelog
<1>4. PICK p : p = After(service[e], x)
  OBVIOUS
<1>5. /\ x \in Leds /\ x \in Pending(service[e]) /\ p \in Processes /\ Idle(p)
      /\ Pending(p) \subseteq Pending(service[e])
      /\ Pending(service[e]) \subseteq Pending(p) \union {x}
  BY <1>3, <1>4, AfterProcess
<1>6. e \in 1 .. logged
  <2>1. service[e] # NoProcess
    BY <1>5, NoneProcess
  <2> QED
    BY <1>3, <2>1, ConstantsAssumption DEF IInv, TypeOK, ProcessType, Events
<1>7. service'[e] = p /\ \A f \in Events : f # e => service'[f] = service[f]
  BY <1>2, <1>3, <1>4
<1>8. 1 .. logged \subseteq Events
  BY <1>3, ConstantsAssumption DEF Events
<1>9. /\ led \subseteq led' /\ led' \subseteq led \union {x} /\ x \in led' \union excused'
      /\ excused \subseteq excused' \union {x} /\ excused' \subseteq excused \union {x}
      /\ UNCHANGED faults \/ Fault
  BY <1>2
<1>10. x \in led' \ excused' => closedBy[e] = 0
  BY <1>2
<1>11. TypeOK'
  <2>1. service' \in [Events -> Processes]
    BY <1>2, <1>3, <1>4, <1>5
  <2>2. \A f \in Events : f > logged => service'[f] = NoProcess
    BY <1>3, <1>6, <1>7 DEF IInv, TypeOK, ProcessType
  <2>3. led' \subseteq Leds /\ excused' \subseteq Leds
    BY <1>5, <1>9 DEF IInv, TypeOK
  <2>4. repair' \in [Repairs -> Processes] /\ \A r \in Repairs : r > repaired => repair'[r] = NoProcess
    BY <1>1 DEF IInv, TypeOK, ProcessType
  <2> QED
    BY <1>1, <1>9, <2>1, <2>2, <2>3, <2>4, StepType, FaultType DEF IInv
<1>12. ServiceOK'
  BY <1>1, <1>3, <1>5, <1>6, <1>7, <1>8, SameLog DEF IInv, ServiceOK
<1>13. RepairOK'
  BY <1>1, <1>3, SameLog DEF IInv, RepairOK
<1>14. OpenInv'
  <2>1. SUFFICES ASSUME NEW f \in OpenAmong(1 .. logged), NEW y \in Calls(f) \cap Mentioned(f)
                 PROVE  y \in led' \union excused' \/ (y = Attn /\ Conflict) \/ WillLight(f, y)'
    BY <1>1, SameLog DEF OpenInv
  <2>2. f \in Events
    BY <1>8 DEF OpenAmong
  <2>3. y \in led \union excused \/ (y = Attn /\ Conflict) \/ WillLight(f, y)
    BY DEF IInv, OpenInv
  <2>4. CASE y = x
    BY <1>9, <2>4
  <2>5. CASE y # x /\ WillLight(f, y)
    <3>1. CASE f = e
      <4>1. y \in Pending(service[e])
        BY <1>5, <2>5, <3>1 DEF WillLight, Idle, IInv, ServiceOK
      <4> QED
        BY <1>5, <1>7, <2>5, <3>1, <4>1 DEF WillLight
    <3>2. CASE f # e
      BY <1>7, <2>2, <2>5, <3>2 DEF WillLight
    <3> QED
      BY <3>1, <3>2
  <2> QED
    BY <1>9, <2>3, <2>4, <2>5
<1>15. LitInv'
  <2>1. SUFFICES ASSUME NEW y \in led' \ excused'
                 PROVE  \/ \E f \in OpenAmong(1 .. logged) : y \in Mentioned(f)
                        \/ \E f \in 1 .. logged : y \in Calls(f) \ Mentioned(f)
                        \/ \E r \in Repairs : WillReadOrSwitchOff(r, y)
    BY <1>1, <1>3, SameLog DEF LitInv, WillReadOrSwitchOff
  <2>2. CASE y = x
    <3>1. e \in OpenAmong(1 .. logged) /\ x \in Calls(e)
      BY <1>5, <1>6, <1>10, <2>2 DEF OpenAmong, IInv, ServiceOK
    <3> QED
      BY <1>6, <2>2, <3>1
  <2>3. CASE y # x
    BY <1>9, <2>3 DEF IInv, LitInv
  <2> QED
    BY <2>2, <2>3
<1> QED
  BY <1>11, <1>12, <1>13, <1>14, <1>15 DEF IInv

-----------------------------------------------------------------------------
(* The steps of repair processes.                                          *)

(* What a repair process p would do right after it has read the events.    *)
Decides(r, p) ==
  /\ Idle(p) /\ p.seen \subseteq OpenAmong(1 .. logged)
  /\ \A x \in Pending(p) : \E e \in ClosedBy(r) : x \in Mentioned(e)
  /\ \A x \in Pending(p) : \A e \in OpenAmong(1 .. logged) :
       x \in Calls(e) \cap Mentioned(e) => x = Attn /\ Conflict
  /\ \A e \in ClosedBy(r) : \A x \in Mentioned(e) :
       x \in Pending(p) \/ \E f \in OpenAmong(1 .. logged) : x \in Mentioned(f)

(* With the individual indicators: what the closed events mention and no   *)
(* open one does, and likewise for the attention indicator.                *)
ClosedSupported(r) == {e \in ClosedBy(r) : Supported(e)}
OpenSupported      == {e \in OpenEvents : Supported(e)}
InTodo(r, x) ==
  (\E e \in ClosedSupported(r) : x \in Frus(e)) /\ ~(\E e \in OpenSupported : x \in Frus(e))
InAttn(r) ==
  (\E e \in ClosedSupported(r) : FrusAttn(e)) /\ ~(\E e \in OpenSupported : FrusAttn(e))

LEMMA DecidesLightpath ==
  ASSUME NEW r \in Repairs, NEW p, mode = "lightpath",
         \A x : x \in Pending(p) <=> InTodo(r, x) \/ (x = Attn /\ InAttn(r)),
         Idle(p), p.seen \subseteq OpenAmong(1 .. logged)
  PROVE  Decides(r, p)
<1>1. \A e, x : x \in Mentioned(e) <=> Supported(e) /\ (x \in Frus(e) \/ (x = Attn /\ FrusAttn(e)))
  BY DEF Mentioned
<1>2. /\ \A e : e \in ClosedSupported(r) <=> e \in ClosedBy(r) /\ Supported(e)
      /\ \A e : e \in OpenSupported <=> e \in OpenAmong(1 .. logged) /\ Supported(e)
  BY DEF ClosedSupported, OpenSupported, OpenEvents
<1>3. \A e, f : e \in ClosedSupported(r) /\ f \in OpenSupported => e \in 1 .. logged /\ f \in 1 .. logged
  BY <1>2 DEF ClosedBy, OpenAmong
<1>4. ASSUME NEW x \in Pending(p)
      PROVE  \E e \in ClosedBy(r) : x \in Mentioned(e)
  BY <1>1, <1>2, <1>4 DEF InTodo, InAttn
<1>5. ASSUME NEW x \in Pending(p), NEW e \in OpenAmong(1 .. logged), x \in Mentioned(e)
      PROVE  x = Attn /\ Conflict
  <2>1. e \in OpenSupported
    BY <1>1, <1>2, <1>5
  <2>2. CASE InTodo(r, x)
    <3>1. x \notin Frus(e) /\ \E f \in ClosedSupported(r) : x \in Frus(f)
      BY <2>1, <2>2 DEF InTodo
    <3>2. x = Attn /\ FrusAttn(e)
      BY <1>1, <1>5, <3>1
    <3> QED
      BY <1>3, <2>1, <3>1, <3>2 DEF Conflict
  <2>3. CASE x = Attn /\ InAttn(r)
    <3>1. ~FrusAttn(e) /\ \E f \in ClosedSupported(r) : FrusAttn(f)
      BY <2>1, <2>3 DEF InAttn
    <3>2. Attn \in Frus(e)
      BY <1>1, <1>5, <2>3, <3>1
    <3> QED
      BY <1>3, <2>1, <2>3, <3>1, <3>2 DEF Conflict
  <2> QED
    BY <2>2, <2>3
<1>6. ASSUME NEW e \in ClosedBy(r), NEW x \in Mentioned(e), x \notin Pending(p)
      PROVE  \E f \in OpenAmong(1 .. logged) : x \in Mentioned(f)
  <2>1. e \in ClosedSupported(r)
    BY <1>1, <1>2
  <2>2. CASE x \in Frus(e)
    BY <1>1, <1>2, <1>6, <2>1, <2>2 DEF InTodo
  <2>3. CASE x = Attn /\ FrusAttn(e)
    BY <1>1, <1>2, <1>6, <2>1, <2>3 DEF InAttn
  <2> QED
    BY <1>1, <2>2, <2>3
<1> QED
  BY <1>4, <1>5, <1>6 DEF Decides

LEMMA ReadEventsProcess ==
  ASSUME TypeOK, NEW r \in Repairs, ReadEvents(r)
  PROVE  /\ r \in 1 .. repaired
         /\ UNCHANGED <<mode, servicelog, led, service, faults, excused>>
         /\ \E p \in Processes : repair' = [repair EXCEPT ![r] = p] /\ Decides(r, p)
<1>1. repair[r].pc = "start" /\ UNCHANGED <<mode, servicelog, led, service, faults, excused>>
  BY DEF ReadEvents
<1>2. r \in 1 .. repaired
  BY <1>1, NoneProcess, ConstantsAssumption DEF TypeOK, ProcessType, LogType, Repairs
<1>3. PICK seen \in SUBSET Events : seen = OpenAmong(1 .. logged)
  <2>1. 1 .. logged \subseteq Events
    BY ConstantsAssumption DEF Events, TypeOK, LogType
  <2>2. OpenAmong(1 .. logged) \in SUBSET Events
    BY <2>1 DEF OpenAmong
  <2> QED
    BY <2>2
<1>4. CASE ClosedBy(r) = {} /\ repair' = [repair EXCEPT ![r] = NoProcess]
  <2>1. Decides(r, NoProcess)
    BY <1>4, NoneProcess DEF Decides, Idle
  <2> QED
    BY <1>1, <1>2, <1>4, <2>1, NoneProcess
<1>5. PICK todo : todo = FrusOf(ClosedSupported(r)) \ FrusOf(OpenSupported)
  OBVIOUS
<1>6. PICK attn \in BOOLEAN : attn <=> InAttn(r)
  OBVIOUS
<1>7. CASE mode = "lightpath" /\ repair' = [repair EXCEPT ![r] = Sets(todo, attn, seen)]
  <2>1. todo \in SUBSET Leds
    <3>1. \A e \in ClosedSupported(r) : Frus(e) \subseteq Leds
      BY EventLeds, ConstantsAssumption DEF ClosedSupported, ClosedBy, Events, TypeOK, LogType
    <3> QED
      BY <1>5, <3>1 DEF FrusOf
  <2>2. PICK p : p = Sets(todo, attn, seen)
    OBVIOUS
  <2>3. /\ p \in Processes /\ Idle(p) /\ p.seen \subseteq OpenAmong(1 .. logged)
        /\ Pending(p) = todo \union (IF attn THEN {Attn} ELSE {})
    BY <1>3, <2>1, <2>2, SetsProcess
  <2>4. \A x : x \in todo <=> InTodo(r, x)
    <3>1. \A x : x \in FrusOf(ClosedSupported(r)) <=> \E e \in ClosedSupported(r) : x \in Frus(e)
      BY DEF FrusOf
    <3>2. \A x : x \in FrusOf(OpenSupported) <=> \E e \in OpenSupported : x \in Frus(e)
      BY DEF FrusOf
    <3> QED
      BY <1>5, <3>1, <3>2 DEF InTodo
  <2>5. \A x : x \in Pending(p) <=> InTodo(r, x) \/ (x = Attn /\ InAttn(r))
    BY <1>6, <2>3, <2>4
  <2>6. Decides(r, p)
    BY <1>7, <2>3, <2>5, DecidesLightpath
  <2> QED
    BY <1>1, <1>2, <1>7, <2>2, <2>3, <2>6
<1>8. CASE ClosedBy(r) # {} /\ mode = "guiding"
            /\ repair' = [repair EXCEPT ![r] = Sets({}, OpenEvents = {}, seen)]
  <2>1. PICK none \in BOOLEAN : none = (OpenEvents = {})
    OBVIOUS
  <2>2. PICK p : p = Sets({}, none, seen)
    OBVIOUS
  <2>3. {} \in SUBSET Leds
    OBVIOUS
  <2>4. /\ p \in Processes /\ Idle(p) /\ p.seen \subseteq OpenAmong(1 .. logged)
        /\ Pending(p) = {} \union (IF none THEN {Attn} ELSE {})
    BY <1>3, <2>1, <2>2, <2>3, SetsProcess
  <2>5. \A e : Mentioned(e) = {Attn}
    BY <1>8 DEF Mentioned
  <2>6. Decides(r, p)
    BY <1>8, <2>1, <2>4, <2>5 DEF Decides, OpenEvents
  <2> QED
    BY <1>1, <1>2, <1>8, <2>1, <2>2, <2>4, <2>6
<1> QED
  <2>1. CASE ClosedBy(r) # {} /\ mode = "lightpath"
    <3>1. repair' = [repair EXCEPT ![r] =
            Sets(FrusOf(ClosedSupported(r)) \ FrusOf(OpenSupported),
                 (\E e \in ClosedSupported(r) : FrusAttn(e)) /\ ~(\E e \in OpenSupported : FrusAttn(e)),
                 OpenAmong(1 .. logged))]
      <4>1. mode # "guiding"
        BY <2>1
      <4> QED
        BY <2>1, <4>1, Zenon DEF ReadEvents, ClosedSupported, OpenSupported
    <3>2. attn = ((\E e \in ClosedSupported(r) : FrusAttn(e)) /\ ~(\E e \in OpenSupported : FrusAttn(e)))
      BY <1>6 DEF InAttn
    <3> QED
      BY <1>3, <1>5, <1>7, <2>1, <3>1, <3>2
  <2>2. CASE ClosedBy(r) # {} /\ mode = "guiding"
    BY <1>3, <1>8, <2>2 DEF ReadEvents
  <2>3. CASE ClosedBy(r) = {}
    BY <1>4, <2>3 DEF ReadEvents
  <2> QED
    BY <2>1, <2>2, <2>3, ConstantsAssumption DEF TypeOK

LEMMA ReadEventsInv ==
  ASSUME IInv, NEW r \in Repairs, ReadEvents(r)
  PROVE  IInv'
<1>1. r \in 1 .. repaired /\ UNCHANGED <<mode, servicelog, led, service, faults, excused>>
  BY ReadEventsProcess DEF IInv
<1>2. PICK p \in Processes : repair' = [repair EXCEPT ![r] = p] /\ Decides(r, p)
  BY ReadEventsProcess DEF IInv
<1>3. /\ repair \in [Repairs -> Processes] /\ UNCHANGED <<logged, repaired>>
      /\ repaired \in Nat
  BY <1>1, ConstantsAssumption DEF IInv, TypeOK, LogType, ProcessType, servicelog
<1>4. repair'[r] = p /\ \A q \in Repairs : q # r => repair'[q] = repair[q]
  BY <1>2, <1>3
<1>5. TypeOK'
  <2>1. repair' \in [Repairs -> Processes]
    BY <1>2, <1>3
  <2>2. \A q \in Repairs : q > repaired => repair'[q] = NoProcess
    BY <1>1, <1>3, <1>4 DEF IInv, TypeOK, ProcessType
  <2>3. service' \in [Events -> Processes] /\ \A e \in Events : e > logged => service'[e] = NoProcess
    BY <1>1 DEF IInv, TypeOK, ProcessType
  <2> QED
    BY <1>1, <2>1, <2>2, <2>3, StepType, FaultType DEF IInv, TypeOK
<1>6. ServiceOK'
  BY <1>1, <1>3, SameLog DEF IInv, ServiceOK
<1>7. RepairOK'
  <2>1. SUFFICES ASSUME NEW q \in Repairs
                 PROVE  /\ Idle(repair'[q])
                        /\ repair'[q].seen \subseteq 1 .. logged
                        /\ \A x \in Pending(repair'[q]) : \E e \in ClosedBy(q) : x \in Mentioned(e)
                        /\ \A x \in Pending(repair'[q]) : \A e \in repair'[q].seen :
                             x \in Calls(e) \cap Mentioned(e) => x = Attn /\ Conflict
    BY <1>1, <1>3, SameLog DEF RepairOK
  <2>2. CASE q = r
    <3>1. OpenAmong(1 .. logged) \subseteq 1 .. logged
      BY DEF OpenAmong
    <3> QED
      BY <1>2, <1>4, <2>2, <3>1 DEF Decides
  <2>3. CASE q # r
    BY <1>4, <2>3 DEF IInv, RepairOK
  <2> QED
    BY <2>2, <2>3
<1>8. OpenInv'
  BY <1>1, <1>3, SameLog DEF IInv, OpenInv, WillLight
<1>9. LitInv'
  <2>1. SUFFICES ASSUME NEW x \in led \ excused
                 PROVE  \/ \E e \in OpenAmong(1 .. logged) : x \in Mentioned(e)
                        \/ \E e \in 1 .. logged : x \in Calls(e) \ Mentioned(e)
                        \/ \E q \in Repairs : WillReadOrSwitchOff(q, x)'
    BY <1>1, <1>3, SameLog DEF LitInv
  <2>2. ASSUME NEW q \in Repairs, WillReadOrSwitchOff(q, x)
        PROVE  \/ \E e \in OpenAmong(1 .. logged) : x \in Mentioned(e)
               \/ WillReadOrSwitchOff(q, x)'
    <3>1. CASE q = r
      <4>1. repair[r].pc = "start" /\ Pending(repair[r]) = {}
        BY DEF ReadEvents, IInv, RepairOK, Idle
      <4>2. \E e \in ClosedBy(r) : x \in Mentioned(e)
        BY <2>2, <3>1, <4>1 DEF WillReadOrSwitchOff
      <4> QED
        BY <1>2, <1>4, <3>1, <4>2 DEF Decides, WillReadOrSwitchOff
    <3>2. CASE q # r
      BY <1>1, <1>4, <2>2, <3>2, SameLog DEF WillReadOrSwitchOff
    <3> QED
      BY <3>1, <3>2
  <2> QED
    BY <2>2 DEF IInv, LitInv
<1> QED
  BY <1>5, <1>6, <1>7, <1>8, <1>9 DEF IInv

LEMMA SetOffInv ==
  ASSUME IInv, NEW r \in Repairs, SetOff(r)
  PROVE  IInv'
<1>1. UNCHANGED <<mode, servicelog, service>>
  BY DEF SetOff
<1>2. PICK x \in NextLeds(repair[r]) :
        /\ repair' = [repair EXCEPT ![r] = After(repair[r], x)]
        /\ \/ /\ led' = led \ {x} /\ UNCHANGED faults
              /\ excused' = (excused \ {x}) \union
                   {y \in {x} : \E e \in OpenAmong(1 .. logged) \ repair[r].seen : x \in Calls(e)}
           \/ /\ Fault /\ UNCHANGED led
              /\ excused' = excused \union {x}
  BY DEF SetOff
<1>3. /\ repair \in [Repairs -> Processes] /\ UNCHANGED <<logged, repaired>>
      /\ repaired \in Nat
  BY <1>1, ConstantsAssumption DEF IInv, TypeOK, LogType, ProcessType, servicelog
<1>4. PICK p : p = After(repair[r], x)
  OBVIOUS
<1>5. /\ x \in Leds /\ x \in Pending(repair[r]) /\ p \in Processes /\ Idle(p)
      /\ Pending(p) \subseteq Pending(repair[r])
      /\ Pending(repair[r]) \subseteq Pending(p) \union {x}
      /\ p.seen \subseteq repair[r].seen
  BY <1>3, <1>4, AfterProcess
<1>6. r \in 1 .. repaired
  <2>1. repair[r] # NoProcess
    BY <1>5, NoneProcess
  <2> QED
    BY <1>3, <2>1, ConstantsAssumption DEF IInv, TypeOK, ProcessType, Repairs
<1>7. repair'[r] = p /\ \A q \in Repairs : q # r => repair'[q] = repair[q]
  BY <1>2, <1>3, <1>4
<1>8. /\ led \subseteq led' \union {x} /\ led' \subseteq led /\ x \notin led' \ excused'
      /\ excused \subseteq excused' \union {x} /\ excused' \subseteq excused \union {x}
      /\ UNCHANGED faults \/ Fault
  BY <1>2
<1>9. \A e \in OpenAmong(1 .. logged) : x \in Calls(e) => x \in excused' \/ e \in repair[r].seen
  BY <1>2
<1>10. TypeOK'
  <2>1. repair' \in [Repairs -> Processes]
    BY <1>2, <1>3, <1>4, <1>5
  <2>2. \A q \in Repairs : q > repaired => repair'[q] = NoProcess
    BY <1>3, <1>6, <1>7 DEF IInv, TypeOK, ProcessType
  <2>3. led' \subseteq Leds /\ excused' \subseteq Leds
    BY <1>5, <1>8 DEF IInv, TypeOK
  <2>4. service' \in [Events -> Processes] /\ \A e \in Events : e > logged => service'[e] = NoProcess
    BY <1>1 DEF IInv, TypeOK, ProcessType
  <2> QED
    BY <1>1, <1>8, <2>1, <2>2, <2>3, <2>4, StepType, FaultType DEF IInv
<1>11. ServiceOK'
  BY <1>1, <1>3, SameLog DEF IInv, ServiceOK
<1>12. RepairOK'
  <2>1. SUFFICES ASSUME NEW q \in Repairs
                 PROVE  /\ Idle(repair'[q])
                        /\ repair'[q].seen \subseteq 1 .. logged
                        /\ \A y \in Pending(repair'[q]) : \E e \in ClosedBy(q) : y \in Mentioned(e)
                        /\ \A y \in Pending(repair'[q]) : \A e \in repair'[q].seen :
                             y \in Calls(e) \cap Mentioned(e) => y = Attn /\ Conflict
    BY <1>1, <1>3, SameLog DEF RepairOK
  <2>2. CASE q = r
    BY <1>5, <1>7, <2>2 DEF IInv, RepairOK
  <2>3. CASE q # r
    BY <1>7, <2>3 DEF IInv, RepairOK
  <2> QED
    BY <2>2, <2>3
<1>13. OpenInv'
  <2>1. SUFFICES ASSUME NEW f \in OpenAmong(1 .. logged), NEW y \in Calls(f) \cap Mentioned(f)
                 PROVE  y \in led' \union excused' \/ (y = Attn /\ Conflict) \/ WillLight(f, y)'
    BY <1>1, <1>3, SameLog DEF OpenInv
  <2>2. y \in led \union excused \/ (y = Attn /\ Conflict) \/ WillLight(f, y)'
    BY <1>1 DEF IInv, OpenInv, WillLight
  <2>3. CASE y = x
    <3>1. CASE f \in repair[r].seen
      BY <1>5, <2>3, <3>1 DEF IInv, RepairOK
    <3>2. CASE f \notin repair[r].seen
      BY <1>9, <2>3, <3>2
    <3> QED
      BY <3>1, <3>2
  <2>4. CASE y # x
    BY <1>8, <2>2, <2>4
  <2> QED
    BY <2>3, <2>4
<1>14. LitInv'
  <2>1. SUFFICES ASSUME NEW y \in led' \ excused'
                 PROVE  \/ \E f \in OpenAmong(1 .. logged) : y \in Mentioned(f)
                        \/ \E f \in 1 .. logged : y \in Calls(f) \ Mentioned(f)
                        \/ \E q \in Repairs : WillReadOrSwitchOff(q, y)'
    BY <1>1, <1>3, SameLog DEF LitInv
  <2>2. y # x /\ y \in led \ excused
    BY <1>8
  <2>3. ASSUME NEW q \in Repairs, WillReadOrSwitchOff(q, y)
        PROVE  WillReadOrSwitchOff(q, y)'
    <3>1. CASE q = r
      <4>1. repair[r].pc # "start"
        BY <1>5 DEF IInv, RepairOK, Idle
      <4> QED
        BY <1>5, <1>7, <2>2, <2>3, <3>1, <4>1 DEF WillReadOrSwitchOff
    <3>2. CASE q # r
      BY <1>1, <1>7, <2>3, <3>2, SameLog DEF WillReadOrSwitchOff
    <3> QED
      BY <3>1, <3>2
  <2> QED
    BY <2>2, <2>3 DEF IInv, LitInv
<1> QED
  BY <1>10, <1>11, <1>12, <1>13, <1>14 DEF IInv

-----------------------------------------------------------------------------
(* A process ends early.                                                   *)

LEMMA ServiceEndsInv ==
  ASSUME IInv, NEW e \in Events, Fault, service' = [service EXCEPT ![e] = NoProcess],
         Runs(service[e]), excused' = excused \union Calls(e),
         UNCHANGED <<mode, servicelog, led, repair>>
  PROVE  IInv'
<1>1. /\ logged \in 0 .. MaxEvents /\ service \in [Events -> Processes]
      /\ UNCHANGED <<logged, repaired>>
  BY DEF IInv, TypeOK, LogType, ProcessType, servicelog
<1>2. service'[e] = NoProcess /\ \A f \in Events : f # e => service'[f] = service[f]
  BY <1>1
<1>3. 1 .. logged \subseteq Events
  BY <1>1, ConstantsAssumption DEF Events
<1>4. TypeOK'
  <2>1. service' \in [Events -> Processes]
    BY <1>1, NoneProcess
  <2>2. \A f \in Events : f > logged => service'[f] = NoProcess
    BY <1>2 DEF IInv, TypeOK, ProcessType
  <2>3. led' \subseteq Leds /\ excused' \subseteq Leds
    BY EventLeds DEF IInv, TypeOK
  <2>4. repair' \in [Repairs -> Processes] /\ \A r \in Repairs : r > repaired => repair'[r] = NoProcess
    BY DEF IInv, TypeOK, ProcessType
  <2> QED
    BY <2>1, <2>2, <2>3, <2>4, StepType, FaultType DEF IInv
<1>5. ServiceOK'
  <2>1. \A f \in Events : Idle(service'[f]) /\ Pending(service'[f]) \subseteq Pending(service[f])
    BY <1>2, NoneProcess DEF IInv, ServiceOK, Idle
  <2> QED
    BY <1>1, <1>3, <2>1, SameLog DEF IInv, ServiceOK
<1>6. RepairOK'
  BY <1>1, SameLog DEF IInv, RepairOK
<1>7. OpenInv'
  <2>1. SUFFICES ASSUME NEW f \in OpenAmong(1 .. logged), NEW y \in Calls(f) \cap Mentioned(f)
                 PROVE  y \in led' \union excused' \/ (y = Attn /\ Conflict) \/ WillLight(f, y)'
    BY <1>1, SameLog DEF OpenInv
  <2>2. f \in Events /\ (y \in led \union excused \/ (y = Attn /\ Conflict) \/ WillLight(f, y))
    BY <1>3 DEF IInv, OpenInv, OpenAmong
  <2>3. CASE f = e
    BY <2>3
  <2>4. CASE f # e
    BY <1>2, <2>2, <2>4 DEF WillLight
  <2> QED
    BY <2>3, <2>4
<1>8. LitInv'
  BY <1>1, SameLog DEF IInv, LitInv, WillReadOrSwitchOff
<1> QED
  BY <1>4, <1>5, <1>6, <1>7, <1>8 DEF IInv

LEMMA RepairEndsInv ==
  ASSUME IInv, NEW r \in Repairs, Fault, repair' = [repair EXCEPT ![r] = NoProcess],
         excused' = excused \union UNION {Calls(e) \union Mentioned(e) : e \in ClosedBy(r)},
         UNCHANGED <<mode, servicelog, led, service>>
  PROVE  IInv'
<1>1. /\ logged \in 0 .. MaxEvents /\ repair \in [Repairs -> Processes]
      /\ UNCHANGED <<logged, repaired>>
  BY DEF IInv, TypeOK, LogType, ProcessType, servicelog
<1>2. repair'[r] = NoProcess /\ \A q \in Repairs : q # r => repair'[q] = repair[q]
  BY <1>1
<1>3. \A y : y \in excused' <=>
        y \in excused \/ \E e \in ClosedBy(r) : y \in Calls(e) \/ y \in Mentioned(e)
  OBVIOUS
<1>4. TypeOK'
  <2>1. repair' \in [Repairs -> Processes]
    BY <1>1, NoneProcess
  <2>2. \A q \in Repairs : q > repaired => repair'[q] = NoProcess
    BY <1>2 DEF IInv, TypeOK, ProcessType
  <2>3. led' \subseteq Leds /\ excused' \subseteq Leds
    <3>1. \A e \in ClosedBy(r) : e \in Events
      BY <1>1, ConstantsAssumption DEF ClosedBy, Events
    <3>2. \A y \in excused' : y \in Leds
      BY <1>3, <3>1, EventLeds DEF IInv, TypeOK
    <3> QED
      BY <3>2 DEF IInv, TypeOK
  <2>4. service' \in [Events -> Processes] /\ \A e \in Events : e > logged => service'[e] = NoProcess
    BY DEF IInv, TypeOK, ProcessType
  <2> QED
    BY <2>1, <2>2, <2>3, <2>4, StepType, FaultType DEF IInv
<1>5. ServiceOK'
  BY <1>1, SameLog DEF IInv, ServiceOK
<1>6. RepairOK'
  <2>1. \A q \in Repairs : /\ Idle(repair'[q]) /\ Pending(repair'[q]) \subseteq Pending(repair[q])
                           /\ repair'[q].seen \subseteq repair[q].seen
    BY <1>2, NoneProcess DEF IInv, RepairOK, Idle
  <2> QED
    BY <1>1, <2>1, SameLog DEF IInv, RepairOK
<1>7. OpenInv'
  BY <1>1, <1>3, SameLog DEF IInv, OpenInv, WillLight
<1>8. LitInv'
  <2>1. SUFFICES ASSUME NEW y \in led' \ excused'
                 PROVE  \/ \E f \in OpenAmong(1 .. logged) : y \in Mentioned(f)
                        \/ \E f \in 1 .. logged : y \in Calls(f) \ Mentioned(f)
                        \/ \E q \in Repairs : WillReadOrSwitchOff(q, y)'
    BY <1>1, SameLog DEF LitInv
  <2>2. y \in led \ excused /\ \A e \in ClosedBy(r) : y \notin Mentioned(e)
    BY <1>3
  <2>3. ASSUME NEW q \in Repairs, WillReadOrSwitchOff(q, y)
        PROVE  WillReadOrSwitchOff(q, y)'
    <3>1. q # r
      BY <2>2, <2>3 DEF IInv, RepairOK, WillReadOrSwitchOff
    <3> QED
      BY <1>2, <2>3, <3>1, SameLog DEF WillReadOrSwitchOff
  <2> QED
    BY <2>2, <2>3 DEF IInv, LitInv
<1> QED
  BY <1>4, <1>5, <1>6, <1>7, <1>8 DEF IInv

LEMMA StutterInv == IInv /\ UNCHANGED vars => IInv'
<1> SUFFICES ASSUME IInv, UNCHANGED vars PROVE IInv'
  OBVIOUS
<1>1. UNCHANGED <<mode, servicelog, logged, repaired, led, service, repair, faults, excused>>
  BY DEF vars, servicelog
<1>2. TypeOK'
  BY <1>1, StepType DEF IInv, TypeOK, ProcessType
<1> QED
  BY <1>1, <1>2, SameLog
  DEF IInv, ServiceOK, RepairOK, OpenInv, LitInv, WillLight, WillReadOrSwitchOff

LEMMA NextInv == IInv /\ [Next]_vars => IInv'
<1> SUFFICES ASSUME IInv, [Next]_vars PROVE IInv'
  OBVIOUS
<1>1. CASE LogEvent
  BY <1>1, LogEventInv
<1>2. CASE LogRepair
  BY <1>2, LogRepairInv
<1>3. CASE GiveUp
  BY <1>3, ServiceEndsInv, RepairEndsInv DEF GiveUp
<1>4. ASSUME NEW e \in Events, ReadEvent(e) \/ SetOn(e)
      PROVE  IInv'
  BY <1>4, ReadEventInv, SetOnInv
<1>5. ASSUME NEW r \in Repairs, ReadEvents(r) \/ SetOff(r)
      PROVE  IInv'
  BY <1>5, ReadEventsInv, SetOffInv
<1>6. CASE UNCHANGED vars
  BY <1>6, StutterInv
<1> QED
  BY <1>1, <1>2, <1>3, <1>4, <1>5, <1>6 DEF Next

(* At rest no process has anything to set.                                 *)
LEMMA NothingPending ==
  ASSUME IInv, AtRest
  PROVE  /\ \A e \in Events : service[e].pc # "start" /\ Pending(service[e]) = {}
         /\ \A r \in Repairs : repair[r].pc # "start" /\ Pending(repair[r]) = {}
  BY DEF IInv, AtRest, Runs, ServiceOK, RepairOK, Idle

-----------------------------------------------------------------------------
(* Once all processes have ended, what an open event asks for is lit, with *)
(* the exceptions of OpenIsLit: whatever order the processes run in, for   *)
(* any events, indicators, repairs and failures.                           *)
THEOREM OpenEventsLit == Spec => []OpenIsLit
<1>1. IInv => OpenIsLit
  <2>1. SUFFICES ASSUME IInv, AtRest, NEW e \in OpenAmong(1 .. logged),
                        NEW x \in Calls(e) \cap Mentioned(e)
                 PROVE  x \in led \union excused \/ (x = Attn /\ Conflict)
    BY DEF OpenIsLit
  <2>2. e \in Events
    <3>1. e \in 1 .. logged
      BY DEF OpenAmong
    <3> QED
      BY <2>1, <3>1, ConstantsAssumption DEF IInv, TypeOK, LogType, Events
  <2> QED
    BY <2>1, <2>2, NothingPending DEF IInv, OpenInv, WillLight
<1> QED
  BY <1>1, InitInv, NextInv, PTL DEF Spec

(* And nothing is lit that no open event mentions, with the exceptions of  *)
(* LitIsOpen; every variable keeps its type.                               *)
THEOREM OnlyOpenEventsLit == Spec => []LitIsOpen
<1>1. IInv => LitIsOpen
  <2>1. SUFFICES ASSUME IInv, AtRest, NEW x \in led \ excused
                 PROVE  \/ \E e \in OpenAmong(1 .. logged) : x \in Mentioned(e)
                        \/ \E e \in 1 .. logged : x \in Calls(e) \ Mentioned(e)
    BY DEF LitIsOpen, IInv
  <2> QED
    BY <2>1, NothingPending DEF IInv, LitInv, WillReadOrSwitchOff
<1> QED
  BY <1>1, InitInv, NextInv, PTL DEF Spec

-----------------------------------------------------------------------------
(* The indicators: every process works on one list that the platform has   *)
(* had, and changes what it was given, as asked.                           *)

Stages == {"idle", "mode", "list", "ses", "mv", "find", "read", "set", "again", "last", "done",
           "crashed"}
Retrieving == {"idle", "mode", "list", "ses", "mv", "find"}
OnEntries == {"read", "set", "again", "last"}
IsCall(r) ==
  /\ DOMAIN r = {"pc", "cmd", "mode", "list", "idx", "gen", "cur", "st", "io", "buf", "rc",
                 "shown", "failed", "killed", "with"}
  /\ r.pc \in Stages /\ r.cmd \in Commands /\ r.mode \in {"path", "guiding"}
  /\ r.list \in Seq(Indicators) /\ r.idx \in Nat \ {0} /\ r.gen \in Nat /\ r.cur \in Nat
  /\ r.st \in BOOLEAN /\ r.io \in 0 .. 4 /\ r.buf \in SUBSET Nat /\ r.rc \in {0, 1}
  /\ r.shown \in Seq({"on", "off", "unknown"}) /\ r.failed \in BOOLEAN
  /\ r.killed \in SUBSET SesLeds /\ r.with \in SUBSET Procs
Entries == Seq(Indicators \ Mv)

(* What every variable holds.                                              *)
StateInv ==
  /\ platform \in {"rtas", "opal"} /\ opalMode \in OpalModes \union {"unread"}
  /\ gen \in 0 .. MaxPlug /\ fails \in 0 .. MaxFail /\ raced \in BOOLEAN
  /\ lit \in [LedTypes -> SUBSET (Indicators \ Mv)]
  /\ reg \in [Regs -> SUBSET Nat] /\ addr \in Regs
  /\ DOMAIN proc = Procs
  /\ rtasList \in [LedTypes -> Entries] /\ history \in [LedTypes -> SUBSET Entries]

(* The platform's lists name its own indicators, each once.                *)
PlatformInv ==
  \A t \in LedTypes : /\ IsInjective(rtasList[t]) /\ Range(rtasList[t]) \subseteq RtasLights
                      /\ rtasList[t] \in history[t]

(* Where a process stands: the entry it is at, and that only a command with *)
(* something to set sets it.                                               *)
PlaceInv(r) ==
  /\ r.pc = "idle" => r.list = <<>> /\ r.idx = 1
  /\ r.pc \in Retrieving => r.cur = 0 /\ r.io = 0 /\ r.shown = <<>>
  /\ r.pc \in OnEntries => r.cur \in 1 .. Len(r.list)
  /\ r.pc \in {"done", "crashed"} => r.cur \in 0 .. Len(r.list) /\ r.io = 0
  /\ r.io > 0 => r.list[r.cur] \in Mv
  /\ r.pc = "mode" => r.cmd.type = "fault"
  /\ r.pc = "last" => /\ r.cmd.kind \in {"all", "setall"} /\ r.cmd.type = "ident"
                      /\ ~r.cmd.val /\ r.cur = 1
  /\ r.cmd.kind = "print" => r.pc \notin {"set", "again"}
  /\ r.cmd.kind = "setall" => r.pc # "again"
  /\ r.cmd.kind = "check" => r.pc \notin {"read", "again"}

(* The list while the platform is asked for it, work area by work area.    *)
AreaInv(r) ==
  r.pc \in {"mode", "list"} =>
    IF platform = "opal" THEN r.list = <<>> /\ r.idx = 1
    ELSE /\ Range(r.list) \subseteq RtasLights /\ r.gen <= gen
         /\ r.idx = 1 => r.list = <<>>
         /\ r.idx > 1 /\ r.gen = gen =>
              /\ r.idx - 1 \in 0 .. Len(rtasList[r.cmd.type])
              /\ r.list = SubSeq(rtasList[r.cmd.type], 1, r.idx - 1)

(* The list from then on: one that the platform has had, what the          *)
(* enclosures so far have, and the disks so far; none twice.               *)
FromEnclosure(l, n) == \E j \in DOMAIN Enclosures : /\ j < n /\ SesOnce(j)
                                                   /\ l \in Range(Enclosures[j].leds)
FromBlock(l, n) == \E j \in DOMAIN Blocks : j < n /\ l = Blocks[j].dev
OneList(r) ==
  \E n \in 0 .. Len(r.list) :
    /\ SubSeq(r.list, 1, n) \in history[r.cmd.type]
    /\ \A i \in DOMAIN r.list : i > n => r.list[i] \notin RtasLights
ListInv(r) ==
  /\ platform = "rtas" => r.pc # "mv"
  /\ r.pc \in {"ses", "mv", "find"} \union OnEntries =>
       /\ IsInjective(r.list)
       /\ platform = "rtas" => OneList(r)
  /\ r.pc = "ses" => \A i \in DOMAIN r.list :
       r.list[i] \in PlatformLights \/ FromEnclosure(r.list[i], r.idx)
  /\ r.pc = "mv" => \A i \in DOMAIN r.list : r.list[i] \in Mv => FromBlock(r.list[i], r.idx)
  /\ r.cmd.type = "fault" => Range(r.list) \cap Mv = {}

(* Alone in the registers, a process has what it read and selected.        *)
AloneInv ==
  ~raced =>
    /\ \A p, q \in Procs : Inside(p) /\ Inside(q) => p = q
    /\ \A p \in Procs : Inside(p) =>
         /\ (proc[p].io = 1 \/ (Setting(p) /\ proc[p].io = 3)) => addr = "out"
         /\ proc[p].io >= 2 /\ (Setting(p) => proc[p].io # 4) => proc[p].buf = reg["out"]

(* A command works on the disk it means.                                   *)
Meant(r) ==
  r.cmd.kind = "set" /\ r.pc \in {"read", "set", "again"} /\ r.list[r.cur] \in Mv =>
    IF r.cmd.dev = NoDev
    THEN \A i \in DOMAIN r.list : LocOf[r.list[i]] = LocOf[r.list[r.cur]] => i = r.cur
    ELSE r.list[r.cur] = r.cmd.dev

CallInv(r) == IsCall(r) /\ PlaceInv(r) /\ AreaInv(r) /\ ListInv(r) /\ Meant(r)
IndicatorInv ==
  /\ StateInv /\ PlatformInv /\ AloneInv
  /\ \A p \in Procs : p \notin proc[p].with /\ CallInv(proc[p])

(* Processes that run at the same time know of each other.                 *)
WithInv ==
  \A p, q \in Procs :
    /\ p # q /\ Running(p) /\ Running(q) => q \in proc[p].with
    /\ q \in proc[p].with => proc[q].pc # "idle"

(* The lights of its list that a process has as it was asked, or that       *)
(* another command or a killed encl_led keeps it from.                     *)
Satisfied(p) == {l \in Range(proc[p].list) :
                   Lit(Cmd(p).type, l) = Cmd(p).val \/ Disturbed(p, l) \/ l \in proc[p].killed}

(* Those that a call must have by the place where it stands: what it has    *)
(* just set, what it has set or found as asked, what it has gone through;   *)
(* and what it has shown.                                                  *)
Asked(r, D) ==
  /\ r.pc \in {"set", "last"} /\ r.io = 4 => r.list[r.cur] \in D
  /\ r.pc = "again" /\ (r.cmd.kind = "set" \/ ~r.failed) => r.list[r.cur] \in D
  /\ r.cmd.kind \in {"all", "setall"} /\ ~r.failed =>
       /\ r.pc \in {"read", "set", "again"} => \A i \in 1 .. (r.cur - 1) : r.list[i] \in D
       /\ r.pc = "last" => \A i \in DOMAIN r.list : r.list[i] \in D
  /\ r.cmd.kind \in {"all", "print"} =>
       /\ r.pc \in {"read", "set", "again"} => Len(r.shown) = r.cur - 1
       /\ r.pc = "last" => Len(r.shown) = Len(r.list)
DoneInv == WithInv /\ \A p \in Procs : Asked(proc[p], Satisfied(p))

(* The same of a call that ends, and what a step of a call keeps.           *)
Ended(r, D) ==
  r.pc = "done" =>
    /\ r.cmd.kind \in {"set", "check"} /\ r.rc = 0 => r.list[r.cur] \in D
    /\ r.cmd.kind \in {"all", "setall"} /\ ~r.failed => \A i \in DOMAIN r.list : r.list[i] \in D
    /\ r.cmd.kind \in {"all", "print"} /\ ~r.failed => Len(r.shown) = Len(r.list)
Goes(r, s) ==
  /\ s.with = r.with /\ s.cmd = r.cmd /\ s.pc # "idle"
  /\ r.cur # 0 \/ (s.pc = "done" /\ ~(s.rc = 1 /\ s.failed))
     => s.list = r.list /\ (r.cmd.kind \in {"set", "check"} => s.cur = r.cur)
  /\ r.cur # 0 => s.cur # 0

(* The least member of a set of numbers.                                   *)
LEMMA LeastIn ==
  ASSUME NEW S \in SUBSET Nat, S # {}
  PROVE  Min(S) \in S /\ \A y \in S : Min(S) <= y
<1>1. PICK m \in S : \A k \in S : ~(<<k, m>> \in OpToRel(<, Nat))
  BY NatLessThanWellFounded, WFMin
<1>2. \A k \in S : ~(k < m)
  BY <1>1, S \subseteq Nat DEF OpToRel
<1>3. \A k \in S : m <= k
  BY <1>2, S \subseteq Nat
<1> QED
  BY <1>3 DEF Min

-----------------------------------------------------------------------------
(* A command that works on its entries.                                    *)

(* Showing a state.                                                        *)
LEMMA ShowCall ==
  ASSUME NEW r, CallInv(r), r.pc \in OnEntries, NEW ok \in BOOLEAN
  PROVE  CallInv(Show(r, ok))
<1>1. IsCall(Show(r, ok))
  <2> DEFINE w == IF ok THEN IF r.st THEN "on" ELSE "off" ELSE "unknown"
             rc == IF ok THEN 0 ELSE 1
  <2>1. w \in {"on", "off", "unknown"} /\ rc \in {0, 1}
    OBVIOUS
  <2>2. Show(r, ok) = [r EXCEPT !.shown = Append(@, w), !.rc = rc]
    BY DEF Show
  <2> HIDE DEF w, rc
  <2> QED
    BY <2>1, <2>2 DEF CallInv, IsCall
<1>2. PlaceInv(Show(r, ok))
  BY DEF CallInv, IsCall, PlaceInv, Show, OnEntries, Retrieving
<1>3. AreaInv(Show(r, ok))
  BY DEF CallInv, IsCall, AreaInv, Show
<1>4. ListInv(Show(r, ok))
  BY DEF CallInv, IsCall, ListInv, OneList, Show
<1>5. Meant(Show(r, ok))
  BY DEF CallInv, IsCall, Meant, Show
<1> QED
  BY <1>1, <1>2, <1>3, <1>4, <1>5 DEF CallInv

(* The next entry, for the commands that go through them.                  *)
LEMMA AdvanceCall ==
  ASSUME NEW r, CallInv(r), r.pc \in OnEntries, r.io = 0, r.cmd.kind \in {"print", "all", "setall"}
  PROVE  CallInv(Advance(r))
<1>0. r.cur \in 1 .. Len(r.list) /\ Len(r.list) \in Nat
  BY DEF CallInv, PlaceInv, IsCall
<1>1. IsCall(Advance(r))
  BY <1>0 DEF CallInv, IsCall, Advance, Stages
<1>2. PlaceInv(Advance(r))
  BY <1>0 DEF CallInv, IsCall, PlaceInv, Advance, OnEntries, Retrieving
<1>3. AreaInv(Advance(r))
  BY DEF CallInv, IsCall, AreaInv, Advance, OnEntries
<1>4. ListInv(Advance(r))
  BY DEF CallInv, IsCall, ListInv, OneList, Advance, OnEntries
<1>5. Meant(Advance(r))
  BY DEF CallInv, IsCall, Meant, Advance
<1> QED
  BY <1>1, <1>2, <1>3, <1>4, <1>5 DEF CallInv

(* What a call keeps from its place to the next.                           *)
Kept(r, s) == /\ s.list = r.list /\ s.cmd = r.cmd /\ s.with = r.with /\ s.io = 0
              /\ s.killed = r.killed

(* Another place among the entries, or the end.                            *)
LEMMA MoveCall ==
  ASSUME NEW r, CallInv(r), r.pc \in OnEntries,
         NEW s, IsCall(s), Kept(r, s), s.cur = r.cur, s.pc \in {"set", "again", "done"},
         s.pc = "set" => r.cmd.kind # "print",
         s.pc = "again" => r.cmd.kind \in {"set", "all"},
         r.cmd.kind = "set" => r.pc # "last"
  PROVE  CallInv(s)
<1>0. r.cur \in 1 .. Len(r.list) /\ Len(r.list) \in Nat
  BY DEF CallInv, PlaceInv, IsCall, OnEntries
<1>1. PlaceInv(s)
  BY <1>0 DEF CallInv, IsCall, PlaceInv, OnEntries, Retrieving, Kept
<1>2. AreaInv(s)
  BY DEF CallInv, IsCall, AreaInv
<1>3. ListInv(s)
  BY DEF CallInv, IsCall, ListInv, OneList, OnEntries, Kept
<1>4. Meant(s)
  BY DEF CallInv, IsCall, Meant, Kept, OnEntries
<1> QED
  BY <1>1, <1>2, <1>3, <1>4 DEF CallInv

(* What does not move a call on its entries does not matter.               *)
LEMMA WorkCall ==
  ASSUME NEW r, CallInv(r), r.pc \in OnEntries,
         NEW s, IsCall(s), Kept(r, s), s.cur = r.cur, s.pc = r.pc
  PROVE  CallInv(s)
<1>1. PlaceInv(s)
  BY DEF CallInv, IsCall, PlaceInv, OnEntries, Retrieving, Kept
<1>2. AreaInv(s)
  BY DEF CallInv, IsCall, AreaInv, OnEntries
<1>3. ListInv(s)
  BY DEF CallInv, IsCall, ListInv, OneList, OnEntries, Kept
<1>4. Meant(s)
  BY DEF CallInv, IsCall, Meant, Kept, OnEntries
<1> QED
  BY <1>1, <1>2, <1>3, <1>4 DEF CallInv

(* What a caller makes of the state it read.                               *)
LEMMA GotCall ==
  ASSUME NEW p \in Procs, CallInv(proc[p]), Reading(p), NEW ok \in BOOLEAN, NEW v \in BOOLEAN
  PROVE  CallInv(GotState(p, ok, v)) /\ Kept(proc[p], GotState(p, ok, v))
<1> DEFINE r == [proc[p] EXCEPT !.st = v, !.io = 0, !.buf = {}, !.failed = @ \/ ~ok]
           g == GotState(p, ok, v)
<1>1. CallInv(r) /\ r.pc = proc[p].pc /\ Kept(proc[p], r) /\ r.pc \in {"read", "again"}
  <2>1. IsCall(r) /\ Kept(proc[p], r) /\ r.pc = proc[p].pc /\ r.cur = proc[p].cur
    BY DEF CallInv, IsCall, Kept
  <2>2. r.pc \in {"read", "again"}
    BY <2>1 DEF Reading
  <2> HIDE DEF r
  <2>3. CallInv(r)
    BY <2>1, <2>2, WorkCall DEF OnEntries
  <2> QED
    BY <2>1, <2>2, <2>3
<1>2. g = CASE r.cmd.kind = "print" -> PrintOnly(r, ok)
            [] r.cmd.kind = "set" -> OneState(r, ok)
            [] r.cmd.kind = "all" -> AllState(r, ok)
            [] OTHER -> set_all_indicator_state(r, ok)
  BY DEF GotState
<1>3. r.cmd.kind \in {"print", "set", "all", "setall"} /\ r.pc \in OnEntries
  BY <1>1, CommandsAssumption DEF CallInv, IsCall, PlaceInv, OnEntries
<1> HIDE DEF r, g
<1> DEFINE h == Show(r, ok)
<1>4. CallInv(h) /\ Kept(proc[p], h) /\ h.pc = r.pc /\ h.cmd = r.cmd
  BY <1>1, <1>3, ShowCall DEF Kept, Show, CallInv, IsCall
<1> HIDE DEF h
<1>5. ASSUME r.cmd.kind \in {"print", "all", "setall"}, NEW s \in {r, h}
      PROVE  CallInv(Advance(s)) /\ Kept(proc[p], Advance(s))
  <2>1. CallInv(s) /\ s.pc \in OnEntries /\ s.io = 0 /\ Kept(proc[p], s) /\ s.cmd.kind = r.cmd.kind
    BY <1>1, <1>3, <1>4 DEF Kept
  <2>2. CallInv(Advance(s))
    BY <1>5, <2>1, AdvanceCall
  <2> QED
    BY <2>1, <2>2 DEF Kept, Advance, CallInv, IsCall
<1>6. ASSUME NEW s \in {r, h}, NEW x \in {"set", "again", "done"},
             x = "set" => r.cmd.kind # "print", x = "again" => r.cmd.kind \in {"set", "all"}
      PROVE  CallInv([s EXCEPT !.pc = x]) /\ Kept(proc[p], [s EXCEPT !.pc = x])
  <2>1. CallInv(s) /\ s.pc \in OnEntries /\ s.pc # "last" /\ Kept(proc[p], s) /\ s.cmd = r.cmd
    BY <1>1, <1>3, <1>4
  <2> DEFINE u == [s EXCEPT !.pc = x]
  <2>2. IsCall(u) /\ Kept(s, u) /\ Kept(proc[p], u) /\ u.cur = s.cur /\ u.pc = x
    BY <2>1 DEF Kept, CallInv, IsCall, Stages
  <2> HIDE DEF u
  <2>3. CallInv(u)
    BY <1>6, <2>1, <2>2, MoveCall
  <2> QED
    BY <2>2, <2>3 DEF u
<1>7. CASE r.cmd.kind = "print"
  <2>1. g = Advance(h)
    BY <1>2, <1>7 DEF PrintOnly, h
  <2> QED
    BY <1>5, <1>7, <2>1 DEF g
<1>8. CASE r.cmd.kind = "set"
  <2>1. g = [h EXCEPT !.pc = "done"] \/ g = [r EXCEPT !.pc = "set"] \/ g = [r EXCEPT !.pc = "again"]
    BY <1>2, <1>8 DEF OneState, h
  <2> QED
    BY <1>6, <1>8, <2>1 DEF g
<1>9. CASE r.cmd.kind = "all"
  <2>1. g = [r EXCEPT !.pc = "set"] \/ g = Advance(h)
    BY <1>2, <1>9 DEF AllState, h
  <2> QED
    BY <1>5, <1>6, <1>9, <2>1 DEF g
<1>10. CASE r.cmd.kind = "setall"
  <2>1. g = [r EXCEPT !.pc = "set"] \/ g = Advance(r)
    BY <1>2, <1>10 DEF set_all_indicator_state
  <2> QED
    BY <1>5, <1>6, <1>10, <2>1 DEF g
<1> QED
  BY <1>3, <1>7, <1>8, <1>9, <1>10 DEF g

(* What a caller makes of the outcome of a set.                            *)
LEMMA SetCall ==
  ASSUME NEW p \in Procs, CallInv(proc[p]), Setting(p), NEW ok \in BOOLEAN
  PROVE  CallInv(SetState(p, ok)) /\ Kept(proc[p], SetState(p, ok))
<1> DEFINE r == [proc[p] EXCEPT !.io = 0, !.buf = {}, !.failed = @ \/ ~ok]
           g == SetState(p, ok)
<1>1. CallInv(r) /\ r.pc = proc[p].pc /\ Kept(proc[p], r) /\ r.pc \in {"set", "last"}
  <2>1. IsCall(r) /\ Kept(proc[p], r) /\ r.pc = proc[p].pc /\ r.cur = proc[p].cur
    BY DEF CallInv, IsCall, Kept
  <2>2. r.pc \in {"set", "last"}
    BY <2>1 DEF Setting
  <2> HIDE DEF r
  <2>3. CallInv(r)
    BY <2>1, <2>2, WorkCall DEF OnEntries
  <2> QED
    BY <2>1, <2>2, <2>3
<1>2. g = IF r.pc = "last" THEN [r EXCEPT !.pc = "done"] ELSE
          CASE r.cmd.kind = "set" -> IF ok THEN [r EXCEPT !.pc = "again"] ELSE Failed(r)
            [] r.cmd.kind = "all" -> [r EXCEPT !.pc = "again"]
            [] r.cmd.kind = "setall" -> Advance(r)
            [] OTHER -> [r EXCEPT !.pc = "done", !.rc = IF ok THEN 0 ELSE 1]
  BY DEF SetState
<1>3. /\ r.cmd.kind \in {"set", "all", "setall", "check"} /\ r.pc \in OnEntries
      /\ r.pc = "last" => r.cmd.kind \in {"all", "setall"}
  BY <1>1, CommandsAssumption DEF CallInv, IsCall, PlaceInv, OnEntries
<1> HIDE DEF r, g
<1>4. ASSUME NEW s, IsCall(s), Kept(r, s), s.cur = r.cur, s.pc \in {"again", "done"},
             s.pc = "again" => r.cmd.kind \in {"set", "all"}
      PROVE  CallInv(s) /\ Kept(proc[p], s)
  BY <1>1, <1>3, <1>4, MoveCall DEF Kept
<1>5. ASSUME NEW x \in {"again", "done"}, x = "again" => r.cmd.kind \in {"set", "all"}
      PROVE  CallInv([r EXCEPT !.pc = x]) /\ Kept(proc[p], [r EXCEPT !.pc = x])
  <2> DEFINE u == [r EXCEPT !.pc = x]
  <2>1. IsCall(u) /\ Kept(r, u) /\ u.cur = r.cur /\ u.pc = x
    BY <1>1 DEF Kept, CallInv, IsCall, Stages
  <2> HIDE DEF u
  <2>2. CallInv(u) /\ Kept(proc[p], u)
    BY <1>4, <1>5, <2>1
  <2> QED
    BY <2>2 DEF u
<1>6. CASE r.pc = "last"
  BY <1>2, <1>5, <1>6 DEF g
<1>7. CASE r.pc = "set" /\ r.cmd.kind = "set" /\ ok
  BY <1>2, <1>5, <1>7 DEF g
<1>8. CASE r.pc = "set" /\ r.cmd.kind = "set" /\ ~ok
  <2>1. g = Failed(r)
    BY <1>2, <1>8
  <2>2. IsCall(g) /\ Kept(r, g) /\ g.cur = r.cur /\ g.pc = "done"
    BY <1>1, <2>1 DEF Failed, Kept, CallInv, IsCall, Stages
  <2> QED
    BY <1>4, <2>2 DEF g
<1>9. CASE r.pc = "set" /\ r.cmd.kind = "all"
  BY <1>2, <1>5, <1>9 DEF g
<1>10. CASE r.pc = "set" /\ r.cmd.kind = "setall"
  <2>1. g = Advance(r)
    BY <1>2, <1>10
  <2>2. CallInv(Advance(r))
    BY <1>1, <1>3, <1>10, AdvanceCall DEF Kept
  <2>3. Advance(r).list = r.list /\ Advance(r).cmd = r.cmd /\ Advance(r).with = r.with
    BY <1>1 DEF Advance, CallInv, IsCall
  <2>4. Advance(r).io = r.io /\ Advance(r).killed = r.killed
    BY <1>1 DEF Advance, CallInv, IsCall
  <2>5. CallInv(g) /\ Kept(proc[p], g)
    BY <1>1, <2>1, <2>2, <2>3, <2>4 DEF Kept
  <2> QED
    BY <2>5 DEF g
<1>11. CASE r.pc = "set" /\ r.cmd.kind = "check"
  <2>1. g = [r EXCEPT !.pc = "done", !.rc = IF ok THEN 0 ELSE 1]
    BY <1>2, <1>11
  <2>2. IsCall(g) /\ Kept(r, g) /\ g.cur = r.cur /\ g.pc = "done"
    BY <1>1, <2>1 DEF Kept, CallInv, IsCall, Stages
  <2> QED
    BY <1>4, <2>2 DEF g
<1> QED
  BY <1>1, <1>3, <1>6, <1>7, <1>8, <1>9, <1>10, <1>11 DEF g

-----------------------------------------------------------------------------
(* A command that puts its list together.                                  *)

(* What is not about the list follows.                                     *)
LEMMA BuildCall ==
  ASSUME NEW r, CallInv(r), r.pc \in Retrieving,
         NEW s, IsCall(s), s.cmd = r.cmd, s.cur = r.cur, s.io = r.io, s.shown = r.shown,
         s.pc \in {"mode", "list", "ses", "mv", "find", "done"}, s.pc = "mode" => r.pc = "mode",
         AreaInv(s), ListInv(s)
  PROVE  CallInv(s)
<1>0. s.cur = 0 /\ s.io = 0 /\ s.shown = <<>> /\ Len(s.list) \in Nat
  BY DEF CallInv, PlaceInv, IsCall
<1>1. PlaceInv(s)
  BY <1>0 DEF CallInv, PlaceInv, Retrieving, OnEntries
<1>2. Meant(s)
  BY DEF Meant
<1> QED
  BY <1>1, <1>2 DEF CallInv

(* A command that fails before it has its list.                            *)
LEMMA FailedCall ==
  ASSUME NEW r, CallInv(r), r.pc \in Retrieving
  PROVE  CallInv(Failed(r)) /\ Failed(r).with = r.with /\ Failed(r).io = 0
<1> DEFINE s == Failed(r)
<1>1. IsCall(s) /\ s.cmd = r.cmd /\ s.cur = r.cur /\ s.io = r.io /\ s.shown = r.shown
      /\ s.pc = "done" /\ s.list = r.list /\ s.with = r.with
  BY DEF CallInv, IsCall, Failed, Stages
<1>2. AreaInv(s)
  BY <1>1 DEF AreaInv
<1>3. ListInv(s)
  BY <1>1 DEF CallInv, ListInv, OnEntries
<1>4. r.io = 0
  BY DEF CallInv, PlaceInv
<1> HIDE DEF s
<1>5. CallInv(s)
  <2>1. s.pc \in {"mode", "list", "ses", "mv", "find", "done"} /\ s.pc # "mode"
    BY <1>1
  <2> QED
    BY <1>1, <1>2, <1>3, <2>1, BuildCall
<1> QED
  BY <1>1, <1>4, <1>5 DEF s

(* The platform's list, as far as it has been received.                    *)
LEMMA AreaList ==
  ASSUME StateInv, PlatformInv, platform = "rtas", NEW p \in Procs, CallInv(proc[p]),
         proc[p].pc \in {"mode", "list"}, proc[p].idx = 1 \/ proc[p].gen = gen
  PROVE  LET r == proc[p]
             all == rtasList[r.cmd.type]
             last == Min({r.idx + Chunk - 1, Len(all)})
         IN  /\ last \in 0 .. Len(all) /\ (last < Len(all) => last >= 1)
             /\ parse_rtas_workarea(r.list, all, r.idx) = SubSeq(all, 1, last)
<1> DEFINE r == proc[p]
           all == rtasList[r.cmd.type]
           last == Min({r.idx + Chunk - 1, Len(all)})
<1>1. /\ r.idx \in Nat \ {0} /\ r.cmd.type \in LedTypes /\ r.list \in Seq(Indicators)
      /\ Chunk \in Nat \ {0}
  BY CommandsAssumption, BoundsAssumption DEF CallInv, IsCall
<1>2. all \in Seq(Indicators \ Mv) /\ Len(all) \in Nat
  BY <1>1 DEF StateInv, Entries
<1>3. /\ r.idx = 1 => r.list = <<>>
      /\ r.idx > 1 => r.idx - 1 \in 0 .. Len(all) /\ r.list = SubSeq(all, 1, r.idx - 1)
  BY DEF CallInv, AreaInv
<1> HIDE DEF r, all
<1>4. last \in {r.idx + Chunk - 1, Len(all)} /\ last <= r.idx + Chunk - 1 /\ last <= Len(all)
  <2>1. {r.idx + Chunk - 1, Len(all)} \in SUBSET Nat
    BY <1>1, <1>2
  <2> QED
    BY <2>1, LeastIn
<1> HIDE DEF last
<1>5. last \in 0 .. Len(all) /\ (last < Len(all) => last >= 1) /\ r.idx - 1 <= last
  BY <1>1, <1>2, <1>3, <1>4
<1>6. r.list \o SubSeq(all, r.idx, last) = SubSeq(all, 1, last)
  <2>1. CASE r.idx = 1
    <3>1. SubSeq(all, r.idx, last) \in Seq(Indicators \ Mv)
      BY <1>2, <1>5, <2>1, SubSeqProperties
    <3> QED
      BY <1>3, <2>1, <3>1, ConcatEmptySeq
  <2>2. CASE r.idx > 1
    <3>0. 1 \in 1 .. Len(all) + 1 /\ r.idx - 1 \in 1 - 1 .. Len(all) /\ last \in r.idx - 1 .. Len(all)
      BY <1>1, <1>2, <1>3, <1>5, <2>2
    <3>1. SubSeq(all, 1, r.idx - 1) \o SubSeq(all, r.idx - 1 + 1, last) = SubSeq(all, 1, last)
      BY <1>2, <3>0, ConcatAdjacentSubSeq
    <3>2. r.idx - 1 + 1 = r.idx
      BY <1>1
    <3> QED
      BY <1>3, <2>2, <3>1, <3>2
  <2>3. r.idx = 1 \/ r.idx > 1
    BY <1>1
  <2> QED
    BY <2>1, <2>2, <2>3
<1>7. parse_rtas_workarea(r.list, all, r.idx) = r.list \o SubSeq(all, r.idx, last)
  BY DEF parse_rtas_workarea, last
<1> QED
  BY <1>5, <1>6, <1>7 DEF r, all, last

(* A call stays what it is while the platform's list stays.                *)
LEMMA CallHere ==
  ASSUME NEW q \in Procs, NEW r, CallInv(r), proc'[q] = r,
         UNCHANGED <<platform, rtasList, gen, history>>
  PROVE  CallInv(proc[q])'
<1>1. AreaInv(proc[q])'
  BY DEF CallInv, AreaInv
<1>2. ListInv(proc[q])'
  BY DEF CallInv, ListInv, OneList, FromEnclosure, FromBlock
<1>3. IsCall(proc[q])' /\ PlaceInv(proc[q])' /\ Meant(proc[q])'
  BY DEF CallInv
<1> QED
  BY <1>1, <1>2, <1>3 DEF CallInv

(* A work area, with what it makes of the call.                            *)
LEMMA RtasCall ==
  ASSUME IndicatorInv, NEW p \in Procs, GetRtasIndices(p)
  PROVE  \E s : /\ CallInv(s) /\ s.with = proc[p].with /\ s.io = 0
                /\ proc' = [proc EXCEPT ![p] = s]
<1> DEFINE r == proc[p]
           t == r.cmd.type
           all == rtasList[t]
           last == Min({r.idx + Chunk - 1, Len(all)})
           more == [r EXCEPT !.list = parse_rtas_workarea(@, all, r.idx), !.gen = gen, !.idx = last + 1]
<1>0. /\ platform = "rtas" /\ r.pc \in {"mode", "list"} /\ CallInv(r) /\ StateInv /\ PlatformInv
      /\ r.cmd.type \in LedTypes /\ r.io = 0
  BY CommandsAssumption DEF GetRtasIndices, IndicatorInv, CallInv, IsCall, PlaceInv, Retrieving
<1>1. CASE Local(p, Failed(r))
  BY <1>0, <1>1, FailedCall DEF Local, Retrieving
<1>2. CASE Local(p, StartOver(p, r))
  <2> DEFINE s == StartOver(p, r)
  <2>1. /\ IsCall(s) /\ s.cmd = r.cmd /\ s.cur = r.cur /\ s.io = r.io /\ s.shown = r.shown
        /\ s.pc = r.pc /\ s.list = <<>> /\ s.idx = 1 /\ s.with = r.with /\ s.gen = r.gen
    BY <1>0 DEF CallInv, IsCall, StartOver
  <2>2. AreaInv(s)
    BY <1>0, <2>1 DEF CallInv, AreaInv, Range
  <2>3. ListInv(s)
    BY <1>0, <2>1 DEF CallInv, ListInv, OnEntries, Range
  <2> HIDE DEF s
  <2>4. CallInv(s)
    BY <1>0, <2>1, <2>2, <2>3, BuildCall DEF Retrieving
  <2> QED
    BY <1>0, <1>2, <2>1, <2>4 DEF Local, s
<1>3. CASE /\ r.idx = 1 \/ r.gen = gen
           /\ more.list # <<>>
           /\ Local(p, IF last < Len(all) THEN more ELSE Retrieved(more))
  <2>1. /\ last \in 0 .. Len(all) /\ (last < Len(all) => last >= 1)
        /\ parse_rtas_workarea(r.list, all, r.idx) = SubSeq(all, 1, last)
    BY <1>0, <1>3, AreaList
  <2>2. /\ all \in Seq(Indicators \ Mv) /\ Len(all) \in Nat /\ IsInjective(all) /\ all \in history[t]
        /\ Range(all) \subseteq RtasLights /\ gen \in Nat
    BY <1>0, BoundsAssumption DEF StateInv, PlatformInv, Entries
  <2> HIDE DEF all, last
  <2>3. /\ SubSeq(all, 1, last) \in Seq(Indicators \ Mv)
        /\ \A i \in DOMAIN SubSeq(all, 1, last) : i \in DOMAIN all /\ SubSeq(all, 1, last)[i] = all[i]
    <3>1. \A i \in 1 .. last : all[i] \in Indicators \ Mv
      BY <2>1, <2>2
    <3>2. /\ SubSeq(all, 1, last) \in Seq(Indicators \ Mv)
          /\ Len(SubSeq(all, 1, last)) = (IF 1 <= last THEN last - 1 + 1 ELSE 0)
          /\ \A i \in 1 .. (last - 1 + 1) : SubSeq(all, 1, last)[i] = all[1 + i - 1]
      BY <2>1, <3>1, SubSeqProperties
    <3> QED
      BY <2>1, <2>2, <3>2
  <2>4. CASE last < Len(all)
    <3>1. /\ IsCall(more) /\ more.cmd = r.cmd /\ more.cur = r.cur /\ more.io = r.io /\ more.shown = r.shown
          /\ more.pc = r.pc /\ more.list = SubSeq(all, 1, last) /\ more.idx = last + 1
          /\ more.with = r.with /\ more.gen = gen
      <4>1. SubSeq(all, 1, last) \in Seq(Indicators) /\ last + 1 \in Nat \ {0}
        BY <2>1, <2>3, SeqMonotonic
      <4>2. more = [r EXCEPT !.list = SubSeq(all, 1, last), !.gen = gen, !.idx = last + 1]
        BY <2>1
      <4> QED
        BY <1>0, <2>2, <4>1, <4>2 DEF CallInv, IsCall
    <3> HIDE DEF more
    <3>2. AreaInv(more)
      <4>1. Range(more.list) \subseteq RtasLights
        BY <2>2, <2>3, <3>1 DEF Range
      <4>2. last = more.idx - 1 /\ more.idx > 1 /\ last \in 0 .. Len(all) /\ more.gen <= gen
        BY <2>1, <2>2, <2>4, <3>1
      <4>3. all = rtasList[more.cmd.type]
        BY <3>1 DEF all
      <4> QED
        BY <1>0, <3>1, <4>1, <4>2, <4>3 DEF AreaInv
    <3>3. ListInv(more)
      BY <1>0, <2>3, <3>1 DEF ListInv, OnEntries, Range
    <3>4. CallInv(more)
      BY <1>0, <3>1, <3>2, <3>3, BuildCall DEF Retrieving
    <3> QED
      BY <1>0, <1>3, <2>4, <3>1, <3>4 DEF Local
  <2>5. CASE last = Len(all)
    <3> DEFINE s == Retrieved(more)
    <3>1. /\ IsCall(s) /\ s.cmd = r.cmd /\ s.cur = r.cur /\ s.io = r.io /\ s.shown = r.shown
          /\ s.with = r.with /\ s.gen = gen /\ s.idx = 1
          /\ \/ r.pc = "mode" /\ s.pc = "list" /\ s.list = <<>>
             \/ s.pc \in {"ses", "find"} /\ s.list = SubSeq(all, 1, last)
      BY <1>0, <2>1, <2>2, <2>3 DEF CallInv, IsCall, Retrieved, Stages
    <3>2. SubSeq(all, 1, last) = all
      BY <2>2, <2>5, SubSeqFull
    <3> HIDE DEF s
    <3>3. AreaInv(s)
      BY <1>0, <2>2, <3>1 DEF AreaInv, Range
    <3>4. ListInv(s)
      <4>1. CASE s.list = <<>> /\ s.pc = "list"
        BY <1>0, <4>1 DEF ListInv, OnEntries, Range
      <4>2. CASE s.list = all /\ s.pc \in {"ses", "find"}
        <5>1. OneList(s)
          <6>1. Len(all) \in 0 .. Len(s.list) /\ SubSeq(s.list, 1, Len(all)) \in history[s.cmd.type]
            <7>1. SubSeq(s.list, 1, Len(all)) = all /\ Len(s.list) = Len(all)
              BY <2>5, <3>2, <4>2
            <7>2. s.cmd.type = t
              BY <3>1
            <7>3. Len(all) \in 0 .. Len(s.list)
              BY <2>2, <7>1
            <7>4. SubSeq(s.list, 1, Len(all)) \in history[s.cmd.type]
              <8>1. all \in history[t]
                BY <2>2
              <8> QED
                BY <7>1, <7>2, <8>1
            <7> QED
              BY <7>3, <7>4
          <6>2. \A i \in DOMAIN s.list : ~(i > Len(all))
            BY <2>2, <4>2
          <6> QED
            BY <6>1, <6>2 DEF OneList
        <5>2. \A i \in DOMAIN s.list : s.list[i] \in PlatformLights /\ s.list[i] \notin Mv
          BY <2>2, <4>2 DEF PlatformLights, Range
        <5> QED
          BY <1>0, <2>2, <4>2, <5>1, <5>2 DEF ListInv, Range
      <4> QED
        BY <3>1, <3>2, <4>1, <4>2
    <3>5. CallInv(s)
      BY <1>0, <3>1, <3>3, <3>4, BuildCall DEF Retrieving
    <3> QED
      <4>1. Local(p, s)
        <5>1. ~(last < Len(all))
          BY <2>2, <2>5
        <5> QED
          BY <1>3, <5>1 DEF s
      <4>2. s.io = 0
        BY <1>0, <3>1
      <4> QED
        BY <3>1, <3>5, <4>1, <4>2 DEF Local
  <2> QED
    BY <2>1, <2>2, <2>4, <2>5
<1> QED
  <2>1. \/ Local(p, StartOver(p, r))
        \/ (r.idx = 1 \/ r.gen = gen)
           /\ Local(p, IF more.list = <<>> THEN Failed(r)
                       ELSE IF last < Len(all) THEN more ELSE Retrieved(more))
        \/ Local(p, Failed(r))
    BY DEF GetRtasIndices, Cmd
  <2> QED
    BY <1>1, <1>2, <1>3, <2>1

(* Two lists that have nothing in common, one after the other.             *)
LEMMA ConcatOnce ==
  ASSUME NEW S, NEW a \in Seq(S), NEW b \in Seq(S), IsInjective(a), IsInjective(b),
         \A i \in DOMAIN a, j \in DOMAIN b : a[i] # b[j]
  PROVE  /\ a \o b \in Seq(S) /\ IsInjective(a \o b) /\ Len(a \o b) = Len(a) + Len(b)
         /\ \A i \in DOMAIN (a \o b) :
              \/ i \in DOMAIN a /\ (a \o b)[i] = a[i]
              \/ i > Len(a) /\ i - Len(a) \in DOMAIN b /\ (a \o b)[i] = b[i - Len(a)]
         /\ \A n \in 0 .. Len(a) : SubSeq(a \o b, 1, n) = SubSeq(a, 1, n)
<1> DEFINE c == a \o b
<1>1. /\ Len(a) \in Nat /\ Len(b) \in Nat /\ DOMAIN a = 1 .. Len(a) /\ DOMAIN b = 1 .. Len(b)
      /\ c \in Seq(S) /\ Len(c) = Len(a) + Len(b) /\ DOMAIN c = 1 .. Len(c)
  BY ConcatProperties
<1>2. \A i \in 1 .. Len(a) + Len(b) : c[i] = IF i <= Len(a) THEN a[i] ELSE b[i - Len(a)]
  BY ConcatProperties
<1> HIDE DEF c
<1>3. \A i \in DOMAIN c : \/ i \in DOMAIN a /\ i <= Len(a) /\ c[i] = a[i]
                          \/ i > Len(a) /\ i - Len(a) \in DOMAIN b /\ c[i] = b[i - Len(a)]
  BY <1>1, <1>2
<1>4. ASSUME NEW i \in DOMAIN c, NEW j \in DOMAIN c, c[i] = c[j]
      PROVE  i = j
  <2>1. CASE i <= Len(a) /\ j <= Len(a)
    BY <1>1, <1>3, <1>4, <2>1 DEF IsInjective
  <2>2. CASE i > Len(a) /\ j > Len(a)
    <3>1. i - Len(a) \in DOMAIN b /\ j - Len(a) \in DOMAIN b /\ b[i - Len(a)] = b[j - Len(a)]
      BY <1>1, <1>3, <1>4, <2>2
    <3>2. i - Len(a) = j - Len(a)
      BY <3>1 DEF IsInjective
    <3> QED
      BY <1>1, <3>2
  <2>3. ASSUME NEW x \in DOMAIN c, NEW y \in DOMAIN c, x <= Len(a), y > Len(a)
        PROVE  c[x] # c[y]
    BY <1>1, <1>3, <2>3
  <2> QED
    BY <1>1, <1>4, <2>1, <2>2, <2>3
<1>5. ASSUME NEW n \in 0 .. Len(a)
      PROVE  SubSeq(a \o b, 1, n) = SubSeq(a, 1, n)
  <2>1. CASE n = 0
    BY <2>1, SubSeqEmpty
  <2>2. CASE n # 0
    <3>1. 1 \in 1 .. Len(a) /\ n \in 1 .. Len(a)
      BY <1>1, <2>2
    <3> QED
      BY <3>1, SubSeqOfConcat1
  <2> QED
    BY <2>1, <2>2
<1> QED
  BY <1>1, <1>3, <1>4, <1>5 DEF c, IsInjective

(* The first lines of an enclosure.                                        *)
LEMMA FirstLines ==
  ASSUME NEW S, NEW a \in Seq(S), IsInjective(a), NEW n \in 0 .. Len(a)
  PROVE  /\ SubSeq(a, 1, n) \in Seq(S) /\ IsInjective(SubSeq(a, 1, n))
         /\ \A i \in DOMAIN SubSeq(a, 1, n) : i \in DOMAIN a /\ SubSeq(a, 1, n)[i] = a[i]
<1> DEFINE b == SubSeq(a, 1, n)
<1>1. Len(a) \in Nat /\ DOMAIN a = 1 .. Len(a) /\ \A i \in 1 .. n : a[i] \in S
  OBVIOUS
<1>2. /\ b \in Seq(S) /\ Len(b) = (IF 1 <= n THEN n - 1 + 1 ELSE 0)
      /\ \A i \in 1 .. (n - 1 + 1) : b[i] = a[1 + i - 1]
  BY <1>1, SubSeqProperties
<1>3. DOMAIN b = 1 .. n
  BY <1>1, <1>2
<1> HIDE DEF b
<1>4. \A i \in DOMAIN b : i \in DOMAIN a /\ b[i] = a[i]
  BY <1>1, <1>2, <1>3
<1> QED
  BY <1>2, <1>4 DEF b, IsInjective

(* The operating mode of OPAL.                                             *)
LEMMA ModeCall ==
  ASSUME IndicatorInv, NEW p \in Procs, GetOpalMode(p)
  PROVE  /\ opalMode' \in OpalModes
         /\ \E s : /\ CallInv(s) /\ s.with = proc[p].with /\ s.io = 0
                   /\ proc' = [proc EXCEPT ![p] = s]
<1> DEFINE r == proc[p]
           m == opalMode'
<1>0. /\ platform = "opal" /\ r.pc = "mode" /\ CallInv(r) /\ r.io = 0
      /\ m \in OpalModes
      /\ proc' = [proc EXCEPT ![p] = IF m = "bad" THEN Failed(r) ELSE [r EXCEPT !.mode = m, !.pc = "list"]]
  BY DEF GetOpalMode, IndicatorInv, CallInv, PlaceInv, Retrieving, StateInv
<1> HIDE DEF m
<1>1. CASE m = "bad"
  BY <1>0, <1>1, FailedCall DEF Retrieving, m
<1>2. CASE m # "bad"
  <2> DEFINE s == [r EXCEPT !.mode = m, !.pc = "list"]
  <2>1. /\ IsCall(s) /\ s.cmd = r.cmd /\ s.cur = r.cur /\ s.io = r.io /\ s.shown = r.shown
        /\ s.pc = "list" /\ s.list = r.list /\ s.idx = r.idx /\ s.with = r.with
    BY <1>0, <1>2 DEF CallInv, IsCall, Stages, OpalModes
  <2>2. AreaInv(s)
    BY <1>0, <2>1 DEF CallInv, AreaInv
  <2>3. ListInv(s)
    BY <1>0, <2>1 DEF CallInv, ListInv, OnEntries
  <2>4. proc' = [proc EXCEPT ![p] = s]
    BY <1>0, <1>2
  <2> HIDE DEF s
  <2>5. CallInv(s)
    BY <1>0, <2>1, <2>2, <2>3, BuildCall DEF Retrieving
  <2> QED
    BY <1>0, <2>1, <2>4, <2>5 DEF m
<1> QED
  BY <1>1, <1>2

(* The indicators of /sys/class/leds.                                      *)
LEMMA OpalCall ==
  ASSUME IndicatorInv, NEW p \in Procs, OpalGetIndices(p)
  PROVE  \E s : /\ CallInv(s) /\ s.with = proc[p].with /\ s.io = 0
                /\ proc' = [proc EXCEPT ![p] = s]
<1> DEFINE r == proc[p]
           t == r.cmd.type
           attn == IF t = "fault" THEN OpalAttn ELSE <<>>
           all == attn \o OpalLeds[t]
<1>0. /\ platform = "opal" /\ r.pc = "list" /\ CallInv(r) /\ r.io = 0 /\ t \in LedTypes /\ r.idx = 1
      /\ OpalLeds[t] \in Seq(Indicators \ Mv) /\ IsInjective(OpalLeds[t])
      /\ attn \in Seq(Indicators \ Mv) /\ IsInjective(attn)
      /\ \A i \in DOMAIN attn, j \in DOMAIN OpalLeds[t] : attn[i] # OpalLeds[t][j]
  <2>1. platform = "opal" /\ r.pc = "list" /\ CallInv(r)
    BY DEF OpalGetIndices, IndicatorInv
  <2>2. t \in LedTypes /\ r.io = 0 /\ r.idx = 1
    BY <2>1, CommandsAssumption DEF CallInv, IsCall, PlaceInv, Retrieving, AreaInv
  <2>3. attn \in Seq(Indicators \ Mv) /\ IsInjective(attn)
    BY PlatformAssumption DEF LightsOf, IsInjective
  <2>4. \A i \in DOMAIN attn, j \in DOMAIN OpalLeds[t] : attn[i] # OpalLeds[t][j]
    <3>1. CASE t = "fault"
      <4>1. Range(OpalAttn) \cap Range(OpalLeds["fault"]) = {} /\ attn = OpalAttn
        BY <3>1, PlatformAssumption
      <4> HIDE DEF attn
      <4> QED
        BY <3>1, <4>1 DEF Range
    <3>2. CASE t # "fault"
      BY <3>2
    <3> QED
      BY <3>1, <3>2
  <2> QED
    BY <2>1, <2>2, <2>3, <2>4, PlatformAssumption DEF LightsOf
<1>1. /\ all \in Seq(Indicators \ Mv) /\ IsInjective(all)
      /\ \A i \in DOMAIN all : all[i] \in PlatformLights
  <2>1. \A i \in DOMAIN attn : attn[i] \in PlatformLights
    BY DEF PlatformLights, Range
  <2>2. \A i \in DOMAIN OpalLeds[t] : OpalLeds[t][i] \in PlatformLights
    BY <1>0 DEF PlatformLights, Range
  <2> HIDE DEF attn
  <2>3. /\ all \in Seq(Indicators \ Mv) /\ IsInjective(all)
        /\ \A i \in DOMAIN all : \/ i \in DOMAIN attn /\ all[i] = attn[i]
                                 \/ i > Len(attn) /\ i - Len(attn) \in DOMAIN OpalLeds[t]
                                    /\ all[i] = OpalLeds[t][i - Len(attn)]
    BY <1>0, ConcatOnce
  <2> QED
    BY <2>1, <2>2, <2>3
<1>2. \/ Local(p, Failed(r))
      \/ Local(p, [r EXCEPT !.list = attn, !.pc = "find"])
      \/ Local(p, [r EXCEPT !.list = all, !.pc = "find"])
      \/ Local(p, [r EXCEPT !.list = all, !.pc = "ses"])
  BY <1>0 DEF OpalGetIndices, Cmd, OfFault, opal_get_indices
<1>3. \A i \in DOMAIN attn : attn[i] \in PlatformLights
  BY DEF PlatformLights, Range
<1> HIDE DEF attn, all
<1>4. ASSUME NEW l \in {attn, all}, NEW pc \in {"ses", "find"}, Local(p, [r EXCEPT !.list = l, !.pc = pc])
      PROVE  \E s : /\ CallInv(s) /\ s.with = proc[p].with /\ s.io = 0
                    /\ proc' = [proc EXCEPT ![p] = s]
  <2> DEFINE s == [r EXCEPT !.list = l, !.pc = pc]
  <2>1. l \in Seq(Indicators \ Mv) /\ l \in Seq(Indicators) /\ IsInjective(l) /\ \A i \in DOMAIN l : l[i] \in PlatformLights
    BY <1>0, <1>1, <1>3, SeqMonotonic
  <2>2. /\ IsCall(s) /\ s.cmd = r.cmd /\ s.cur = r.cur /\ s.io = r.io /\ s.shown = r.shown
        /\ s.pc = pc /\ s.list = l /\ s.with = r.with
    BY <1>0, <2>1 DEF CallInv, IsCall, Stages
  <2> HIDE DEF s
  <2>3. AreaInv(s)
    BY <2>2 DEF AreaInv
  <2>4. ListInv(s)
    BY <1>0, <2>1, <2>2 DEF ListInv, Range
  <2>5. CallInv(s)
    BY <1>0, <2>2, <2>3, <2>4, BuildCall DEF Retrieving
  <2> QED
    BY <1>0, <1>4, <2>2, <2>5 DEF Local, s
<1>5. CASE Local(p, Failed(r))
  BY <1>0, <1>5, FailedCall DEF Local, Retrieving
<1> QED
  BY <1>2, <1>4, <1>5

(* What an enclosure adds: lights that no list has yet.                    *)
LEMMA EnclosureLines ==
  ASSUME NEW r, CallInv(r), r.pc = "ses", r.idx \in DOMAIN Enclosures, SesOnce(r.idx),
         NEW n \in 0 .. Len(Enclosures[r.idx].leds)
  PROVE  LET l == ses_indicator_list(r.list, r.idx, n)
         IN  /\ l \in Seq(Indicators) /\ IsInjective(l) /\ Range(l) \cap Mv = {}
             /\ platform = "rtas" => OneList([r EXCEPT !.list = l])
             /\ \A i \in DOMAIN l : l[i] \in PlatformLights \/ FromEnclosure(l[i], r.idx + 1)
<1> DEFINE leds == Enclosures[r.idx].leds
           b == SubSeq(leds, 1, n)
           l == r.list \o b
<1>0. l = ses_indicator_list(r.list, r.idx, n)
  BY DEF ses_indicator_list
<1>1. leds \in Seq(Indicators \ Mv) /\ IsInjective(leds)
      /\ \A x \in Range(leds) : x \notin PlatformLights /\ x \notin Mv
  BY EnclosuresAssumption DEF LightsOf, SesOnce, Range
<1>2. /\ b \in Seq(Indicators \ Mv) /\ b \in Seq(Indicators) /\ IsInjective(b)
      /\ \A j \in DOMAIN b : b[j] \in Range(leds)
  <2>1. /\ b \in Seq(Indicators \ Mv) /\ IsInjective(b)
        /\ \A j \in DOMAIN b : j \in DOMAIN leds /\ b[j] = leds[j]
    BY <1>1, FirstLines
  <2> QED
    BY <2>1, SeqMonotonic DEF Range
<1>3. /\ r.list \in Seq(Indicators) /\ IsInjective(r.list) /\ r.idx \in Nat
      /\ \A i \in DOMAIN r.list : r.list[i] \in PlatformLights \/ FromEnclosure(r.list[i], r.idx)
      /\ platform = "rtas" => OneList(r)
  BY DEF CallInv, IsCall, ListInv
<1> HIDE DEF leds, b
<1>4. ASSUME NEW x, FromEnclosure(x, r.idx)
      PROVE  x \notin Range(leds) /\ x \notin Mv /\ FromEnclosure(x, r.idx + 1)
  <2>1. PICK j \in DOMAIN Enclosures : j < r.idx /\ SesOnce(j) /\ x \in Range(Enclosures[j].leds)
    BY <1>4 DEF FromEnclosure
  <2>2. Location(j) # Location(r.idx)
    BY <2>1, EnclosuresAssumption DEF SesOnce
  <2>3. x \notin Range(leds)
    BY <2>1, <2>2, EnclosuresAssumption DEF SesOnce, leds
  <2>4. x \notin Mv
    BY <2>1, EnclosuresAssumption DEF LightsOf, Range
  <2>5. j < r.idx + 1
    BY <1>3, <2>1, EnclosuresAssumption
  <2> QED
    BY <2>1, <2>3, <2>4, <2>5 DEF FromEnclosure
<1>5. \A i \in DOMAIN r.list, j \in DOMAIN b : r.list[i] # b[j]
  BY <1>1, <1>2, <1>3, <1>4
<1>6. /\ l \in Seq(Indicators) /\ IsInjective(l) /\ Len(l) = Len(r.list) + Len(b)
      /\ \A i \in DOMAIN l : \/ i \in DOMAIN r.list /\ l[i] = r.list[i]
                             \/ i > Len(r.list) /\ i - Len(r.list) \in DOMAIN b /\ l[i] = b[i - Len(r.list)]
      /\ \A k \in 0 .. Len(r.list) : SubSeq(l, 1, k) = SubSeq(r.list, 1, k)
  BY <1>2, <1>3, <1>5, ConcatOnce
<1> HIDE DEF l
<1>7. \A i \in DOMAIN l : l[i] \in PlatformLights \/ FromEnclosure(l[i], r.idx + 1)
  <2>1. \A x \in Range(leds) : FromEnclosure(x, r.idx + 1)
    BY <1>3, EnclosuresAssumption DEF FromEnclosure, leds
  <2> QED
    BY <1>2, <1>3, <1>4, <1>6, <2>1
<1>8. Range(l) \cap Mv = {}
  <2>1. \A x \in PlatformLights : x \notin Mv
    BY PlatformAssumption DEF PlatformLights, RtasLights, LightsOf, Range
  <2>2. \A x : FromEnclosure(x, r.idx + 1) => x \notin Mv
    BY EnclosuresAssumption DEF FromEnclosure, LightsOf, Range
  <2> QED
    BY <1>7, <2>1, <2>2 DEF Range
<1>9. ASSUME platform = "rtas"
      PROVE  OneList([r EXCEPT !.list = l])
  <2>1. PICK k \in 0 .. Len(r.list) :
           /\ SubSeq(r.list, 1, k) \in history[r.cmd.type]
           /\ \A i \in DOMAIN r.list : i > k => r.list[i] \notin RtasLights
    BY <1>3, <1>9 DEF OneList
  <2>2. k \in 0 .. Len(l) /\ SubSeq(l, 1, k) \in history[r.cmd.type]
    <3>1. Len(r.list) \in Nat /\ Len(b) \in Nat
      BY <1>2, <1>3
    <3>2. k \in 0 .. Len(l)
      BY <1>6, <2>1, <3>1
    <3> QED
      BY <1>6, <2>1, <3>2
  <2>3. \A i \in DOMAIN l : i > k => l[i] \notin RtasLights
    BY <1>1, <1>2, <1>6, <2>1 DEF PlatformLights
  <2>4. [r EXCEPT !.list = l].list = l /\ [r EXCEPT !.list = l].cmd = r.cmd
    BY DEF CallInv, IsCall
  <2> QED
    BY <2>2, <2>3, <2>4 DEF OneList
<1> QED
  BY <1>0, <1>6, <1>7, <1>8, <1>9

(* One enclosure, or the end of them.                                      *)
LEMMA SesCall ==
  ASSUME IndicatorInv, NEW p \in Procs, GetSesIndices(p)
  PROVE  \E s : /\ CallInv(s) /\ s.with = proc[p].with /\ s.io = 0
                /\ proc' = [proc EXCEPT ![p] = s]
<1> DEFINE r == proc[p]
           i == r.idx
           all == Len(Enclosures[i].leds)
           after == IF platform = "opal" THEN "mv" ELSE "find"
           over == [r EXCEPT !.idx = 1, !.pc = after]
<1>0. /\ r.pc = "ses" /\ CallInv(r) /\ r.io = 0 /\ r.idx \in Nat \ {0} /\ IsCall(r)
      /\ platform \in {"rtas", "opal"} /\ after \in {"mv", "find"} /\ (platform = "rtas" => after = "find")
      /\ DOMAIN Enclosures = 1 .. Len(Enclosures) /\ Len(Enclosures) \in Nat
  BY EnclosuresAssumption DEF GetSesIndices, IndicatorInv, StateInv, CallInv, IsCall, PlaceInv, Retrieving
<1>1. \/ i > Len(Enclosures) /\ Local(p, over)
      \/ /\ i <= Len(Enclosures)
         /\ Local(p, [r EXCEPT !.idx = i + 1,
                        !.list = IF SesOnce(i) THEN ses_indicator_list(@, i, all) ELSE @])
      \/ /\ i <= Len(Enclosures) /\ SesOnce(i)
         /\ \E n \in 0 .. all, next \in {over, [r EXCEPT !.idx = i + 1]} :
              Local(p, [next EXCEPT !.list = ses_indicator_list(@, i, n), !.failed = TRUE])
  BY DEF GetSesIndices
<1>2. ASSUME NEW l, l \in Seq(Indicators), IsInjective(l), Range(l) \cap Mv = {},
             platform = "rtas" => OneList([r EXCEPT !.list = l]),
             NEW s, IsCall(s), s.list = l, s.cmd = r.cmd, s.cur = r.cur, s.io = r.io, s.shown = r.shown,
             s.with = r.with, s.pc \in {"ses", after},
             s.pc = "ses" => \A k \in DOMAIN l : l[k] \in PlatformLights \/ FromEnclosure(l[k], s.idx),
             Local(p, s)
      PROVE  \E u : /\ CallInv(u) /\ u.with = proc[p].with /\ u.io = 0
                    /\ proc' = [proc EXCEPT ![p] = u]
  <2>1. AreaInv(s)
    BY <1>0, <1>2 DEF AreaInv
  <2>2. platform = "rtas" => OneList(s)
    BY <1>0, <1>2 DEF OneList, IsCall
  <2>3. ListInv(s)
    BY <1>0, <1>2, <2>2 DEF ListInv, Range
  <2>4. s.pc \in {"mode", "list", "ses", "mv", "find", "done"} /\ s.pc # "mode"
    BY <1>0, <1>2
  <2>5. CallInv(s)
    BY <1>0, <1>2, <2>1, <2>3, <2>4, BuildCall DEF Retrieving
  <2> QED
    BY <1>0, <1>2, <2>5 DEF Local
<1>3. /\ r.list \in Seq(Indicators) /\ IsInjective(r.list) /\ Range(r.list) \cap Mv = {}
      /\ platform = "rtas" => OneList([r EXCEPT !.list = r.list])
      /\ \A k \in DOMAIN r.list : r.list[k] \in PlatformLights \/ FromEnclosure(r.list[k], r.idx + 1)
  <2>1. /\ r.list \in Seq(Indicators) /\ IsInjective(r.list) /\ (platform = "rtas" => OneList(r))
        /\ \A k \in DOMAIN r.list : r.list[k] \in PlatformLights \/ FromEnclosure(r.list[k], r.idx)
    BY <1>0 DEF CallInv, IsCall, ListInv
  <2>2. \A x : FromEnclosure(x, r.idx) => FromEnclosure(x, r.idx + 1)
    BY <1>0 DEF FromEnclosure
  <2>3. \A x \in PlatformLights : x \notin Mv
    BY PlatformAssumption DEF PlatformLights, RtasLights, LightsOf, Range
  <2>4. \A x : FromEnclosure(x, r.idx + 1) => x \notin Mv
    BY EnclosuresAssumption DEF FromEnclosure, LightsOf, Range
  <2>5. Range(r.list) \cap Mv = {}
    BY <2>1, <2>2, <2>3, <2>4 DEF Range
  <2>6. OneList(r) => OneList([r EXCEPT !.list = r.list])
    BY <1>0 DEF OneList, IsCall
  <2> QED
    BY <2>1, <2>2, <2>5, <2>6
<1>4. CASE i > Len(Enclosures) /\ Local(p, over)
  <2>1. /\ IsCall(over) /\ over.list = r.list /\ over.cmd = r.cmd /\ over.cur = r.cur /\ over.io = r.io
        /\ over.shown = r.shown /\ over.with = r.with /\ over.pc = after
    BY <1>0 DEF IsCall, Stages
  <2> HIDE DEF over, after
  <2>2. over.pc # "ses"
    BY <1>0, <2>1
  <2> QED
    BY <1>2, <1>3, <1>4, <2>1, <2>2
<1>5. CASE i <= Len(Enclosures) /\ ~SesOnce(i) /\ Local(p, [r EXCEPT !.idx = i + 1, !.list = @])
  <2> DEFINE s == [r EXCEPT !.idx = i + 1, !.list = @]
  <2>1. /\ IsCall(s) /\ s.list = r.list /\ s.cmd = r.cmd /\ s.cur = r.cur /\ s.io = r.io
        /\ s.shown = r.shown /\ s.with = r.with /\ s.pc = "ses" /\ s.idx = r.idx + 1 /\ Local(p, s)
    BY <1>0, <1>5 DEF IsCall
  <2> HIDE DEF s, after
  <2> QED
    BY <1>2, <1>3, <2>1
<1>6. ASSUME i <= Len(Enclosures), SesOnce(i), NEW n \in 0 .. all
      PROVE  LET l == ses_indicator_list(r.list, i, n)
             IN  /\ l \in Seq(Indicators) /\ IsInjective(l) /\ Range(l) \cap Mv = {}
                 /\ platform = "rtas" => OneList([r EXCEPT !.list = l])
                 /\ \A k \in DOMAIN l : l[k] \in PlatformLights \/ FromEnclosure(l[k], r.idx + 1)
  <2>1. r.idx \in DOMAIN Enclosures
    BY <1>0, <1>6
  <2> QED
    BY <1>0, <1>6, <2>1, EnclosureLines
<1>7. CASE /\ i <= Len(Enclosures) /\ SesOnce(i)
           /\ Local(p, [r EXCEPT !.idx = i + 1, !.list = ses_indicator_list(@, i, all)])
  <2> DEFINE l == ses_indicator_list(r.list, i, all)
             s == [r EXCEPT !.idx = i + 1, !.list = l]
  <2>0. all \in 0 .. all
    BY <1>0, <1>7, EnclosuresAssumption DEF LightsOf
  <2>1. /\ l \in Seq(Indicators) /\ IsInjective(l) /\ Range(l) \cap Mv = {}
        /\ platform = "rtas" => OneList([r EXCEPT !.list = l])
        /\ \A k \in DOMAIN l : l[k] \in PlatformLights \/ FromEnclosure(l[k], r.idx + 1)
    BY <1>6, <1>7, <2>0
  <2>2. Local(p, s)
    BY <1>7
  <2> HIDE DEF l
  <2>3. /\ IsCall(s) /\ s.list = l /\ s.cmd = r.cmd /\ s.cur = r.cur /\ s.io = r.io
        /\ s.shown = r.shown /\ s.with = r.with /\ s.pc = "ses" /\ s.idx = r.idx + 1
    BY <1>0, <2>1 DEF IsCall
  <2> HIDE DEF s, after
  <2> QED
    BY <1>2, <2>1, <2>2, <2>3
<1>8. ASSUME i <= Len(Enclosures), SesOnce(i), NEW n \in 0 .. all,
             NEW k \in Nat \ {0}, NEW pc \in {"ses", after}, pc = "ses" => k = i + 1,
             Local(p, [r EXCEPT !.idx = k, !.pc = pc, !.list = ses_indicator_list(@, i, n), !.failed = TRUE])
      PROVE  \E s : /\ CallInv(s) /\ s.with = proc[p].with /\ s.io = 0
                    /\ proc' = [proc EXCEPT ![p] = s]
  <2> DEFINE l == ses_indicator_list(r.list, i, n)
             s == [r EXCEPT !.idx = k, !.pc = pc, !.list = l, !.failed = TRUE]
  <2>1. /\ l \in Seq(Indicators) /\ IsInjective(l) /\ Range(l) \cap Mv = {}
        /\ platform = "rtas" => OneList([r EXCEPT !.list = l])
        /\ \A j \in DOMAIN l : l[j] \in PlatformLights \/ FromEnclosure(l[j], r.idx + 1)
    BY <1>6, <1>8
  <2>2. Local(p, s)
    BY <1>8
  <2> HIDE DEF l
  <2>3. /\ IsCall(s) /\ s.list = l /\ s.cmd = r.cmd /\ s.cur = r.cur /\ s.io = r.io
        /\ s.shown = r.shown /\ s.with = r.with /\ s.pc = pc /\ s.idx = k
    BY <1>0, <1>8, <2>1 DEF IsCall, Stages
  <2> HIDE DEF s, after
  <2>4. s.pc = "ses" => s.idx = r.idx + 1
    BY <1>8, <2>3
  <2> QED
    BY <1>2, <1>8, <2>1, <2>2, <2>3, <2>4
<1>9. ASSUME i <= Len(Enclosures), SesOnce(i), NEW n \in 0 .. all, NEW next \in {over, [r EXCEPT !.idx = i + 1]},
             Local(p, [next EXCEPT !.list = ses_indicator_list(@, i, n), !.failed = TRUE])
      PROVE  \E s : /\ CallInv(s) /\ s.with = proc[p].with /\ s.io = 0
                    /\ proc' = [proc EXCEPT ![p] = s]
  <2> DEFINE l == ses_indicator_list(r.list, i, n)
  <2>1. next.list = r.list
    BY <1>0 DEF IsCall
  <2>2. \/ [next EXCEPT !.list = l, !.failed = TRUE] = [r EXCEPT !.idx = 1, !.pc = after, !.list = l, !.failed = TRUE]
        \/ [next EXCEPT !.list = l, !.failed = TRUE] = [r EXCEPT !.idx = i + 1, !.pc = "ses", !.list = l, !.failed = TRUE]
    <3>1. CASE next = over
      <4> HIDE DEF l, after
      <4> QED
        BY <1>0, <3>1 DEF IsCall
    <3>2. CASE next = [r EXCEPT !.idx = i + 1]
      <4>1. r.pc = "ses"
        BY <1>0
      <4> HIDE DEF l, after, over, i
      <4>2. [r EXCEPT !.idx = i + 1, !.list = l, !.failed = TRUE]
             = [r EXCEPT !.idx = i + 1, !.pc = "ses", !.list = l, !.failed = TRUE]
        BY <1>0, <4>1 DEF IsCall
      <4> QED
        BY <3>2, <4>2
    <3> HIDE DEF over
    <3> QED
      BY <3>1, <3>2
  <2>3. Local(p, [next EXCEPT !.list = l, !.failed = TRUE])
    BY <1>9, <2>1
  <2>4. i + 1 \in Nat \ {0} /\ 1 \in Nat \ {0} /\ (after = "ses" => FALSE)
    BY <1>0
  <2> HIDE DEF over, after, i
  <2> QED
    BY <1>8, <1>9, <2>2, <2>3, <2>4
<1> QED
  BY <1>1, <1>4, <1>5, <1>7, <1>9

(* One block device, or the end of them.                                   *)
LEMMA DiskCall ==
  ASSUME IndicatorInv, NEW p \in Procs, GetMvIndices(p)
  PROVE  \E s : /\ CallInv(s) /\ s.with = proc[p].with /\ s.io = 0
                /\ proc' = [proc EXCEPT ![p] = s]
<1> DEFINE r == proc[p]
           b == Blocks[r.idx]
           over == r.cmd.type = "fault" \/ r.idx > Len(Blocks)
           idx == IF Ends(b) THEN Len(Blocks) + 1 ELSE r.idx + 1
           l == mv_indicator_list(r.list, b)
<1>0. /\ r.pc = "mv" /\ CallInv(r) /\ r.io = 0 /\ r.idx \in Nat \ {0} /\ IsCall(r) /\ platform = "opal"
      /\ DOMAIN Blocks = 1 .. Len(Blocks) /\ Len(Blocks) \in Nat
      /\ r.list \in Seq(Indicators) /\ IsInjective(r.list)
      /\ \A i \in DOMAIN r.list : r.list[i] \in Mv => FromBlock(r.list[i], r.idx)
  BY BlocksAssumption DEF GetMvIndices, IndicatorInv, StateInv, CallInv, IsCall, PlaceInv, Retrieving, ListInv
<1>1. \/ over /\ r.list = <<>> /\ Local(p, Failed(r))
      \/ over /\ r.list # <<>> /\ Local(p, [r EXCEPT !.pc = "find"])
      \/ ~over /\ Local(p, [r EXCEPT !.idx = idx, !.list = l])
  BY DEF GetMvIndices, OfFault, Cmd
<1>2. CASE Local(p, Failed(r))
  BY <1>0, <1>2, FailedCall DEF Local, Retrieving
<1>3. CASE Local(p, [r EXCEPT !.pc = "find"])
  <2> DEFINE s == [r EXCEPT !.pc = "find"]
  <2>1. /\ IsCall(s) /\ s.cmd = r.cmd /\ s.cur = r.cur /\ s.io = r.io /\ s.shown = r.shown
        /\ s.pc = "find" /\ s.list = r.list /\ s.with = r.with
    BY <1>0 DEF IsCall, Stages
  <2> HIDE DEF s
  <2>2. AreaInv(s)
    BY <2>1 DEF AreaInv
  <2>3. ListInv(s)
    BY <1>0, <2>1 DEF CallInv, ListInv
  <2>4. CallInv(s)
    BY <1>0, <2>1, <2>2, <2>3, BuildCall DEF Retrieving
  <2> QED
    BY <1>0, <1>3, <2>1, <2>4 DEF Local, s
<1>4. CASE ~over /\ Local(p, [r EXCEPT !.idx = idx, !.list = l])
  <2> DEFINE s == [r EXCEPT !.idx = idx, !.list = l]
  <2>0. /\ r.idx \in DOMAIN Blocks /\ idx \in Nat \ {0} /\ r.idx < idx /\ r.cmd.type # "fault"
    BY <1>0, <1>4
  <2>1. /\ l \in Seq(Indicators) /\ IsInjective(l)
        /\ \A i \in DOMAIN l : l[i] \in Mv => FromBlock(l[i], idx)
    <3>1. \A x : FromBlock(x, r.idx) => FromBlock(x, idx)
      BY <1>0, <2>0 DEF FromBlock
    <3>2. CASE Listed(b)
      <4>1. b.dev \in Mv /\ b.dev \in Indicators /\ FromBlock(b.dev, idx) /\ ~FromBlock(b.dev, r.idx)
        BY <1>0, <2>0, <3>2, BlocksAssumption, DisksAssumption DEF Listed, FromBlock
      <4>2. l = Append(r.list, b.dev)
        BY <3>2 DEF mv_indicator_list
      <4>3. \A i \in DOMAIN r.list : r.list[i] # b.dev
        BY <1>0, <4>1
      <4>4. /\ l \in Seq(Indicators) /\ Len(l) = Len(r.list) + 1 /\ l[Len(r.list) + 1] = b.dev
            /\ \A i \in 1 .. Len(r.list) : l[i] = r.list[i]
        BY <1>0, <4>1, <4>2, AppendProperties
      <4> HIDE DEF l, b, idx
      <4>5. /\ Len(r.list) \in Nat /\ DOMAIN r.list = 1 .. Len(r.list)
            /\ DOMAIN l = 1 .. (Len(r.list) + 1)
        BY <1>0, <4>4
      <4>6. IsInjective(l)
        <5>1. ASSUME NEW i \in DOMAIN l, NEW j \in DOMAIN l, l[i] = l[j]
              PROVE  i = j
          <6>1. CASE i \in 1 .. Len(r.list) /\ j \in 1 .. Len(r.list)
            <7>1. r.list[i] = r.list[j]
              BY <4>4, <5>1, <6>1
            <7> QED
              BY <1>0, <4>5, <6>1, <7>1 DEF IsInjective
          <6>2. CASE i = Len(r.list) + 1 /\ j = Len(r.list) + 1
            BY <6>2
          <6>3. ASSUME NEW x \in 1 .. Len(r.list)
                PROVE  l[x] # l[Len(r.list) + 1]
            BY <4>3, <4>4, <4>5, <6>3
          <6> QED
            BY <4>5, <5>1, <6>1, <6>2, <6>3
        <5> QED
          BY <5>1 DEF IsInjective
      <4> QED
        BY <1>0, <3>1, <4>1, <4>4, <4>5, <4>6
    <3>3. CASE ~Listed(b)
      BY <1>0, <3>1, <3>3 DEF mv_indicator_list
    <3> QED
      BY <3>2, <3>3
  <2> HIDE DEF l, idx
  <2>2. /\ IsCall(s) /\ s.cmd = r.cmd /\ s.cur = r.cur /\ s.io = r.io /\ s.shown = r.shown
        /\ s.pc = "mv" /\ s.list = l /\ s.idx = idx /\ s.with = r.with
    BY <1>0, <2>0, <2>1 DEF IsCall
  <2> HIDE DEF s
  <2>3. AreaInv(s)
    BY <2>2 DEF AreaInv
  <2>4. ListInv(s)
    BY <1>0, <2>0, <2>1, <2>2 DEF ListInv
  <2>5. CallInv(s)
    BY <1>0, <2>2, <2>3, <2>4, BuildCall DEF Retrieving
  <2> QED
    BY <1>0, <1>4, <2>2, <2>5 DEF Local, s
<1> QED
  BY <1>1, <1>2, <1>3, <1>4

-----------------------------------------------------------------------------
(* The search.                                                             *)

(* What is found is the first entry that fits.                             *)
LEMMA FoundFits ==
  ASSUME NEW p \in Procs, CallInv(proc[p]), Found(p) # 0
  PROVE  /\ Found(p) \in DOMAIN proc[p].list
         /\ \E at : /\ Found(p) \in At(p, at)
                    /\ \A i \in At(p, at) : Found(p) <= i
<1> DEFINE n == Max(Places(p))
           at == SubSeq(Place(p), 1, n)
<1>1. Len(Place(p)) \in Nat /\ DOMAIN proc[p].list \subseteq Nat
  <2>1. Cmd(p) \in Commands /\ proc[p].list \in Seq(Indicators)
    BY DEF Cmd, CallInv, IsCall
  <2>2. Cmd(p).loc \in Seq(STRING) /\ Cmd(p).dev \in Indicators \union {NoDev}
    BY <2>1, CommandsAssumption
  <2>3. Cmd(p).dev # NoDev => LocOf[Cmd(p).dev] \in Seq(STRING)
    BY <2>2, LocationsAssumption
  <2>4. Place(p) \in Seq(STRING)
    BY <2>2, <2>3 DEF Place
  <2> QED
    BY <2>1, <2>4
<1>2. Places(p) # {} /\ Found(p) = Min(At(p, at))
  BY DEF Found
<1>3. Places(p) \in SUBSET (1 .. Len(Place(p)))
  BY DEF Places
<1>4. n \in Places(p)
  BY <1>1, <1>2, <1>3, MaxIn
<1>5. At(p, at) # {} /\ At(p, at) \in SUBSET Nat /\ At(p, at) \subseteq DOMAIN proc[p].list
  BY <1>1, <1>4 DEF Places, At
<1> HIDE DEF at
<1>6. Min(At(p, at)) \in At(p, at) /\ \A i \in At(p, at) : Min(At(p, at)) <= i
  BY <1>5, LeastIn
<1> QED
  BY <1>2, <1>5, <1>6

(* The search, and what it decides for the three kinds of commands.        *)
LEMMA FindCall ==
  ASSUME IndicatorInv, NEW p \in Procs, Find(p)
  PROVE  \E s : /\ CallInv(s) /\ s.with = proc[p].with /\ s.io = 0
                /\ proc' = [proc EXCEPT ![p] = s]
<1> DEFINE r == proc[p]
<1>0. /\ r.pc = "find" /\ CallInv(r) /\ r.io = 0 /\ IsCall(r) /\ r.cur = 0 /\ r.shown = <<>>
      /\ r.cmd.kind \in {"print", "set", "all", "setall", "check"} /\ r.cmd.dev \in Indicators \union {NoDev}
      /\ Len(r.list) \in Nat /\ DOMAIN r.list = 1 .. Len(r.list)
  BY CommandsAssumption DEF Find, IndicatorInv, CallInv, IsCall, PlaceInv, Retrieving
<1>1. ASSUME NEW s, IsCall(s), s.list = r.list, s.cmd = r.cmd, s.with = r.with, s.io = r.io,
             s.shown = r.shown, s.pc \in {"read", "set", "done"},
             s.pc # "done" => s.cur \in 1 .. Len(r.list),
             s.pc = "done" => s.cur = 0,
             s.pc = "set" => r.cmd.kind = "check",
             s.pc = "read" => r.cmd.kind # "check",
             Meant(s), Local(p, s)
      PROVE  \E u : /\ CallInv(u) /\ u.with = proc[p].with /\ u.io = 0
                    /\ proc' = [proc EXCEPT ![p] = u]
  <2>1. PlaceInv(s)
    BY <1>0, <1>1 DEF PlaceInv, OnEntries, Retrieving
  <2>2. AreaInv(s)
    BY <1>1 DEF AreaInv
  <2>3. ListInv(s)
    BY <1>0, <1>1 DEF CallInv, ListInv, OneList, OnEntries
  <2> QED
    BY <1>0, <1>1, <2>1, <2>2, <2>3 DEF CallInv, Local
<1>2. CASE Local(p, Failed(r))
  BY <1>0, <1>2, FailedCall DEF Local, Retrieving
<1>3. CASE r.cmd.kind = "check" /\ r.list # <<>> /\ Local(p, [r EXCEPT !.cur = 1, !.pc = "set"])
  <2> DEFINE s == [r EXCEPT !.cur = 1, !.pc = "set"]
  <2>1. /\ IsCall(s) /\ s.list = r.list /\ s.cmd = r.cmd /\ s.with = r.with /\ s.io = r.io
        /\ s.shown = r.shown /\ s.pc = "set" /\ s.cur = 1
    BY <1>0 DEF IsCall, Stages
  <2>2. Local(p, s)
    BY <1>3
  <2> HIDE DEF s
  <2>3. Meant(s) /\ 1 \in 1 .. Len(r.list)
    BY <1>0, <1>3, <2>1 DEF Meant, IsCall
  <2> QED
    BY <1>1, <1>3, <2>1, <2>2, <2>3
<1>4. CASE r.cmd.kind \in {"print", "all", "setall"} /\ Local(p, GoThrough(r))
  <2> DEFINE s == GoThrough(r)
  <2>1. /\ IsCall(s) /\ s.list = r.list /\ s.cmd = r.cmd /\ s.with = r.with /\ s.io = r.io
        /\ s.shown = r.shown
        /\ \/ s.pc = "done" /\ s.cur = 0
           \/ s.pc = "read" /\ s.cur = 1 /\ 1 \in 1 .. Len(r.list)
    <3>1. CASE r.list = <<>>
      BY <1>0, <3>1 DEF GoThrough, IsCall, Stages
    <3>2. CASE r.list # <<>>
      <4>1. 1 \in 1 .. Len(r.list)
        BY <1>0, <3>2 DEF IsCall
      <4>2. s = [r EXCEPT !.cur = 1, !.pc = "read"]
        BY <3>2 DEF GoThrough
      <4> HIDE DEF s
      <4> QED
        BY <1>0, <4>1, <4>2 DEF IsCall, Stages
    <3> QED
      BY <3>1, <3>2
  <2>2. Local(p, s)
    BY <1>4
  <2> HIDE DEF s
  <2>3. Meant(s)
    BY <1>4, <2>1 DEF Meant
  <2> QED
    BY <1>1, <1>4, <2>1, <2>2, <2>3
<1>5. CASE r.cmd.kind = "set" /\ Found(p) # 0 /\ ~NotUnique(p, Found(p))
           /\ Local(p, [r EXCEPT !.cur = Found(p), !.pc = "read"])
  <2> DEFINE s == [r EXCEPT !.cur = Found(p), !.pc = "read"]
             l == r.list[Found(p)]
  <2>0. Found(p) \in DOMAIN r.list /\ Found(p) \in 1 .. Len(r.list)
    BY <1>0, <1>5, FoundFits
  <2>1. /\ IsCall(s) /\ s.list = r.list /\ s.cmd = r.cmd /\ s.with = r.with /\ s.io = r.io
        /\ s.shown = r.shown /\ s.pc = "read" /\ s.cur = Found(p)
    <3> DEFINE c == Found(p)
    <3>1. c \in Nat
      BY <2>0
    <3> HIDE DEF c
    <3>2. /\ IsCall([r EXCEPT !.cur = c, !.pc = "read"])
          /\ LET u == [r EXCEPT !.cur = c, !.pc = "read"]
             IN  /\ u.list = r.list /\ u.cmd = r.cmd /\ u.with = r.with /\ u.io = r.io
                 /\ u.shown = r.shown /\ u.pc = "read" /\ u.cur = c
      BY <1>0, <3>1 DEF IsCall, Stages
    <3> QED
      BY <3>2 DEF c
  <2>2. Local(p, s)
    BY <1>5
  <2> HIDE DEF s
  <2>3. ASSUME l \in Mv
        PROVE  IF r.cmd.dev = NoDev
               THEN \A i \in DOMAIN r.list : LocOf[r.list[i]] = LocOf[l] => i = Found(p)
               ELSE l = r.cmd.dev
    <3>1. PICK at : Found(p) \in At(p, at) /\ \A i \in At(p, at) : Found(p) <= i
      BY <1>0, <1>5, FoundFits
    <3>2. LocOf[l] = at /\ (r.cmd.dev # NoDev => l = r.cmd.dev)
      BY <2>3, <3>1 DEF At, Fits, Cmd
    <3>3. ASSUME r.cmd.dev = NoDev, NEW i \in DOMAIN r.list, LocOf[r.list[i]] = LocOf[l]
          PROVE  i = Found(p)
      <4>1. i \in At(p, at)
        BY <3>2, <3>3 DEF At, Fits, Cmd
      <4>2. ~(i > Found(p))
        BY <1>0, <1>5, <2>0, <2>3, <3>3 DEF NotUnique, Cmd
      <4> QED
        BY <1>0, <2>0, <3>1, <4>1, <4>2
    <3> QED
      BY <3>2, <3>3
  <2>4. Meant(s)
    BY <2>1, <2>3 DEF Meant
  <2> QED
    BY <1>1, <1>5, <2>0, <2>1, <2>2, <2>4
<1>6. \/ Local(p, Failed(r))
      \/ Local(p, [r EXCEPT !.pc = "crashed"])
      \/ r.cmd.kind = "check" /\ r.list # <<>> /\ Local(p, [r EXCEPT !.cur = 1, !.pc = "set"])
      \/ r.cmd.kind \in {"print", "all", "setall"} /\ Local(p, GoThrough(r))
      \/ r.cmd.kind = "set" /\ Found(p) # 0 /\ ~NotUnique(p, Found(p))
         /\ Local(p, [r EXCEPT !.cur = Found(p), !.pc = "read"])
  <2>1. \/ Local(p, Failed(r))
        \/ Local(p, CASE r.cmd.kind = "set" -> LookUp(p)
                      [] r.cmd.kind = "check" -> CheckLog(r)
                      [] OTHER -> GoThrough(r))
    BY DEF Find, Cmd
  <2>2. CASE r.cmd.kind = "set"
    BY <2>1, <2>2 DEF LookUp
  <2>3. CASE r.cmd.kind = "check"
    BY <2>1, <2>3 DEF CheckLog
  <2>4. CASE r.cmd.kind \in {"print", "all", "setall"}
    BY <2>1, <2>4
  <2> QED
    BY <1>0, <2>2, <2>3, <2>4
<1>7. CASE Local(p, [r EXCEPT !.pc = "crashed"])
  <2> DEFINE s == [r EXCEPT !.pc = "crashed"]
  <2>1. /\ IsCall(s) /\ s.list = r.list /\ s.cmd = r.cmd /\ s.with = r.with /\ s.io = r.io
        /\ s.pc = "crashed" /\ s.cur = r.cur /\ s.shown = r.shown /\ proc' = [proc EXCEPT ![p] = s]
    BY <1>0, <1>7 DEF IsCall, CallInv, Stages, Local
  <2> HIDE DEF s
  <2>2. CallInv(s)
    BY <1>0, <2>1 DEF CallInv, PlaceInv, AreaInv, ListInv, Meant, Retrieving, OnEntries, IsCall
  <2> QED
    BY <1>0, <2>1, <2>2
<1> QED
  BY <1>2, <1>3, <1>4, <1>5, <1>6, <1>7

-----------------------------------------------------------------------------
(* The invariant, step by step.                                            *)

(* The calls of a step in which one process goes on and the platform's list *)
(* stays.                                                                  *)
LEMMA OneCall ==
  ASSUME IndicatorInv, NEW p \in Procs, NEW s, CallInv(s), s.with = proc[p].with,
         proc' = [proc EXCEPT ![p] = s], UNCHANGED <<platform, rtasList, gen, history>>
  PROVE  /\ DOMAIN proc' = Procs /\ PlatformInv'
         /\ \A q \in Procs : q \notin proc'[q].with /\ CallInv(proc[q])'
<1>1. DOMAIN proc' = Procs /\ proc'[p] = s /\ \A q \in Procs : q # p => proc'[q] = proc[q]
  BY DEF IndicatorInv, StateInv
<1>2. PlatformInv'
  BY DEF IndicatorInv, PlatformInv
<1>3. ASSUME NEW q \in Procs
      PROVE  CallInv(proc[q])' /\ q \notin proc'[q].with
  <2>1. CallInv(proc'[q]) /\ q \notin proc'[q].with
    BY <1>1 DEF IndicatorInv
  <2> QED
    BY <2>1, CallHere
<1> QED
  BY <1>1, <1>2, <1>3

(* A step that keeps or leaves the registers: nobody enters them, and what  *)
(* is selected changes only when the one inside leaves.                    *)
LEMMA LeaveInv ==
  ASSUME IndicatorInv, NEW p \in Procs, NEW s, CallInv(s), s.with = proc[p].with, s.io = 0,
         proc' = [proc EXCEPT ![p] = s], UNCHANGED <<platform, rtasList, gen, history>>,
         UNCHANGED <<reg, raced>>, addr' = addr \/ (Inside(p) /\ addr' = "out"),
         opalMode' \in OpalModes \union {"unread"}, fails' \in 0 .. MaxFail,
         lit' \in [LedTypes -> SUBSET (Indicators \ Mv)]
  PROVE  IndicatorInv'
<1>1. DOMAIN proc' = Procs /\ PlatformInv' /\ \A q \in Procs : q \notin proc'[q].with /\ CallInv(proc[q])'
  BY OneCall
<1>2. StateInv'
  BY <1>1 DEF IndicatorInv, StateInv, Regs
<1>3. AloneInv'
  <2>1. proc'[p].io = 0 /\ \A q \in Procs : q # p => proc'[q] = proc[q]
    BY DEF IndicatorInv, StateInv
  <2>2. \A q \in Procs : Inside(q)' => q # p /\ Inside(q)
    BY <2>1 DEF Inside
  <2>3. \A q \in Procs : q # p => (Setting(q)' <=> Setting(q))
    BY <2>1 DEF Setting
  <2>4. AloneInv
    BY DEF IndicatorInv
  <2> SUFFICES ASSUME ~raced
               PROVE  /\ \A q, k \in Procs : Inside(q)' /\ Inside(k)' => q = k
                      /\ \A q \in Procs : Inside(q)' =>
                           /\ (proc'[q].io = 1 \/ (Setting(q)' /\ proc'[q].io = 3)) => addr' = "out"
                           /\ proc'[q].io >= 2 /\ (Setting(q)' => proc'[q].io # 4)
                              => proc'[q].buf = reg'["out"]
    BY DEF AloneInv
  <2>5. \A q \in Procs : Inside(q)' => addr' = addr
    BY <2>2, <2>4 DEF AloneInv
  <2> QED
    BY <2>1, <2>2, <2>3, <2>4, <2>5 DEF AloneInv
<1> QED
  BY <1>1, <1>2, <1>3 DEF IndicatorInv

(* A step inside the registers.                                            *)
LEMMA InsideCall ==
  ASSUME NEW r, CallInv(r), r.pc \in OnEntries, r.list[r.cur] \in Mv,
         NEW k \in 1 .. 4, NEW b \in SUBSET Nat
  PROVE  CallInv([r EXCEPT !.io = k, !.buf = b])
<1> DEFINE s == [r EXCEPT !.io = k, !.buf = b]
<1>1. /\ IsCall(s) /\ s.list = r.list /\ s.cmd = r.cmd /\ s.with = r.with /\ s.io = k
      /\ s.cur = r.cur /\ s.pc = r.pc
  BY DEF CallInv, IsCall
<1> HIDE DEF s
<1>2. PlaceInv(s)
  BY <1>1 DEF CallInv, IsCall, PlaceInv, OnEntries, Retrieving
<1>3. AreaInv(s)
  BY <1>1 DEF CallInv, IsCall, AreaInv, OnEntries
<1>4. ListInv(s)
  BY <1>1 DEF CallInv, IsCall, ListInv, OneList, OnEntries
<1>5. Meant(s)
  BY <1>1 DEF CallInv, IsCall, Meant, OnEntries
<1> QED
  BY <1>1, <1>2, <1>3, <1>4, <1>5 DEF CallInv, s

(* A step of a process that is inside the registers after it.              *)
LEMMA StayInv ==
  ASSUME IndicatorInv, NEW p \in Procs, proc[p].pc \in OnEntries, Led(p) \in Mv,
         NEW k \in 1 .. 4, NEW b \in SUBSET Nat,
         proc' = [proc EXCEPT ![p] = [proc[p] EXCEPT !.io = k, !.buf = b]],
         UNCHANGED <<platform, opalMode, rtasList, gen, history, lit, fails>>,
         reg' \in [Regs -> SUBSET Nat], addr' \in Regs, raced' \in BOOLEAN, raced => raced',
         ~raced' => /\ \A q \in Procs : Inside(q) => q = p
                    /\ (k = 1 \/ (Setting(p) /\ k = 3)) => addr' = "out"
                    /\ k >= 2 /\ (Setting(p) => k # 4) => b = reg'["out"]
  PROVE  IndicatorInv'
<1> DEFINE s == [proc[p] EXCEPT !.io = k, !.buf = b]
<1>0. CallInv(proc[p]) /\ p \notin proc[p].with
  BY DEF IndicatorInv
<1>1. CallInv(s) /\ s.with = proc[p].with /\ s.io = k /\ s.buf = b /\ s.pc = proc[p].pc
  BY <1>0, InsideCall DEF Led, CallInv, IsCall
<1>2. proc' = [proc EXCEPT ![p] = s]
  OBVIOUS
<1> HIDE DEF s
<1>3. DOMAIN proc' = Procs /\ PlatformInv' /\ \A q \in Procs : q \notin proc'[q].with /\ CallInv(proc[q])'
  BY <1>1, <1>2, OneCall
<1>4. StateInv'
  BY <1>3 DEF IndicatorInv, StateInv
<1>5. AloneInv'
  <2>1. proc'[p] = s /\ \A q \in Procs : q # p => proc'[q] = proc[q]
    BY <1>2 DEF IndicatorInv, StateInv
  <2>2. ASSUME ~raced'
        PROVE  \A q \in Procs : Inside(q)' => q = p
    BY <2>1, <2>2 DEF Inside
  <2>3. Setting(p)' <=> Setting(p)
    BY <1>1, <2>1 DEF Setting
  <2> QED
    BY <1>1, <2>1, <2>2, <2>3 DEF AloneInv
<1> QED
  BY <1>3, <1>4, <1>5 DEF IndicatorInv

(* A process that starts, known to those that run.                         *)
LEMMA StartInv ==
  ASSUME IndicatorInv, NEW p \in Procs, Start(p)
  PROVE  IndicatorInv'
<1>1. PICK c \in Commands, junk \in BOOLEAN :
        LET others == {q \in Procs : Running(q)} IN
        proc' = [q \in Procs |->
          IF q = p THEN [NoCall EXCEPT !.cmd = c, !.with = others, !.st = junk,
                           !.pc = IF c.type = "fault" THEN "mode" ELSE "list"]
          ELSE IF q \in others THEN [proc[q] EXCEPT !.with = @ \cup {p}] ELSE proc[q]]
  <2>1. PICK c \in {d \in Commands : probe_indicator(d) /\ Accepted(d)} :
          \E junk \in IF c.kind = "all" THEN BOOLEAN ELSE {FALSE} :
            LET others == {q \in Procs : Running(q)} IN
            proc' = [q \in Procs |->
              IF q = p THEN [NoCall EXCEPT !.cmd = c, !.with = others, !.st = junk,
                               !.pc = IF c.type = "fault" THEN "mode" ELSE "list"]
              ELSE IF q \in others THEN [proc[q] EXCEPT !.with = @ \cup {p}] ELSE proc[q]]
    BY DEF Start
  <2> QED
    BY <2>1
<1> DEFINE others == {q \in Procs : Running(q)}
           new == [NoCall EXCEPT !.cmd = c, !.with = others, !.st = junk,
                     !.pc = IF c.type = "fault" THEN "mode" ELSE "list"]
<1>2. /\ DOMAIN proc' = Procs /\ proc'[p] = new
      /\ \A q \in Procs : q # p /\ q \in others => proc'[q] = [proc[q] EXCEPT !.with = @ \cup {p}]
      /\ \A q \in Procs : q # p /\ q \notin others => proc'[q] = proc[q]
  BY <1>1
<1>3. /\ proc[p].pc = "idle" /\ p \notin others
      /\ UNCHANGED <<platform, opalMode, rtasList, gen, lit, reg, addr, fails, history, raced>>
  BY DEF Start, Running
<1>4. CallInv(new) /\ new.io = 0 /\ new.with = others
  <2>1. IsCall(new) /\ new.pc \in {"mode", "list"} /\ (new.pc = "mode" => new.cmd.type = "fault")
        /\ new.list = <<>> /\ new.idx = 1 /\ new.cur = 0 /\ new.io = 0 /\ new.shown = <<>>
        /\ new.with = others /\ new.gen = 0
    BY DEF NoCall, IsCall, Stages
  <2>2. gen \in Nat
    BY BoundsAssumption DEF IndicatorInv, StateInv
  <2> HIDE DEF new
  <2>3. PlaceInv(new) /\ AreaInv(new) /\ ListInv(new) /\ Meant(new)
    BY <2>1, <2>2 DEF PlaceInv, AreaInv, ListInv, Meant, Retrieving, OnEntries, Range
  <2> QED
    BY <2>1, <2>3 DEF CallInv
<1> HIDE DEF new, others
<1>5. ASSUME NEW q \in Procs
      PROVE  /\ CallInv(proc'[q]) /\ q \notin proc'[q].with
             /\ proc'[q].io = proc[q].io /\ proc'[q].buf = (IF q = p THEN new.buf ELSE proc[q].buf)
             /\ (q # p => proc'[q].pc = proc[q].pc)
  <2>0. CallInv(proc[q]) /\ q \notin proc[q].with
    BY DEF IndicatorInv
  <2>1. CASE q = p
    <3>1. proc[p].io = 0
      BY <1>3, <2>0, <2>1 DEF CallInv, PlaceInv, Retrieving
    <3> QED
      BY <1>2, <1>3, <1>4, <2>1, <3>1
  <2>2. CASE q # p /\ q \in others
    <3> DEFINE s == [proc[q] EXCEPT !.with = @ \cup {p}]
    <3>1. /\ IsCall(s) /\ s.list = proc[q].list /\ s.cmd = proc[q].cmd /\ s.io = proc[q].io
          /\ s.cur = proc[q].cur /\ s.pc = proc[q].pc /\ s.idx = proc[q].idx /\ s.gen = proc[q].gen
          /\ s.shown = proc[q].shown /\ s.buf = proc[q].buf /\ s.with = proc[q].with \cup {p}
      BY <2>0 DEF CallInv, IsCall
    <3> HIDE DEF s
    <3>2. PlaceInv(s) /\ AreaInv(s) /\ ListInv(s) /\ Meant(s)
      BY <2>0, <3>1 DEF CallInv, PlaceInv, AreaInv, ListInv, OneList, Meant
    <3>3. proc'[q] = s
      BY <1>2, <2>2 DEF s
    <3> QED
      BY <2>0, <2>2, <3>1, <3>2, <3>3 DEF CallInv
  <2>3. CASE q # p /\ q \notin others
    BY <1>2, <2>0, <2>3
  <2> QED
    BY <2>1, <2>2, <2>3
<1>6. \A q \in Procs : CallInv(proc[q])' /\ q \notin proc'[q].with
  BY <1>3, <1>5, CallHere
<1>7. StateInv' /\ PlatformInv'
  BY <1>2, <1>3 DEF IndicatorInv, StateInv, PlatformInv
<1>8. AloneInv'
  <2>1. \A q \in Procs : Inside(q)' <=> Inside(q)
    BY <1>5 DEF Inside
  <2>2. ~Inside(p)
    BY <1>3 DEF IndicatorInv, CallInv, PlaceInv, Retrieving, Inside
  <2>3. \A q \in Procs : q # p => (Setting(q)' <=> Setting(q))
    BY <1>5 DEF Setting
  <2>4. AloneInv
    BY DEF IndicatorInv
  <2> QED
    BY <1>3, <1>5, <2>1, <2>2, <2>3, <2>4 DEF AloneInv
<1> QED
  BY <1>6, <1>7, <1>8 DEF IndicatorInv

(* A list with one entry more after its first, or with one less, still has *)
(* none twice.                                                             *)
LEMMA Inserted ==
  ASSUME NEW S, NEW a \in Seq(S), IsInjective(a), a # <<>>, NEW x \in S, x \notin Range(a)
  PROVE  LET b == <<Head(a), x>> \o Tail(a)
         IN  b \in Seq(S) /\ IsInjective(b) /\ Range(b) \subseteq Range(a) \union {x}
<1> DEFINE h == <<Head(a), x>>
           b == h \o Tail(a)
<1>0. /\ Len(a) \in Nat \ {0} /\ DOMAIN a = 1 .. Len(a) /\ \A i \in DOMAIN a : a[i] \in S
      /\ Head(a) = a[1] /\ h \in Seq(S) /\ Len(h) = 2 /\ h[1] = a[1] /\ h[2] = x
  BY EmptySeq
<1>1. /\ Tail(a) \in Seq(S) /\ Len(Tail(a)) = Len(a) - 1
      /\ \A i \in 1 .. (Len(a) - 1) : Tail(a)[i] = a[i + 1]
  BY HeadTailProperties
<1> HIDE DEF h
<1>2. /\ b \in Seq(S) /\ Len(b) = Len(a) + 1 /\ DOMAIN b = 1 .. (Len(a) + 1)
      /\ b[1] = a[1] /\ b[2] = x /\ \A i \in 3 .. (Len(a) + 1) : b[i] = a[i - 1]
  <2>1. /\ b \in Seq(S) /\ Len(b) = Len(a) + 1
        /\ \A i \in 1 .. (Len(a) + 1) : b[i] = IF i <= 2 THEN h[i] ELSE Tail(a)[i - 2]
    <3>1. /\ b \in Seq(S) /\ Len(b) = 2 + (Len(a) - 1)
          /\ \A i \in 1 .. (2 + (Len(a) - 1)) : b[i] = IF i <= 2 THEN h[i] ELSE Tail(a)[i - 2]
      <4>1. /\ b \in Seq(S) /\ Len(b) = Len(h) + Len(Tail(a))
            /\ \A i \in 1 .. (Len(h) + Len(Tail(a))) :
                 b[i] = IF i <= Len(h) THEN h[i] ELSE Tail(a)[i - Len(h)]
        <5>1. h \in Seq(S) /\ Tail(a) \in Seq(S)
          BY <1>0, <1>1
        <5> QED
          BY <5>1, ConcatProperties
      <4> HIDE DEF b
      <4> QED
        BY <1>0, <1>1, <4>1
    <3>2. 2 + (Len(a) - 1) = Len(a) + 1
      BY <1>0
    <3> QED
      BY <3>1, <3>2
  <2>2. \A i \in 3 .. (Len(a) + 1) : i - 2 \in 1 .. (Len(a) - 1) /\ i - 2 + 1 = i - 1 /\ ~(i <= 2)
    BY <1>0
  <2>3. \A i \in 3 .. (Len(a) + 1) : b[i] = a[i - 1]
    <3> TAKE i \in 3 .. (Len(a) + 1)
    <3>1. i \in 1 .. (Len(a) + 1)
      OBVIOUS
    <3>2. b[i] = Tail(a)[i - 2]
      BY <2>1, <2>2, <3>1
    <3> QED
      BY <1>1, <2>2, <3>2
  <2> HIDE DEF b
  <2> QED
    BY <1>0, <2>1, <2>3
<1> HIDE DEF b
<1>3. \A i \in DOMAIN a : a[i] # x
  BY DEF Range
<1> DEFINE from(i) == IF i = 1 THEN 1 ELSE i - 1
<1>4. ASSUME NEW i \in DOMAIN b, i # 2
      PROVE  from(i) \in DOMAIN a /\ b[i] = a[from(i)]
  BY <1>0, <1>2, <1>4
<1>5. ASSUME NEW i \in DOMAIN b, NEW j \in DOMAIN b, b[i] = b[j]
      PROVE  i = j
  <2>1. CASE i # 2 /\ j # 2
    <3>1. from(i) = from(j)
      BY <1>4, <1>5, <2>1 DEF IsInjective
    <3> QED
      BY <1>2, <2>1, <3>1
  <2>2. i = 2 <=> j = 2
    BY <1>2, <1>3, <1>4, <1>5
  <2> QED
    BY <2>1, <2>2
<1>6. Range(b) \subseteq Range(a) \union {x}
  BY <1>2, <1>4 DEF Range
<1> QED
  BY <1>2, <1>5, <1>6 DEF IsInjective, b, h

(* An entry taken out of such a list.                                      *)
LEMMA Removed ==
  ASSUME NEW S, NEW a \in Seq(S), IsInjective(a), NEW i \in DOMAIN a
  PROVE  LET b == SubSeq(a, 1, i - 1) \o SubSeq(a, i + 1, Len(a))
         IN  b \in Seq(S) /\ IsInjective(b) /\ Range(b) \subseteq Range(a)
<1> DEFINE u == SubSeq(a, 1, i - 1)
           v == SubSeq(a, i + 1, Len(a))
           b == u \o v
<1>0. /\ Len(a) \in Nat \ {0} /\ DOMAIN a = 1 .. Len(a) /\ \A k \in DOMAIN a : a[k] \in S
      /\ i \in 1 .. Len(a)
  OBVIOUS
<1>1. u \in Seq(S) /\ Len(u) = i - 1 /\ \A k \in 1 .. (i - 1) : u[k] = a[k]
  <2>1. \A k \in 1 .. (i - 1) : a[k] \in S
    BY <1>0
  <2>2. /\ u \in Seq(S) /\ Len(u) = (IF 1 <= i - 1 THEN i - 1 - 1 + 1 ELSE 0)
        /\ \A k \in 1 .. (i - 1 - 1 + 1) : u[k] = a[1 + k - 1]
    BY <1>0, <2>1, SubSeqProperties
  <2> QED
    BY <1>0, <2>2
<1>2. v \in Seq(S) /\ Len(v) = Len(a) - i /\ \A k \in 1 .. (Len(a) - i) : v[k] = a[i + k]
  <2>1. \A k \in (i + 1) .. Len(a) : a[k] \in S
    BY <1>0
  <2>2. /\ v \in Seq(S) /\ Len(v) = (IF i + 1 <= Len(a) THEN Len(a) - (i + 1) + 1 ELSE 0)
        /\ \A k \in 1 .. (Len(a) - (i + 1) + 1) : v[k] = a[i + 1 + k - 1]
    BY <1>0, <2>1, SubSeqProperties
  <2> QED
    BY <1>0, <2>2
<1> HIDE DEF u, v
<1>3. /\ b \in Seq(S) /\ Len(b) = Len(a) - 1 /\ DOMAIN b = 1 .. (Len(a) - 1)
      /\ \A k \in 1 .. (i - 1) : b[k] = a[k]
      /\ \A k \in i .. (Len(a) - 1) : b[k] = a[k + 1]
  <2>1. /\ b \in Seq(S) /\ Len(b) = i - 1 + (Len(a) - i)
        /\ \A k \in 1 .. (i - 1 + (Len(a) - i)) : b[k] = IF k <= i - 1 THEN u[k] ELSE v[k - (i - 1)]
    BY <1>1, <1>2, ConcatProperties
  <2>2. i - 1 + (Len(a) - i) = Len(a) - 1
    BY <1>0
  <2>3. ASSUME NEW k \in 1 .. (i - 1)
        PROVE  b[k] = a[k]
    <3>1. k \in 1 .. (Len(a) - 1) /\ k <= i - 1
      BY <1>0
    <3> QED
      BY <1>1, <2>1, <2>2, <3>1
  <2>4. ASSUME NEW k \in i .. (Len(a) - 1)
        PROVE  b[k] = a[k + 1]
    <3>1. k \in 1 .. (Len(a) - 1) /\ ~(k <= i - 1) /\ k - (i - 1) \in 1 .. (Len(a) - i)
          /\ i + (k - (i - 1)) = k + 1
      BY <1>0
    <3>2. b[k] = v[k - (i - 1)]
      BY <2>1, <2>2, <3>1
    <3> QED
      BY <1>2, <3>1, <3>2
  <2>5. DOMAIN b = 1 .. (Len(a) - 1)
    BY <2>1, <2>2
  <2> HIDE DEF b
  <2> QED
    BY <2>1, <2>2, <2>3, <2>4, <2>5
<1> HIDE DEF b
<1> DEFINE from(k) == IF k < i THEN k ELSE k + 1
<1>4. ASSUME NEW k \in DOMAIN b
      PROVE  from(k) \in DOMAIN a /\ b[k] = a[from(k)]
  BY <1>0, <1>3
<1>5. ASSUME NEW j \in DOMAIN b, NEW k \in DOMAIN b, b[j] = b[k]
      PROVE  j = k
  <2>1. from(j) = from(k)
    BY <1>4, <1>5 DEF IsInjective
  <2> QED
    BY <1>0, <1>3, <2>1
<1>6. Range(b) \subseteq Range(a)
  BY <1>4 DEF Range
<1> QED
  BY <1>3, <1>5, <1>6 DEF IsInjective, b, u, v

(* A part that is plugged in or pulled out.                                *)
LEMMA PlugInv ==
  ASSUME IndicatorInv, NEW t \in LedTypes, Plug(t)
  PROVE  IndicatorInv'
<1>0. /\ platform = "rtas" /\ gen \in Nat /\ gen' = gen + 1 /\ gen' \in 0 .. MaxPlug
      /\ StateInv /\ PlatformInv /\ AloneInv
      /\ UNCHANGED <<platform, opalMode, lit, reg, addr, proc, fails, raced>>
  <2>1. StateInv /\ PlatformInv /\ AloneInv /\ gen \in 0 .. MaxPlug
    BY DEF IndicatorInv, StateInv
  <2>2. /\ platform = "rtas" /\ gen' = gen + 1 /\ gen < MaxPlug
        /\ UNCHANGED <<platform, opalMode, lit, reg, addr, proc, fails, raced>>
    BY DEF Plug
  <2>3. gen \in Nat /\ gen' \in 0 .. MaxPlug
    BY <2>1, <2>2, BoundsAssumption
  <2> QED
    BY <2>1, <2>2, <2>3
<1>1. /\ rtasList[t] \in Seq(Indicators \ Mv) /\ IsInjective(rtasList[t])
      /\ Range(rtasList[t]) \subseteq RtasLights
  BY <1>0 DEF StateInv, PlatformInv, Entries
<1>2. RtasSpare \in Indicators \ Mv /\ RtasSpare \in RtasLights
  BY PlatformAssumption DEF RtasLights
<1>3. PICK l : /\ rtasList' = [rtasList EXCEPT ![t] = l]
               /\ l \in Entries /\ IsInjective(l) /\ Range(l) \subseteq RtasLights
  <2>1. CASE /\ RtasSpare \notin Range(rtasList[t]) /\ rtasList[t] # <<>>
             /\ rtasList' = [rtasList EXCEPT ![t] = <<Head(@), RtasSpare>> \o Tail(@)]
    <3> DEFINE l == <<Head(rtasList[t]), RtasSpare>> \o Tail(rtasList[t])
    <3>1. l \in Seq(Indicators \ Mv) /\ IsInjective(l) /\ Range(l) \subseteq RtasLights
      BY <1>1, <1>2, <2>1, Inserted
    <3>2. rtasList' = [rtasList EXCEPT ![t] = l]
      BY <2>1
    <3> QED
      BY <3>1, <3>2 DEF Entries
  <2>2. CASE \E i \in DOMAIN rtasList[t] :
               rtasList' = [rtasList EXCEPT ![t] = SubSeq(@, 1, i - 1) \o SubSeq(@, i + 1, Len(@))]
    <3>1. PICK i \in DOMAIN rtasList[t] :
            rtasList' = [rtasList EXCEPT ![t] = SubSeq(@, 1, i - 1) \o SubSeq(@, i + 1, Len(@))]
      BY <2>2
    <3> DEFINE l == SubSeq(rtasList[t], 1, i - 1) \o SubSeq(rtasList[t], i + 1, Len(rtasList[t]))
    <3>2. l \in Seq(Indicators \ Mv) /\ IsInjective(l) /\ Range(l) \subseteq RtasLights
      BY <1>1, Removed
    <3>3. rtasList' = [rtasList EXCEPT ![t] = l]
      BY <3>1
    <3> QED
      BY <3>2, <3>3 DEF Entries
  <2> QED
    BY <2>1, <2>2 DEF Plug
<1>4. /\ history' = [history EXCEPT ![t] = @ \cup {l}]
      /\ rtasList'[t] = l /\ \A u \in LedTypes : u # t => rtasList'[u] = rtasList[u]
      /\ \A u \in LedTypes : history[u] \subseteq history'[u]
      /\ l \in history'[t]
  BY <1>0, <1>3 DEF Plug, StateInv
<1>5. StateInv'
  BY <1>0, <1>3, <1>4 DEF StateInv
<1>6. PlatformInv'
  BY <1>0, <1>3, <1>4 DEF PlatformInv
<1>7. AloneInv'
  BY <1>0 DEF AloneInv, Inside, Setting
<1>8. ASSUME NEW p \in Procs
      PROVE  CallInv(proc[p])' /\ p \notin proc'[p].with
  <2>1. CallInv(proc[p]) /\ p \notin proc[p].with /\ proc'[p] = proc[p] /\ platform' = platform
    BY <1>0 DEF IndicatorInv
  <2>2. AreaInv(proc[p])'
    BY <1>0, <2>1 DEF CallInv, IsCall, AreaInv
  <2>3. proc[p].cmd.type \in LedTypes
    BY <2>1, CommandsAssumption DEF CallInv, IsCall
  <2>4. OneList(proc[p]) => OneList(proc[p])'
    BY <1>4, <2>1, <2>3 DEF OneList
  <2>5. ListInv(proc[p])'
    BY <2>1, <2>4 DEF CallInv, ListInv, FromEnclosure, FromBlock
  <2>6. IsCall(proc[p])' /\ PlaceInv(proc[p])' /\ Meant(proc[p])'
    BY <2>1 DEF CallInv
  <2> QED
    BY <2>1, <2>2, <2>5, <2>6 DEF CallInv
<1> QED
  BY <1>5, <1>6, <1>7, <1>8 DEF IndicatorInv

(* The number of calls that have failed.                                   *)
LEMMA FailsBound ==
  ASSUME IndicatorInv, NoFail \/ OneFail
  PROVE  fails' \in 0 .. MaxFail
  BY BoundsAssumption DEF IndicatorInv, StateInv, NoFail, OneFail

(* One read or set of an indicator that is no disk's.                      *)
LEMMA GetInv ==
  ASSUME IndicatorInv, NEW p \in Procs, GetIndicator(p)
  PROVE  IndicatorInv'
<1> DEFINE v == Led(p) \in lit[Cmd(p).type]
<1>1. PICK o \in Get(Led(p), v, proc[p].st) : /\ Local(p, GotState(p, o[1], o[2]))
                                             /\ IF o[1] THEN NoFail ELSE OneFail
  BY DEF GetIndicator
<1>2. CallInv(proc[p]) /\ Reading(p) /\ proc[p].st \in BOOLEAN /\ v \in BOOLEAN
  BY DEF GetIndicator, IndicatorInv, CallInv, IsCall
<1>3. o[1] \in BOOLEAN /\ o[2] \in BOOLEAN
  <2> DEFINE st == proc[p].st
  <2>1. o = <<TRUE, v>> \/ o = <<FALSE, st>> \/ o = <<FALSE, v>>
    BY DEF Get, get_rtas_sensor, opal_get_indicator, get_ses_indicator
  <2> HIDE DEF v, st
  <2>2. v \in BOOLEAN /\ st \in BOOLEAN
    BY <1>2 DEF v, st
  <2>3. PICK a \in BOOLEAN, b \in BOOLEAN : o = <<a, b>>
    BY <2>1, <2>2, Zenon
  <2> QED
    BY <2>3
<1> DEFINE s == GotState(p, o[1], o[2])
<1>4. CallInv(s) /\ s.with = proc[p].with /\ s.io = 0
  BY <1>2, <1>3, GotCall DEF Kept
<1>5. /\ proc' = [proc EXCEPT ![p] = s]
      /\ UNCHANGED <<platform, opalMode, rtasList, gen, history, lit, reg, addr, raced>>
  BY <1>1 DEF Local, GetIndicator
<1>6. fails' \in 0 .. MaxFail
  BY <1>1, FailsBound
<1> HIDE DEF s
<1> QED
  BY <1>4, <1>5, <1>6, LeaveInv DEF IndicatorInv, StateInv

(* Only an encl_led can be killed with the light as it was.                *)
LEMMA KilledSes ==
  ASSUME NEW p, NEW o, o \in Set(Led(p)), o = <<TRUE, FALSE>>
  PROVE  Led(p) \in SesLeds
<1>1. o # <<TRUE, TRUE>> /\ o # <<FALSE, FALSE>>
  <2>1. <<TRUE, FALSE>>[1] # <<FALSE, FALSE>>[1] /\ <<TRUE, FALSE>>[2] # <<TRUE, TRUE>>[2]
    OBVIOUS
  <2> QED
    BY <2>1
<1> QED
  BY <1>1 DEF Set, set_rtas_indicator, opal_set_indicator

(* Noting it changes nothing else of a call.                               *)
LEMMA NotedCall ==
  ASSUME NEW r, IsCall(r), NEW l \in SesLeds
  PROVE  LET s == [r EXCEPT !.killed = @ \union {l}]
         IN  /\ IsCall(s) /\ (CallInv(r) => CallInv(s))
             /\ s.with = r.with /\ s.io = r.io /\ s.cmd = r.cmd /\ s.pc = r.pc /\ s.list = r.list
             /\ s.cur = r.cur /\ s.rc = r.rc /\ s.failed = r.failed /\ s.shown = r.shown
             /\ s.killed = r.killed \union {l}
<1> DEFINE s == [r EXCEPT !.killed = @ \union {l}]
<1>1. /\ IsCall(s) /\ s.with = r.with /\ s.io = r.io /\ s.cmd = r.cmd /\ s.pc = r.pc
      /\ s.list = r.list /\ s.cur = r.cur /\ s.rc = r.rc /\ s.failed = r.failed
      /\ s.shown = r.shown /\ s.killed = r.killed \union {l} /\ s.idx = r.idx /\ s.gen = r.gen
  BY DEF IsCall
<1> HIDE DEF s
<1>2. CallInv(r) => CallInv(s)
  BY <1>1 DEF CallInv, PlaceInv, AreaInv, ListInv, OneList, Meant
<1> QED
  BY <1>1, <1>2 DEF s

(* set_indicator() on an indicator of the platform or of an enclosure.     *)
LEMMA SetInv ==
  ASSUME IndicatorInv, NEW p \in Procs, SetIndicator(p)
  PROVE  IndicatorInv'
<1>1. PICK o \in Set(Led(p)) :
        /\ Local(p, Noted(SetState(p, o[1]), Led(p), o))
        /\ IF o = <<TRUE, TRUE>> THEN NoFail ELSE OneFail
        /\ lit' = IF ~o[2] THEN lit
                  ELSE [lit EXCEPT ![Cmd(p).type] =
                          IF Cmd(p).val THEN @ \cup {Led(p)} ELSE @ \ {Led(p)}]
  BY DEF SetIndicator
<1>2. CallInv(proc[p]) /\ Setting(p) /\ Led(p) \notin Mv
  BY DEF SetIndicator, IndicatorInv
<1>3. o[1] \in BOOLEAN
  <2>1. \/ o = <<TRUE, TRUE>> \/ o = <<FALSE, FALSE>>
        \/ o = <<FALSE, TRUE>> \/ o = <<TRUE, FALSE>>
    BY DEF Set, set_rtas_indicator, opal_set_indicator, set_ses_indicator
  <2>2. PICK a \in BOOLEAN, b \in BOOLEAN : o = <<a, b>>
    BY <2>1, Zenon
  <2> QED
    BY <2>2
<1> DEFINE s == Noted(SetState(p, o[1]), Led(p), o)
<1>4. CallInv(s) /\ s.with = proc[p].with /\ s.io = 0
  <2> DEFINE g == SetState(p, o[1])
  <2>1. CallInv(g) /\ Kept(proc[p], g) /\ IsCall(g)
    BY <1>2, <1>3, SetCall DEF CallInv
  <2>2. o = <<TRUE, FALSE>> => Led(p) \in SesLeds
    BY KilledSes
  <2> HIDE DEF g
  <2> DEFINE x == Noted(g, Led(p), o)
  <2>3. CallInv(x) /\ x.with = g.with /\ x.io = g.io
    <3>1. CASE o = <<TRUE, FALSE>>
      <4>1. x = [g EXCEPT !.killed = @ \union {Led(p)}]
        BY <3>1 DEF Noted
      <4> HIDE DEF x
      <4> QED
        BY <2>1, <2>2, <3>1, <4>1, NotedCall
    <3>2. CASE o # <<TRUE, FALSE>>
      BY <2>1, <3>2 DEF Noted
    <3> QED
      BY <3>1, <3>2
  <2> QED
    BY <2>1, <2>3 DEF Kept, g
<1>5. /\ proc' = [proc EXCEPT ![p] = s]
      /\ UNCHANGED <<platform, opalMode, rtasList, gen, history, reg, addr, raced>>
  BY <1>1 DEF Local, SetIndicator
<1>6. fails' \in 0 .. MaxFail
  BY <1>1, FailsBound
<1>7. lit' \in [LedTypes -> SUBSET (Indicators \ Mv)]
  <2>1. Led(p) \in Indicators \ Mv
    BY <1>2 DEF Setting, CallInv, PlaceInv, OnEntries, IsCall, Led
  <2>2. lit \in [LedTypes -> SUBSET (Indicators \ Mv)]
    BY DEF IndicatorInv, StateInv
  <2> QED
    BY <1>1, <2>1, <2>2
<1> HIDE DEF s
<1> QED
  BY <1>4, <1>5, <1>6, <1>7, LeaveInv DEF IndicatorInv, StateInv

(* The port of a disk of the controller, whose indicator is of identify type. *)
LEMMA DiskPort ==
  ASSUME IndicatorInv, NEW p \in Procs, proc[p].pc \in OnEntries
  PROVE  /\ Led(p) \in Indicators /\ Led(p) \in Range(proc[p].list)
         /\ Led(p) \in Mv => Port(Led(p)) \in Nat /\ proc[p].cmd.type = "ident"
<1>1. CallInv(proc[p])
  BY DEF IndicatorInv
<1>2. Led(p) \in Indicators /\ Led(p) \in Range(proc[p].list)
  BY <1>1 DEF CallInv, PlaceInv, IsCall, Led, Range
<1>3. Led(p) \in Mv => proc[p].cmd.type = "ident"
  <2>1. proc[p].cmd.type \in {"ident", "fault"}
    BY <1>1, CommandsAssumption DEF CallInv, IsCall, LedTypes
  <2> QED
    BY <1>1, <1>2, <2>1 DEF CallInv, ListInv
<1>4. Led(p) \in Mv => Port(Led(p)) \in Nat
  BY DisksAssumption DEF Port
<1> QED
  BY <1>2, <1>3, <1>4

(* The accesses to the registers of the controller.                        *)
LEMMA EnterInv ==
  ASSUME IndicatorInv, NEW p \in Procs, MvEnter(p)
  PROVE  IndicatorInv'
<1> DEFINE r == proc[p]
<1>0. /\ CallInv(r) /\ r.pc \in OnEntries /\ Led(p) \in Mv /\ StateInv /\ AloneInv /\ r.io = 0
      /\ Reading(p) \/ Setting(p)
  <2>1. CallInv(r) /\ Led(p) \in Mv /\ StateInv /\ AloneInv /\ ~Inside(p) /\ (Reading(p) \/ Setting(p))
    BY DEF MvEnter, IndicatorInv
  <2> QED
    BY <2>1 DEF Reading, Setting, OnEntries, Inside, CallInv, IsCall
<1>1. CASE /\ Local(p, [r EXCEPT !.io = 1]) /\ NoFail /\ addr' = "out"
           /\ raced' = (raced \/ InsideNow # {}) /\ UNCHANGED <<lit, reg>>
  <2>1. [r EXCEPT !.io = 1] = [r EXCEPT !.io = 1, !.buf = r.buf] /\ r.buf \in SUBSET Nat
    BY <1>0 DEF CallInv, IsCall
  <2>2. proc' = [proc EXCEPT ![p] = [r EXCEPT !.io = 1, !.buf = r.buf]]
    BY <1>1, <2>1 DEF Local
  <2>3. UNCHANGED opalMode
    BY <1>1 DEF Local
  <2>4. ~raced' => \A q \in Procs : ~Inside(q)
    BY <1>1 DEF InsideNow
  <2>5. /\ UNCHANGED <<platform, opalMode, rtasList, gen, history, lit, fails>>
        /\ reg' \in [Regs -> SUBSET Nat] /\ addr' \in Regs /\ raced' \in BOOLEAN /\ (raced => raced')
    BY <1>0, <1>1 DEF Local, NoFail, StateInv, Regs
  <2>6. 1 \in 1 .. 4 /\ ~(1 >= 2)
    OBVIOUS
  <2>7. ~raced' => /\ \A q \in Procs : Inside(q) => q = p
                   /\ (1 = 1 \/ (Setting(p) /\ 1 = 3)) => addr' = "out"
                   /\ 1 >= 2 /\ (Setting(p) => 1 # 4) => r.buf = reg'["out"]
    BY <1>1, <2>4, <2>6
  <2> HIDE DEF r
  <2> QED
    BY <1>0, <2>1, <2>2, <2>5, <2>6, <2>7, StayInv DEF r
<1>2. ASSUME NEW s, s = (IF Reading(p) THEN GotState(p, FALSE, r.st) ELSE SetState(p, FALSE)),
             Local(p, s), NoFail \/ OneFail, UNCHANGED <<lit, reg, addr, raced>>
      PROVE  IndicatorInv'
  <2>1. CallInv(s) /\ Kept(r, s)
    <3>1. CASE Reading(p)
      <4>1. r.st \in BOOLEAN
        BY <1>0 DEF CallInv, IsCall
      <4>2. s = GotState(p, FALSE, r.st)
        BY <1>2, <3>1
      <4> QED
        BY <1>0, <3>1, <4>1, <4>2, GotCall
    <3>2. CASE ~Reading(p)
      BY <1>0, <1>2, <3>2, SetCall
    <3> QED
      BY <3>1, <3>2
  <2>2. /\ proc' = [proc EXCEPT ![p] = s] /\ UNCHANGED <<platform, rtasList, gen, history, reg, addr, raced>>
        /\ opalMode' \in OpalModes \union {"unread"} /\ lit' \in [LedTypes -> SUBSET (Indicators \ Mv)]
    BY <1>0, <1>2 DEF Local, StateInv
  <2>3. fails' \in 0 .. MaxFail
    BY <1>2, FailsBound
  <2> QED
    BY <2>1, <2>2, <2>3, LeaveInv DEF Kept
<1> QED
  BY <1>1, <1>2 DEF MvEnter

(* A step in the registers that reads an indicator of a disk.              *)
LEMMA ReadInv ==
  ASSUME IndicatorInv, NEW p \in Procs, MvRead(p)
  PROVE  IndicatorInv'
<1> DEFINE r == proc[p]
<1>0. /\ CallInv(r) /\ r.pc \in OnEntries /\ Led(p) \in Mv /\ StateInv /\ AloneInv
      /\ Reading(p) /\ ~Setting(p) /\ Inside(p) /\ r.buf \in SUBSET Nat /\ r.io \in 0 .. 4
      /\ DOMAIN r = {"pc", "cmd", "mode", "list", "idx", "gen", "cur", "st", "io", "buf", "rc",
                     "shown", "failed", "killed", "with"}
      /\ reg \in [Regs -> SUBSET Nat] /\ addr \in Regs /\ raced \in BOOLEAN
  <2>1. CallInv(r) /\ Reading(p) /\ StateInv /\ AloneInv /\ Inside(p)
    BY DEF MvRead, IndicatorInv
  <2> QED
    BY <2>1 DEF Reading, Setting, OnEntries, Inside, CallInv, IsCall, PlaceInv, Led, StateInv
<1>1. UNCHANGED <<platform, opalMode, rtasList, gen, history, lit, fails, reg, raced>>
  BY DEF MvRead, Local, NoFail
<1>2. ~raced => \A q \in Procs : Inside(q) => q = p
  BY <1>0 DEF AloneInv
<1>3. ~raced => (r.io = 1 => addr = "out") /\ (r.io >= 2 => r.buf = reg["out"])
  BY <1>0 DEF AloneInv
<1> HIDE DEF r
<1>4. ASSUME NEW k \in 2 .. 4, NEW b \in SUBSET Nat, addr' \in Regs,
             proc' = [proc EXCEPT ![p] = [r EXCEPT !.io = k, !.buf = b]],
             ~raced => b = reg["out"]
      PROVE  IndicatorInv'
  <2>1. k \in 1 .. 4 /\ k # 1
    OBVIOUS
  <2> QED
    BY <1>0, <1>1, <1>2, <1>4, <2>1, StayInv DEF r
<1>5. CASE r.io = 1
  <2>1. [r EXCEPT !.io = 1 + 1, !.buf = reg[addr]] = [[r EXCEPT !.io = @ + 1] EXCEPT !.buf = reg[addr]]
    BY <1>0, <1>5
  <2>2. proc' = [proc EXCEPT ![p] = [r EXCEPT !.io = 2, !.buf = reg[addr]]] /\ addr' = addr
    BY <1>5, <2>1 DEF MvRead, Local, r
  <2>3. 2 \in 2 .. 4 /\ reg[addr] \in SUBSET Nat
    BY <1>0
  <2> QED
    BY <1>0, <1>3, <1>4, <1>5, <2>2, <2>3
<1>6. CASE r.io \in {2, 3}
  <2> DEFINE k == r.io + 1
  <2>1. [r EXCEPT !.io = @ + 1] = [r EXCEPT !.io = k, !.buf = r.buf] /\ k \in 2 .. 4
    <3>1. k \in 2 .. 4 /\ [r EXCEPT !.io = @ + 1] = [r EXCEPT !.io = k]
      BY <1>0, <1>6
    <3> HIDE DEF k
    <3> QED
      BY <1>0, <3>1
  <2>2. proc' = [proc EXCEPT ![p] = [r EXCEPT !.io = k, !.buf = r.buf]] /\ addr' \in Regs
    BY <1>6, <2>1 DEF MvRead, Local, Regs, r
  <2>3. ~raced => r.buf = reg["out"]
    BY <1>3, <1>6
  <2> HIDE DEF k
  <2> QED
    BY <1>0, <1>4, <2>1, <2>2, <2>3
<1>7. CASE r.io = 4
  <2> DEFINE ok == Port(Led(p)) <= MaxPort
             v == IF ok THEN Port(Led(p)) \notin r.buf ELSE r.st
             s == GotState(p, ok, v)
  <2>1. ok \in BOOLEAN /\ v \in BOOLEAN
    <3>1. r.st \in BOOLEAN
      BY <1>0 DEF CallInv, IsCall
    <3>2. ok => v = (Port(Led(p)) \notin r.buf)
      OBVIOUS
    <3>3. ~ok => v = r.st
      OBVIOUS
    <3>4. ok \in BOOLEAN
      OBVIOUS
    <3> HIDE DEF v, ok
    <3>5. (Port(Led(p)) \notin r.buf) \in BOOLEAN
      OBVIOUS
    <3>6. ok => v \in BOOLEAN
      BY <3>2, <3>5, Zenon
    <3>7. ~ok => v \in BOOLEAN
      BY <3>1, <3>3
    <3>8. v \in BOOLEAN
      BY <3>6, <3>7
    <3> QED
      BY <3>4, <3>8 DEF ok
  <2>2. CallInv(s) /\ Kept(r, s)
    <3> HIDE DEF ok, v
    <3> QED
      BY <1>0, <2>1, GotCall DEF r
  <2>3. proc' = [proc EXCEPT ![p] = s] /\ addr' = addr
    BY <1>7 DEF MvRead, Local, r
  <2> HIDE DEF s
  <2>4. /\ opalMode' \in OpalModes \union {"unread"} /\ lit' \in [LedTypes -> SUBSET (Indicators \ Mv)]
        /\ fails' \in 0 .. MaxFail
    BY <1>0, <1>1 DEF StateInv
  <2> QED
    BY <1>0, <1>1, <2>2, <2>3, <2>4, LeaveInv DEF Kept, r
<1>8. r.io \in 1 .. 4
  BY <1>0 DEF Inside, r
<1> QED
  BY <1>5, <1>6, <1>7, <1>8

(* A step in the registers that sets one.                                  *)
LEMMA WriteInv ==
  ASSUME IndicatorInv, NEW p \in Procs, MvWrite(p)
  PROVE  IndicatorInv'
<1> DEFINE r == proc[p]
<1>0. /\ CallInv(r) /\ r.pc \in OnEntries /\ Led(p) \in Mv /\ StateInv /\ AloneInv
      /\ Setting(p) /\ Inside(p) /\ r.buf \in SUBSET Nat /\ r.io \in 0 .. 4
      /\ DOMAIN r = {"pc", "cmd", "mode", "list", "idx", "gen", "cur", "st", "io", "buf", "rc",
                     "shown", "failed", "killed", "with"}
      /\ reg \in [Regs -> SUBSET Nat] /\ addr \in Regs /\ raced \in BOOLEAN
  <2>1. CallInv(r) /\ Setting(p) /\ StateInv /\ AloneInv /\ Inside(p)
    BY DEF MvWrite, IndicatorInv
  <2> QED
    BY <2>1 DEF Setting, OnEntries, Inside, CallInv, IsCall, PlaceInv, Led, StateInv
<1>1. UNCHANGED <<platform, opalMode, rtasList, gen, history, lit, fails, raced>>
  BY DEF MvWrite, Local, NoFail
<1>2. ~raced => \A q \in Procs : Inside(q) => q = p
  BY <1>0 DEF AloneInv
<1>3. ~raced => (r.io \in {1, 3} => addr = "out") /\ (r.io \in {2, 3} => r.buf = reg["out"])
  <2>1. r.io \in {2, 3} => r.io >= 2 /\ r.io # 4
    OBVIOUS
  <2> QED
    BY <1>0, <2>1 DEF AloneInv
<1> HIDE DEF r
<1>4. ASSUME NEW k \in 2 .. 4, NEW b \in SUBSET Nat, addr' \in Regs, reg' \in [Regs -> SUBSET Nat],
             proc' = [proc EXCEPT ![p] = [r EXCEPT !.io = k, !.buf = b]],
             ~raced /\ k = 3 => addr' = "out",
             ~raced /\ k # 4 => b = reg'["out"]
      PROVE  IndicatorInv'
  <2>1. k \in 1 .. 4 /\ k # 1
    OBVIOUS
  <2> QED
    BY <1>0, <1>1, <1>2, <1>4, <2>1, StayInv DEF r
<1>5. CASE r.io = 1
  <2>1. [r EXCEPT !.io = 1 + 1, !.buf = reg[addr]] = [[r EXCEPT !.io = @ + 1] EXCEPT !.buf = reg[addr]]
    BY <1>0, <1>5
  <2>2. proc' = [proc EXCEPT ![p] = [r EXCEPT !.io = 2, !.buf = reg[addr]]] /\ UNCHANGED <<reg, addr>>
    BY <1>5, <2>1 DEF MvWrite, Local, r
  <2>3. 2 \in 2 .. 4 /\ reg[addr] \in SUBSET Nat
    BY <1>0
  <2> QED
    BY <1>0, <1>3, <1>4, <1>5, <2>2, <2>3
<1>6. CASE r.io = 2
  <2>1. [r EXCEPT !.io = @ + 1] = [r EXCEPT !.io = 3, !.buf = r.buf]
    <3>1. [r EXCEPT !.io = @ + 1] = [r EXCEPT !.io = 3]
      BY <1>0, <1>6
    <3> QED
      BY <1>0, <3>1
  <2>2. proc' = [proc EXCEPT ![p] = [r EXCEPT !.io = 3, !.buf = r.buf]] /\ addr' = "out" /\ reg' = reg
    BY <1>6, <2>1 DEF MvWrite, Local, r
  <2>3. 3 \in 2 .. 4 /\ "out" \in Regs
    BY DEF Regs
  <2> QED
    BY <1>0, <1>3, <1>4, <1>6, <2>2, <2>3
<1>7. CASE r.io = 3
  <2>1. [r EXCEPT !.io = @ + 1] = [r EXCEPT !.io = 4, !.buf = r.buf]
    <3>1. [r EXCEPT !.io = @ + 1] = [r EXCEPT !.io = 4]
      BY <1>0, <1>7
    <3> QED
      BY <1>0, <3>1
  <2>2. /\ proc' = [proc EXCEPT ![p] = [r EXCEPT !.io = 4, !.buf = r.buf]] /\ addr' = addr
        /\ reg' = [reg EXCEPT ![addr] = NewOut(p)]
    BY <1>7, <2>1 DEF MvWrite, Local, r
  <2>3. 4 \in 2 .. 4 /\ 4 # 3
    OBVIOUS
  <2>4. NewOut(p) \in SUBSET Nat
    BY <1>0, DiskPort DEF NewOut, r
  <2>5. reg' \in [Regs -> SUBSET Nat]
    BY <1>0, <2>2, <2>4
  <2> QED
    BY <1>0, <1>4, <2>2, <2>3, <2>5
<1>8. CASE r.io = 4
  <2> DEFINE s == SetState(p, TRUE)
  <2>1. CallInv(s) /\ Kept(r, s)
    BY <1>0, SetCall DEF r
  <2>2. proc' = [proc EXCEPT ![p] = s] /\ addr' = "out" /\ reg' = reg
    <3>1. addr' = "out" /\ Local(p, s) /\ UNCHANGED reg
      BY <1>8, 4 # 1, 4 # 2, 4 # 3 DEF MvWrite, r
    <3> HIDE DEF s
    <3> QED
      BY <3>1 DEF Local
  <2> HIDE DEF s
  <2>3. /\ opalMode' \in OpalModes \union {"unread"} /\ lit' \in [LedTypes -> SUBSET (Indicators \ Mv)]
        /\ fails' \in 0 .. MaxFail
    BY <1>0, <1>1 DEF StateInv
  <2> QED
    BY <1>0, <1>1, <2>1, <2>2, <2>3, LeaveInv DEF Kept, r
<1>9. r.io \in 1 .. 4
  BY <1>0 DEF Inside, r
<1> QED
  BY <1>5, <1>6, <1>7, <1>8, <1>9

(* At first nobody runs.                                                   *)
LEMMA FirstInv == IndicatorInit => IndicatorInv
<1> SUFFICES ASSUME IndicatorInit
             PROVE  IndicatorInv
  OBVIOUS
<1>1. \A t \in LedTypes : RtasFirst[t] \in Entries /\ IsInjective(RtasFirst[t])
  BY PlatformAssumption DEF LightsOf, Entries
<1>2. NoCall.cmd \in Commands
  BY CommandsAssumption DEF NoCall
<1>3. StateInv
  <2>1. \A d \in Mv : AtaIndex[d] + 2 \in Nat
    BY DisksAssumption
  <2>2. reg \in [Regs -> SUBSET Nat] /\ addr \in Regs
    BY <2>1 DEF IndicatorInit, Regs
  <2>3. rtasList \in [LedTypes -> Entries] /\ history \in [LedTypes -> SUBSET Entries]
    BY <1>1, PlatformAssumption DEF IndicatorInit
  <2>4. 0 \in 0 .. MaxPlug /\ 0 \in 0 .. MaxFail
    BY BoundsAssumption
  <2> QED
    BY <2>2, <2>3, <2>4 DEF IndicatorInit, StateInv
<1>4. PlatformInv
  BY <1>1, PlatformAssumption DEF IndicatorInit, PlatformInv, RtasLights
<1>5. AloneInv
  BY DEF IndicatorInit, AloneInv, Inside, NoCall
<1>6. CallInv(NoCall) /\ NoCall.with = {}
  <2>1. IsCall(NoCall)
    BY <1>2 DEF IsCall, NoCall, Stages
  <2>2. PlaceInv(NoCall) /\ AreaInv(NoCall) /\ ListInv(NoCall) /\ Meant(NoCall)
    BY DEF PlaceInv, AreaInv, ListInv, Meant, NoCall, Retrieving, OnEntries, Range
  <2> QED
    BY <2>1, <2>2 DEF CallInv, NoCall
<1>7. \A p \in Procs : proc[p] = NoCall
  BY DEF IndicatorInit
<1> QED
  BY <1>3, <1>4, <1>5, <1>6, <1>7 DEF IndicatorInv

(* A step that puts a list together or searches it changes nothing else.   *)
LEMMA BuildInv ==
  ASSUME IndicatorInv, NEW p \in Procs, opalMode' \in OpalModes \union {"unread"},
         UNCHANGED <<platform, rtasList, gen, history, lit, reg, addr, raced>>, NoFail \/ OneFail,
         \E s : CallInv(s) /\ s.with = proc[p].with /\ s.io = 0 /\ proc' = [proc EXCEPT ![p] = s]
  PROVE  IndicatorInv'
<1>1. fails' \in 0 .. MaxFail
  BY FailsBound
<1>2. lit' \in [LedTypes -> SUBSET (Indicators \ Mv)]
  BY DEF IndicatorInv, StateInv
<1> QED
  BY <1>1, <1>2, LeaveInv

(* So every step keeps the invariant,                                      *)
LEMMA StepInv ==
  ASSUME IndicatorInv, [IndicatorNext]_indicatorVars
  PROVE  IndicatorInv'
<1>0. opalMode \in OpalModes \union {"unread"}
  BY DEF IndicatorInv, StateInv
<1>1. ASSUME NEW p \in Procs, GetRtasIndices(p)
      PROVE  IndicatorInv'
  <2>1. /\ UNCHANGED <<platform, opalMode, rtasList, gen, history, lit, reg, addr, raced>>
        /\ NoFail \/ OneFail
    BY <1>1 DEF GetRtasIndices, Local
  <2> QED
    BY <1>0, <1>1, <2>1, RtasCall, BuildInv
<1>2. ASSUME NEW p \in Procs, GetOpalMode(p)
      PROVE  IndicatorInv'
  <2>1. UNCHANGED <<platform, rtasList, gen, history, lit, reg, addr, raced>> /\ NoFail
    BY <1>2 DEF GetOpalMode
  <2> QED
    BY <1>2, <2>1, ModeCall, BuildInv
<1>3. ASSUME NEW p \in Procs, OpalGetIndices(p)
      PROVE  IndicatorInv'
  <2>1. /\ UNCHANGED <<platform, opalMode, rtasList, gen, history, lit, reg, addr, raced>>
        /\ NoFail
    BY <1>3 DEF OpalGetIndices, Local
  <2> QED
    BY <1>0, <1>3, <2>1, OpalCall, BuildInv
<1>4. ASSUME NEW p \in Procs, GetSesIndices(p)
      PROVE  IndicatorInv'
  <2>1. /\ UNCHANGED <<platform, opalMode, rtasList, gen, history, lit, reg, addr, raced>>
        /\ NoFail \/ OneFail
    BY <1>4 DEF GetSesIndices, Local
  <2> QED
    BY <1>0, <1>4, <2>1, SesCall, BuildInv
<1>5. ASSUME NEW p \in Procs, GetMvIndices(p)
      PROVE  IndicatorInv'
  <2>1. /\ UNCHANGED <<platform, opalMode, rtasList, gen, history, lit, reg, addr, raced>>
        /\ NoFail
    BY <1>5 DEF GetMvIndices, Local
  <2> QED
    BY <1>0, <1>5, <2>1, DiskCall, BuildInv
<1>6. ASSUME NEW p \in Procs, Find(p)
      PROVE  IndicatorInv'
  <2>1. /\ UNCHANGED <<platform, opalMode, rtasList, gen, history, lit, reg, addr, raced>>
        /\ NoFail \/ OneFail
    BY <1>6 DEF Find, Local
  <2> QED
    BY <1>0, <1>6, <2>1, FindCall, BuildInv
<1>7. CASE UNCHANGED indicatorVars
  <2>1. UNCHANGED <<platform, opalMode, rtasList, gen, lit, reg, addr, proc, fails, history, raced>>
    BY <1>7 DEF indicatorVars
  <2>2. StateInv' /\ PlatformInv' /\ AloneInv'
    BY <2>1 DEF IndicatorInv, StateInv, PlatformInv, AloneInv, Inside, Setting
  <2>3. \A q \in Procs : CallInv(proc[q])' /\ q \notin proc'[q].with
    BY <2>1, CallHere DEF IndicatorInv
  <2> QED
    BY <2>2, <2>3 DEF IndicatorInv
<1>8. CASE IndicatorNext
  BY <1>1, <1>2, <1>3, <1>4, <1>5, <1>6, <1>8, StartInv, GetInv, SetInv, EnterInv, ReadInv,
     WriteInv, PlugInv DEF IndicatorNext
<1> QED
  BY <1>7, <1>8

(* which every behaviour therefore has.                                    *)
LEMMA IndicatorAlways == IndicatorSpec => []IndicatorInv
<1>1. IndicatorInv /\ [IndicatorNext]_indicatorVars => IndicatorInv'
  BY StepInv
<1> QED
  BY FirstInv, <1>1, PTL DEF IndicatorSpec

(* What a process works on is one list that the platform has had, followed  *)
(* by every part of an enclosure once, and a disk that the command means,   *)
(* whatever was plugged in or pulled out while it asked for its work areas  *)
(* (get_rtas_indices starting over, get_ses_indices skipping repeats, main  *)
(* in usysident.c refusing a disk that is not alone at its location).       *)
THEOREM EntriesAreSound == IndicatorSpec => []EntriesSound
<1>1. IndicatorInv => EntriesSound
  <2> SUFFICES ASSUME IndicatorInv
               PROVE  EntriesSound
    OBVIOUS
  <2>0. ASSUME NEW p \in Procs
        PROVE  CallInv(proc[p]) /\ p \notin proc[p].with
    BY DEF IndicatorInv
  <2>1. IndicatorTypeOK
    <3>1. ASSUME NEW p \in Procs
          PROVE  /\ proc[p].pc \in Stages /\ proc[p].cmd \in Commands /\ proc[p].io \in 0 .. 4
                 /\ proc[p].with \subseteq Procs \ {p} /\ proc[p].killed \subseteq SesLeds
                 /\ proc[p].cur \in 0 .. Len(proc[p].list)
      <4>1. /\ proc[p].pc \in Stages /\ proc[p].cmd \in Commands /\ proc[p].io \in 0 .. 4
            /\ proc[p].with \in SUBSET Procs /\ Len(proc[p].list) \in Nat
            /\ proc[p].killed \in SUBSET SesLeds
        BY <2>0 DEF CallInv, IsCall
      <4>2. proc[p].pc \in Retrieving \union OnEntries \union {"done", "crashed"}
        BY <4>1 DEF Stages, Retrieving, OnEntries
      <4>3. /\ proc[p].pc \in Retrieving => proc[p].cur = 0
            /\ proc[p].pc \in OnEntries => proc[p].cur \in 1 .. Len(proc[p].list)
            /\ proc[p].pc \in {"done", "crashed"} => proc[p].cur \in 0 .. Len(proc[p].list)
        BY <2>0 DEF CallInv, PlaceInv
      <4> QED
        BY <2>0, <4>1, <4>2, <4>3
    <3>2. /\ platform \in {"rtas", "opal"} /\ opalMode \in OpalModes \union {"unread"}
          /\ gen \in 0 .. MaxPlug /\ fails \in 0 .. MaxFail /\ raced \in BOOLEAN
          /\ \A t \in LedTypes : lit[t] \subseteq Indicators \ Mv
          /\ DOMAIN reg = Regs /\ addr \in Regs
      BY DEF IndicatorInv, StateInv
    <3> QED
      BY <3>1, <3>2 DEF IndicatorTypeOK, Stages
  <2>2. ListSound
    <3> SUFFICES ASSUME NEW p \in Procs, Working(p)
                 PROVE  /\ IsInjective(proc[p].list)
                        /\ platform = "rtas" => \E n \in 0 .. Len(proc[p].list) :
                             /\ SubSeq(proc[p].list, 1, n) \in history[Cmd(p).type]
                             /\ \A i \in DOMAIN proc[p].list : i > n => proc[p].list[i] \notin RtasLights
      BY DEF ListSound
    <3>1. proc[p].pc \in {"ses", "mv", "find"} \union OnEntries
      BY DEF Working, OnEntries
    <3>2. IsInjective(proc[p].list) /\ (platform = "rtas" => OneList(proc[p]))
      BY <2>0, <3>1 DEF CallInv, ListInv
    <3> QED
      BY <3>2 DEF OneList, Cmd
  <2>3. DiskNotMistaken
    BY <2>0 DEF DiskNotMistaken, CallInv, Meant, Led
  <2> QED
    BY <2>1, <2>2, <2>3 DEF EntriesSound
<1> QED
  BY <1>1, IndicatorAlways, PTL

(* The steps of a process that has started.                                *)
Acts(p) ==
  \/ GetRtasIndices(p) \/ GetOpalMode(p) \/ OpalGetIndices(p) \/ GetSesIndices(p)
  \/ GetMvIndices(p) \/ Find(p) \/ GetIndicator(p) \/ SetIndicator(p)
  \/ MvEnter(p) \/ MvRead(p) \/ MvWrite(p)

(* Setting one of the lights that are no disk's.                           *)
LEMMA LitSet ==
  ASSUME IndicatorInv, NEW p \in Procs, SetIndicator(p),
         NEW t \in LedTypes, NEW l \in Indicators, Lit(t, l) # Lit(t, l)'
  PROVE  Led(p) = l /\ Cmd(p).type = t /\ Lit(t, l)' = Cmd(p).val
<1>1. PICK o \in Set(Led(p)) :
        lit' = IF ~o[2] THEN lit
               ELSE [lit EXCEPT ![Cmd(p).type] =
                       IF Cmd(p).val THEN @ \cup {Led(p)} ELSE @ \ {Led(p)}]
  BY DEF SetIndicator
<1>2. Setting(p) /\ Led(p) \notin Mv /\ UNCHANGED reg
  BY DEF SetIndicator
<1>3. lit \in [LedTypes -> SUBSET (Indicators \ Mv)] /\ Cmd(p).val \in BOOLEAN
  BY CommandsAssumption DEF IndicatorInv, StateInv, CallInv, IsCall, Cmd
<1>4. l \notin Mv
  BY <1>2 DEF Lit
<1>5. (l \in lit[t]) # (l \in lit'[t])
  BY <1>4 DEF Lit
<1>6. lit' = [lit EXCEPT ![Cmd(p).type] = IF Cmd(p).val THEN @ \cup {Led(p)} ELSE @ \ {Led(p)}]
  BY <1>1, <1>5
<1>7. Led(p) = l /\ Cmd(p).type = t
  BY <1>3, <1>5, <1>6
<1>8. CASE Cmd(p).val
  <2>1. l \in lit'[t] /\ Cmd(p).val = TRUE
    BY <1>3, <1>6, <1>7, <1>8
  <2> QED
    BY <1>4, <1>7, <2>1 DEF Lit
<1>9. CASE ~Cmd(p).val
  <2>1. l \notin lit'[t] /\ Cmd(p).val = FALSE
    BY <1>3, <1>6, <1>7, <1>9
  <2>2. Lit(t, l)' = FALSE
    <3>1. Lit(t, l)' <=> l \in lit'[t]
      BY <1>4 DEF Lit
    <3> QED
      BY <2>1, <3>1
  <2> QED
    BY <1>7, <2>1, <2>2
<1> QED
  BY <1>8, <1>9

(* Writing the register that all disks share: alone, set_mv_indicator        *)
(* writes back what it read, with the bit of its own disk changed.          *)
LEMMA LitWrite ==
  ASSUME IndicatorInv, NEW p \in Procs, MvWrite(p), proc[p].io = 3
  PROVE  /\ UNCHANGED lit /\ \A r \in Regs : r # addr => reg'[r] = reg[r]
         /\ ~raced => /\ Led(p) \in Mv /\ Cmd(p).type = "ident" /\ addr = "out"
                      /\ \A l \in Mv : l # Led(p) => (Port(l) \in reg["out"] <=> Port(l) \in reg'["out"])
                      /\ \A l \in Mv : l = Led(p) => Lit("ident", l)' = Cmd(p).val
<1>0. /\ Setting(p) /\ Inside(p) /\ UNCHANGED lit /\ reg' = [reg EXCEPT ![addr] = NewOut(p)]
      /\ CallInv(proc[p]) /\ reg \in [Regs -> SUBSET Nat] /\ AloneInv /\ proc[p].pc \in OnEntries
  <2>1. Setting(p) /\ Inside(p) /\ UNCHANGED lit /\ reg' = [reg EXCEPT ![addr] = NewOut(p)]
    BY DEF MvWrite
  <2> QED
    BY <2>1 DEF Setting, OnEntries, IndicatorInv, StateInv
<1>1. ASSUME ~raced
      PROVE  /\ Led(p) \in Mv /\ Cmd(p).type = "ident" /\ addr = "out"
             /\ \A l \in Mv : l # Led(p) => (Port(l) \in reg["out"] <=> Port(l) \in reg'["out"])
             /\ \A l \in Mv : l = Led(p) => Lit("ident", l)' = Cmd(p).val
  <2>1. addr = "out" /\ proc[p].buf = reg["out"]
    BY <1>0, <1>1, 3 >= 2, 3 # 4 DEF AloneInv
  <2>2. Led(p) \in Mv /\ Cmd(p).type = "ident"
    BY <1>0, DiskPort, 3 > 0 DEF CallInv, PlaceInv, Led, Cmd
  <2>3. reg'["out"] = IF Cmd(p).val THEN reg["out"] \ {Port(Led(p))}
                      ELSE reg["out"] \cup {Port(Led(p))}
    BY <1>0, <2>1 DEF NewOut, Regs
  <2>4. ASSUME NEW l \in Mv, l # Led(p)
        PROVE  Port(l) \in reg["out"] <=> Port(l) \in reg'["out"]
    <3>1. Port(l) # Port(Led(p))
      BY <2>2, <2>4, DisksAssumption DEF Port, IsInjective
    <3> QED
      BY <2>3, <3>1
  <2>5. ASSUME NEW l \in Mv, l = Led(p)
        PROVE  Lit("ident", l)' = Cmd(p).val
    <3>1. Cmd(p).val \in BOOLEAN
      BY <1>0, CommandsAssumption DEF CallInv, IsCall, Cmd
    <3>2. Lit("ident", l)' <=> Port(l) \notin reg'["out"]
      BY DEF Lit
    <3>3. CASE Cmd(p).val
      <4>1. Cmd(p).val = TRUE /\ Port(l) \notin reg'["out"]
        BY <2>3, <2>5, <3>1, <3>3
      <4>2. Lit("ident", l)' = TRUE
        BY <3>2, <4>1
      <4> QED
        BY <4>1, <4>2
    <3>4. CASE ~Cmd(p).val
      <4>1. Cmd(p).val = FALSE /\ Port(l) \in reg'["out"]
        BY <2>3, <2>5, <3>1, <3>4
      <4>2. Lit("ident", l)' = FALSE
        BY <3>2, <4>1
      <4> QED
        BY <4>1, <4>2
    <3> QED
      BY <3>3, <3>4
  <2> QED
    BY <2>1, <2>2, <2>4, <2>5
<1>2. \A r \in Regs : r # addr => reg'[r] = reg[r]
  BY <1>0
<1> QED
  BY <1>0, <1>1, <1>2

(* A light that a step changes is the one that its process is setting, and  *)
(* as asked; the other registers of the controller keep what they hold;     *)
(* unless two processes are inside them at once.                           *)
LEMMA LitStep ==
  ASSUME IndicatorInv, NEW p \in Procs, Acts(p)
  PROVE  /\ \A t \in LedTypes, l \in Indicators : Lit(t, l) # Lit(t, l)' =>
              \/ Setting(p) /\ Led(p) = l /\ Cmd(p).type = t /\ Lit(t, l)' = Cmd(p).val
              \/ l \in Mv /\ raced
         /\ reg["enable"] # reg'["enable"] \/ reg["active"] # reg'["active"] => raced
<1> DEFINE G == /\ \A t \in LedTypes, l \in Indicators : Lit(t, l) # Lit(t, l)' =>
                     \/ Setting(p) /\ Led(p) = l /\ Cmd(p).type = t /\ Lit(t, l)' = Cmd(p).val
                     \/ l \in Mv /\ raced
                /\ reg["enable"] # reg'["enable"] \/ reg["active"] # reg'["active"] => raced
<1>1. ASSUME UNCHANGED <<lit, reg>>
      PROVE  G
  BY <1>1 DEF Lit
<1>2. ASSUME SetIndicator(p)
      PROVE  G
  <2>1. Setting(p) /\ UNCHANGED reg
    BY <1>2 DEF SetIndicator
  <2> QED
    BY <1>2, <2>1, LitSet
<1>3. ASSUME MvWrite(p), proc[p].io = 3
      PROVE  G
  <2>0. /\ Setting(p) /\ UNCHANGED lit /\ "enable" \in Regs /\ "active" \in Regs
        /\ \A r \in Regs : r # addr => reg'[r] = reg[r]
    BY <1>3, LitWrite DEF MvWrite, Regs
  <2>1. CASE raced
    <3>1. \A t \in LedTypes, l \in Indicators : l \notin Mv => (Lit(t, l) <=> Lit(t, l)')
      BY <2>0 DEF Lit
    <3> QED
      BY <2>1, <3>1 DEF Lit
  <2>2. CASE ~raced
    <3>1. /\ Led(p) \in Mv /\ Cmd(p).type = "ident" /\ addr = "out"
          /\ \A l \in Mv : l # Led(p) => (Port(l) \in reg["out"] <=> Port(l) \in reg'["out"])
          /\ \A l \in Mv : l = Led(p) => Lit("ident", l)' = Cmd(p).val
      BY <1>3, <2>2, LitWrite
    <3>2. ASSUME NEW t \in LedTypes, NEW l \in Indicators, ~(Led(p) = l /\ Cmd(p).type = t)
          PROVE  Lit(t, l) <=> Lit(t, l)'
      BY <2>0, <3>1, <3>2 DEF Lit
    <3>3. ASSUME NEW t \in LedTypes, NEW l \in Indicators, Lit(t, l) # Lit(t, l)'
          PROVE  Led(p) = l /\ Cmd(p).type = t
      BY <3>2, <3>3 DEF Lit
    <3>4. ASSUME NEW t \in LedTypes, NEW l \in Indicators, Led(p) = l, Cmd(p).type = t
          PROVE  Lit(t, l)' = Cmd(p).val
      <4>1. t = "ident" /\ l \in Mv
        BY <3>1, <3>4
      <4> QED
        BY <3>1, <3>4, <4>1
    <3>5. UNCHANGED <<reg["enable"], reg["active"]>>
      BY <2>0, <3>1
    <3> QED
      BY <2>0, <3>3, <3>4, <3>5
  <2> QED
    BY <2>1, <2>2
<1>4. ASSUME MvWrite(p), proc[p].io # 3
      PROVE  UNCHANGED <<lit, reg>>
  BY <1>4 DEF MvWrite
<1>5. ASSUME \/ GetRtasIndices(p) \/ GetOpalMode(p) \/ OpalGetIndices(p) \/ GetSesIndices(p)
             \/ GetMvIndices(p) \/ Find(p) \/ GetIndicator(p) \/ MvEnter(p) \/ MvRead(p)
      PROVE  UNCHANGED <<lit, reg>>
  BY <1>5 DEF GetRtasIndices, GetOpalMode, OpalGetIndices, GetSesIndices, GetMvIndices,
     Find, GetIndicator, MvEnter, MvRead
<1> HIDE DEF G
<1>6. G
  BY <1>1, <1>2, <1>3, <1>4, <1>5 DEF Acts
<1> QED
  BY <1>6 DEF G

(* Whoever takes the step.                                                 *)
LEMMA OthersStep ==
  ASSUME IndicatorInv, [IndicatorNext]_indicatorVars
  PROVE  /\ \A t \in LedTypes, l \in Indicators : Lit(t, l) # Lit(t, l)' =>
              \/ \E p \in Procs : Setting(p) /\ Led(p) = l /\ Cmd(p).type = t
              \/ l \in Mv /\ raced
         /\ reg["enable"] # reg'["enable"] \/ reg["active"] # reg'["active"] => raced
<1>1. CASE \E p \in Procs : Acts(p)
  BY <1>1, LitStep
<1>2. CASE UNCHANGED <<lit, reg>>
  BY <1>2 DEF Lit
<1>3. (\E p \in Procs : Start(p)) \/ (\E t \in LedTypes : Plug(t)) \/ UNCHANGED indicatorVars
      => UNCHANGED <<lit, reg>>
  BY DEF Start, Plug, indicatorVars
<1> QED
  BY <1>1, <1>2, <1>3 DEF IndicatorNext, Acts

(* No command changes an indicator it was not given, nor the registers that *)
(* decide how the disks' lights work, unless two processes have been inside  *)
(* the registers of the controller at once (set_mv_indicator).              *)
THEOREM OthersAreUntouched == IndicatorSpec => OthersUntouched
<1>1. IndicatorInv /\ [IndicatorNext]_indicatorVars =>
        /\ \A t \in LedTypes, l \in Indicators : Lit(t, l) # Lit(t, l)' =>
             \/ \E p \in Procs : Setting(p) /\ Led(p) = l /\ Cmd(p).type = t
             \/ l \in Mv /\ raced
        /\ reg["enable"] # reg'["enable"] \/ reg["active"] # reg'["active"] => raced
  BY OthersStep
<1> QED
  BY <1>1, IndicatorAlways, PTL DEF IndicatorSpec, OthersUntouched

-----------------------------------------------------------------------------
(* What a command does is done as asked.                                   *)

(* More lights as asked do no harm.                                        *)
LEMMA AskedMore ==
  ASSUME NEW r, NEW D, NEW E, D \subseteq E
  PROVE  (Asked(r, D) => Asked(r, E)) /\ (Ended(r, D) => Ended(r, E))
  BY DEF Asked, Ended

(* An entry of the list.                                                   *)
LEMMA AtEntry ==
  ASSUME NEW r, CallInv(r), r.pc \in OnEntries
  PROVE  /\ r.cur \in 1 .. Len(r.list) /\ Len(r.list) \in Nat /\ DOMAIN r.list = 1 .. Len(r.list)
         /\ r.cmd.kind \in {"print", "set", "all", "setall", "check"}
         /\ r.shown \in Seq({"on", "off", "unknown"})
  BY CommandsAssumption DEF CallInv, PlaceInv, IsCall

(* The next entry, when the present one is as asked.                       *)
LEMMA AdvanceAsked ==
  ASSUME NEW r, CallInv(r), r.pc \in {"read", "set", "again"}, r.io = 0, NEW D,
         r.cmd.kind \in {"print", "all", "setall"},
         r.cmd.kind \in {"all", "setall"} /\ ~r.failed =>
           r.list[r.cur] \in D /\ \A i \in 1 .. (r.cur - 1) : r.list[i] \in D,
         r.cmd.kind \in {"all", "print"} => Len(r.shown) = r.cur
  PROVE  Asked(Advance(r), D) /\ Ended(Advance(r), D) /\ Goes(r, Advance(r))
<1> DEFINE s == Advance(r)
<1>0. r.cur \in 1 .. Len(r.list) /\ Len(r.list) \in Nat /\ DOMAIN r.list = 1 .. Len(r.list)
  BY AtEntry DEF OnEntries
<1>1. /\ s.list = r.list /\ s.cmd = r.cmd /\ s.with = r.with /\ s.io = 0 /\ s.shown = r.shown
      /\ s.failed = r.failed
      /\ \/ r.cur < Len(r.list) /\ s.pc = "read" /\ s.cur = r.cur + 1
         \/ r.cur = Len(r.list) /\ s.pc \in {"last", "done"} /\ s.cur # 0
  BY <1>0 DEF Advance, CallInv, IsCall
<1> HIDE DEF s
<1>2. r.cmd.kind \in {"all", "setall"} /\ ~r.failed => \A i \in 1 .. r.cur : r.list[i] \in D
  BY <1>0
<1>3. Asked(s, D)
  BY <1>0, <1>1, <1>2 DEF Asked
<1>4. Ended(s, D)
  BY <1>0, <1>1, <1>2 DEF Ended
<1>5. Goes(r, s)
  BY <1>0, <1>1 DEF Goes
<1> QED
  BY <1>3, <1>4, <1>5 DEF s

(* What a caller makes of the state it read: the light is as asked when its *)
(* state was found to be the one asked for.                                *)
LEMMA GotAsked ==
  ASSUME NEW p \in Procs, CallInv(proc[p]), Reading(p), NEW D, Asked(proc[p], D),
         NEW ok \in BOOLEAN, NEW v \in BOOLEAN, ok /\ v = Cmd(p).val => Led(p) \in D
  PROVE  LET s == GotState(p, ok, v)
         IN  Asked(s, D) /\ Ended(s, D) /\ Goes(proc[p], s)
<1> DEFINE r == [proc[p] EXCEPT !.st = v, !.io = 0, !.buf = {}, !.failed = @ \/ ~ok]
           g == GotState(p, ok, v)
<1>0. proc[p].pc \in {"read", "again"} /\ proc[p].pc \in OnEntries
  BY DEF Reading, OnEntries
<1>1. /\ r.cur = proc[p].cur /\ r.list = proc[p].list /\ r.cmd = proc[p].cmd
      /\ r.shown = proc[p].shown /\ r.pc = proc[p].pc /\ r.io = 0 /\ r.st = v
      /\ r.failed = (proc[p].failed \/ ~ok) /\ r.with = proc[p].with /\ r.killed = proc[p].killed
      /\ IsCall(r)
  BY DEF CallInv, IsCall
<1>2. g = CASE r.cmd.kind = "print" -> PrintOnly(r, ok)
            [] r.cmd.kind = "set" -> OneState(r, ok)
            [] r.cmd.kind = "all" -> AllState(r, ok)
            [] OTHER -> set_all_indicator_state(r, ok)
  BY DEF GotState
<1> HIDE DEF r, g
<1>3. CallInv(r)
  BY <1>0, <1>1, WorkCall DEF Kept
<1> DEFINE h == Show(r, ok)
<1>4. CallInv(h)
  BY <1>0, <1>1, <1>3, ShowCall
<1>5. /\ h.cur = r.cur /\ h.list = r.list /\ h.cmd = r.cmd /\ h.pc = r.pc /\ h.io = 0
      /\ h.failed = r.failed /\ h.with = r.with /\ Len(h.shown) = Len(r.shown) + 1
      /\ h.rc = IF ok THEN 0 ELSE 1
      /\ DOMAIN h = DOMAIN r
  BY <1>1 DEF Show, IsCall
<1> HIDE DEF h
<1>6. /\ r.cur \in 1 .. Len(r.list) /\ r.cmd.kind \in {"print", "set", "all", "setall", "check"}
      /\ r.cmd.kind # "check" /\ r.list[r.cur] = Led(p) /\ r.cmd = Cmd(p)
      /\ r.pc \in {"read", "again"} /\ r.pc \in OnEntries
      /\ r.cmd.kind \in {"print", "setall"} => r.pc = "read"
  BY <1>0, <1>1, <1>3, AtEntry DEF Led, Cmd, CallInv, PlaceInv
<1>7. Asked(r, D)
  BY <1>1, <1>6 DEF Asked
<1>8. /\ r.pc = "again" /\ (r.cmd.kind = "set" \/ ~r.failed) => Led(p) \in D
      /\ r.cmd.kind \in {"all", "setall"} /\ ~r.failed => \A i \in 1 .. (r.cur - 1) : r.list[i] \in D
      /\ r.cmd.kind \in {"all", "print"} => Len(r.shown) = r.cur - 1
  BY <1>6, <1>7 DEF Asked
<1>9. ~Differs(r, ok) /\ (ok \/ r.cmd.kind # "all" \/ ~r.failed) => Led(p) \in D
  BY <1>1, <1>6 DEF Differs
<1>10. ASSUME NEW s, s.list = r.list, s.cmd = r.cmd, s.with = r.with, s.cur = r.cur,
              s.pc # "idle"
       PROVE  Goes(proc[p], s)
  BY <1>1, <1>6, <1>10 DEF Goes
<1>11. ASSUME NEW s \in {r, h}, Goes(s, g)
       PROVE  Goes(proc[p], g)
  BY <1>1, <1>5, <1>6, <1>11 DEF Goes
<1>12. CASE r.cmd.kind = "print"
  <2>1. g = Advance(h)
    BY <1>2, <1>12 DEF PrintOnly, h
  <2>2. Len(h.shown) = h.cur
    BY <1>5, <1>6, <1>8, <1>12
  <2>3. Asked(Advance(h), D) /\ Ended(Advance(h), D) /\ Goes(h, Advance(h))
    BY <1>4, <1>5, <1>6, <1>12, <2>2, AdvanceAsked
  <2> QED
    BY <1>11, <2>1, <2>3 DEF g
<1>13. CASE r.cmd.kind = "set" /\ r.pc = "again"
  <2>1. g = [h EXCEPT !.pc = "done"]
    BY <1>2, <1>13 DEF OneState, h
  <2>2. /\ g.pc = "done" /\ g.list = r.list /\ g.cmd = r.cmd /\ g.with = r.with /\ g.cur = r.cur
    BY <1>1, <1>5, <2>1 DEF IsCall
  <2>3. Asked(g, D) /\ Ended(g, D) /\ Goes(proc[p], g)
    BY <1>6, <1>8, <1>10, <1>13, <2>2 DEF Asked, Ended
  <2> QED
    BY <2>3 DEF g
<1>14. CASE r.cmd.kind = "set" /\ r.pc = "read"
  <2>1. g = [r EXCEPT !.pc = IF Differs(r, ok) THEN "set" ELSE "again"]
    BY <1>2, <1>14 DEF OneState
  <2>2. /\ g.list = r.list /\ g.cmd = r.cmd /\ g.with = r.with /\ g.cur = r.cur /\ g.io = 0
        /\ g.failed = r.failed
        /\ g.pc \in {"set", "again"} /\ (g.pc = "again" => ~Differs(r, ok))
    BY <1>1, <2>1 DEF IsCall
  <2>3. Asked(g, D) /\ Ended(g, D) /\ Goes(proc[p], g)
    BY <1>6, <1>9, <1>10, <1>14, <2>2 DEF Asked, Ended
  <2> QED
    BY <2>3 DEF g
<1>15. ASSUME r.cmd.kind \in {"all", "setall"}, r.pc = "read", g = [r EXCEPT !.pc = "set"]
       PROVE  Asked(g, D) /\ Ended(g, D) /\ Goes(proc[p], g)
  <2>1. /\ g.list = r.list /\ g.cmd = r.cmd /\ g.with = r.with /\ g.cur = r.cur /\ g.io = 0
        /\ g.failed = r.failed /\ g.shown = r.shown /\ g.pc = "set"
    BY <1>1, <1>15 DEF IsCall
  <2>2. Ended(g, D) /\ Goes(proc[p], g)
    BY <1>10, <2>1 DEF Ended
  <2>3. Asked(g, D)
    BY <1>8, <1>15, <2>1 DEF Asked
  <2> QED
    BY <2>2, <2>3
<1>16. CASE r.cmd.kind = "all" /\ ~(r.pc = "read" /\ Differs(r, ok))
  <2>1. g = Advance(h)
    BY <1>2, <1>16 DEF AllState, h
  <2>2. Len(h.shown) = h.cur
    BY <1>5, <1>6, <1>8, <1>16
  <2>3. ~r.failed => Led(p) \in D
    BY <1>6, <1>8, <1>9, <1>16
  <2>4. /\ h.cmd.kind = "all" /\ h.pc \in {"read", "set", "again"} /\ h.io = 0
        /\ ~h.failed => h.list[h.cur] \in D /\ \A i \in 1 .. (h.cur - 1) : h.list[i] \in D
    BY <1>5, <1>6, <1>8, <1>16, <2>3
  <2>5. Asked(Advance(h), D) /\ Ended(Advance(h), D) /\ Goes(h, Advance(h))
    BY <1>4, <2>2, <2>4, AdvanceAsked
  <2> QED
    BY <1>11, <2>1, <2>5 DEF g
<1>17. CASE r.cmd.kind = "setall" /\ ~Differs(r, ok)
  <2>1. g = Advance(r)
    BY <1>2, <1>17 DEF set_all_indicator_state
  <2>2. Led(p) \in D
    BY <1>9, <1>17
  <2>3. Asked(Advance(r), D) /\ Ended(Advance(r), D) /\ Goes(r, Advance(r))
    BY <1>1, <1>3, <1>6, <1>8, <1>17, <2>2, AdvanceAsked
  <2> QED
    BY <1>11, <2>1, <2>3 DEF g
<1>18. CASE \/ r.cmd.kind = "all" /\ r.pc = "read" /\ Differs(r, ok)
            \/ r.cmd.kind = "setall" /\ Differs(r, ok)
  <2>1. g = [r EXCEPT !.pc = "set"]
    BY <1>2, <1>18 DEF AllState, set_all_indicator_state
  <2> QED
    BY <1>6, <1>15, <1>18, <2>1 DEF g
<1> QED
  BY <1>6, <1>12, <1>13, <1>14, <1>16, <1>17, <1>18

(* What a caller makes of the outcome of a set: a set that went well leaves *)
(* the light as asked.                                                     *)
LEMMA SetAsked ==
  ASSUME NEW p \in Procs, CallInv(proc[p]), Setting(p), NEW D, Asked(proc[p], D),
         NEW ok \in BOOLEAN, ok => Led(p) \in D
  PROVE  LET s == SetState(p, ok)
         IN  Asked(s, D) /\ Ended(s, D) /\ Goes(proc[p], s)
<1> DEFINE r == [proc[p] EXCEPT !.io = 0, !.buf = {}, !.failed = @ \/ ~ok]
           g == SetState(p, ok)
<1>0. proc[p].pc \in {"set", "last"} /\ proc[p].pc \in OnEntries
  BY DEF Setting, OnEntries
<1>1. /\ r.cur = proc[p].cur /\ r.list = proc[p].list /\ r.cmd = proc[p].cmd
      /\ r.shown = proc[p].shown /\ r.pc = proc[p].pc /\ r.io = 0
      /\ r.failed = (proc[p].failed \/ ~ok) /\ r.with = proc[p].with /\ r.killed = proc[p].killed
      /\ IsCall(r)
  BY DEF CallInv, IsCall
<1>2. g = IF r.pc = "last" THEN [r EXCEPT !.pc = "done"] ELSE
          CASE r.cmd.kind = "set" -> IF ok THEN [r EXCEPT !.pc = "again"] ELSE Failed(r)
            [] r.cmd.kind = "all" -> [r EXCEPT !.pc = "again"]
            [] r.cmd.kind = "setall" -> Advance(r)
            [] OTHER -> [r EXCEPT !.pc = "done", !.rc = IF ok THEN 0 ELSE 1]
  BY DEF SetState
<1> HIDE DEF r, g
<1>3. CallInv(r)
  BY <1>0, <1>1, WorkCall DEF Kept
<1>6. /\ r.cur \in 1 .. Len(r.list) /\ r.cmd.kind \in {"print", "set", "all", "setall", "check"}
      /\ r.cmd.kind # "print" /\ r.list[r.cur] = Led(p) /\ r.cmd = Cmd(p)
      /\ r.pc \in {"set", "last"} /\ r.pc \in OnEntries
      /\ r.pc = "last" => r.cmd.kind \in {"all", "setall"}
  BY <1>0, <1>1, <1>3, AtEntry DEF Led, Cmd, CallInv, PlaceInv
<1>7. Asked(r, D)
  <2>1. ~r.failed => ~proc[p].failed
    BY <1>1
  <2>2. r.io # 4
    BY <1>1
  <2> QED
    BY <1>1, <1>6, <2>1, <2>2 DEF Asked
<1>10. ASSUME NEW s, s.list = r.list, s.cmd = r.cmd, s.with = r.with, s.cur = r.cur,
              s.pc # "idle"
       PROVE  Goes(proc[p], s)
  BY <1>1, <1>6, <1>10 DEF Goes
<1>11. ASSUME r.pc = "last"
       PROVE  Asked(g, D) /\ Ended(g, D) /\ Goes(proc[p], g)
  <2>1. /\ g.pc = "done" /\ g.list = r.list /\ g.cmd = r.cmd /\ g.with = r.with /\ g.cur = r.cur
        /\ g.failed = r.failed /\ g.shown = r.shown
    BY <1>1, <1>2, <1>11 DEF IsCall
  <2>2. Asked(g, D) /\ Ended(g, D) /\ Goes(proc[p], g)
    BY <1>6, <1>7, <1>10, <1>11, <2>1 DEF Asked, Ended
  <2> QED
    BY <2>2
<1>12. ASSUME r.pc = "set" /\ r.cmd.kind = "set" /\ ~ok
       PROVE  Asked(g, D) /\ Ended(g, D) /\ Goes(proc[p], g)
  <2>1. /\ g.pc = "done" /\ g.list = r.list /\ g.cmd = r.cmd /\ g.with = r.with /\ g.cur = r.cur
        /\ g.rc = 1
    BY <1>1, <1>2, <1>12 DEF IsCall, Failed
  <2>2. Asked(g, D) /\ Ended(g, D) /\ Goes(proc[p], g)
    BY <1>6, <1>10, <1>12, <2>1 DEF Asked, Ended
  <2> QED
    BY <2>2
<1>13. ASSUME r.pc = "set", r.cmd.kind \in {"set", "all"}, r.cmd.kind = "set" => ok
       PROVE  Asked(g, D) /\ Ended(g, D) /\ Goes(proc[p], g)
  <2>1. /\ g.pc = "again" /\ g.list = r.list /\ g.cmd = r.cmd /\ g.with = r.with /\ g.cur = r.cur
        /\ g.failed = r.failed /\ g.shown = r.shown
    BY <1>1, <1>2, <1>13 DEF IsCall
  <2>2. r.cmd.kind = "set" \/ ~r.failed => Led(p) \in D
    BY <1>1, <1>13
  <2>3. Asked(g, D) /\ Ended(g, D) /\ Goes(proc[p], g)
    BY <1>6, <1>7, <1>10, <1>13, <2>1, <2>2 DEF Asked, Ended
  <2> QED
    BY <2>3
<1>14. ASSUME r.pc = "set" /\ r.cmd.kind = "setall"
       PROVE  Asked(g, D) /\ Ended(g, D) /\ Goes(proc[p], g)
  <2>1. g = Advance(r)
    BY <1>2, <1>14
  <2>2. ~r.failed => Led(p) \in D /\ \A i \in 1 .. (r.cur - 1) : r.list[i] \in D
    BY <1>1, <1>7, <1>14 DEF Asked
  <2>3. Asked(Advance(r), D) /\ Ended(Advance(r), D) /\ Goes(r, Advance(r))
    BY <1>1, <1>3, <1>6, <1>14, <2>2, AdvanceAsked
  <2>4. Goes(proc[p], g)
    BY <1>1, <1>6, <2>1, <2>3 DEF Goes
  <2> QED
    BY <2>1, <2>3, <2>4
<1>15. ASSUME r.pc = "set" /\ r.cmd.kind = "check"
       PROVE  Asked(g, D) /\ Ended(g, D) /\ Goes(proc[p], g)
  <2>1. /\ g.pc = "done" /\ g.list = r.list /\ g.cmd = r.cmd /\ g.with = r.with /\ g.cur = r.cur
        /\ g.rc = IF ok THEN 0 ELSE 1
    BY <1>1, <1>2, <1>15 DEF IsCall
  <2>2. Asked(g, D) /\ Ended(g, D) /\ Goes(proc[p], g)
    BY <1>6, <1>10, <1>15, <2>1 DEF Asked, Ended
  <2> QED
    BY <2>2
<1>16. \/ r.pc = "last"
       \/ r.pc = "set" /\ r.cmd.kind = "set"
       \/ r.pc = "set" /\ r.cmd.kind = "all"
       \/ r.pc = "set" /\ r.cmd.kind = "setall"
       \/ r.pc = "set" /\ r.cmd.kind = "check"
  BY <1>6
<1>17. Asked(g, D) /\ Ended(g, D) /\ Goes(proc[p], g)
  BY <1>11, <1>12, <1>13, <1>14, <1>15, <1>16
<1> QED
  BY <1>17 DEF g

(* The lights of its list that a process at an entry has as asked after a  *)
(* step.                                                                   *)
Obtained(p) == {l \in Range(proc[p].list) :
                  proc[p].cur # 0 /\ (\/ Lit(Cmd(p).type, l)' = Cmd(p).val \/ Disturbed(p, l)
                                      \/ l \in proc'[p].killed)}

(* What a step makes of its process.                                       *)
Becomes(p, s) ==
  /\ proc' = [proc EXCEPT ![p] = s]
  /\ Asked(s, Obtained(p)) /\ Ended(s, Obtained(p)) /\ Goes(proc[p], s)

(* A call that puts its list together has nothing to answer for, and one    *)
(* that fails says so.                                                     *)
LEMMA BuildAsked ==
  ASSUME NEW p \in Procs, CallInv(proc[p]), proc[p].pc \in Retrieving, NEW s,
         proc' = [proc EXCEPT ![p] = s], s.cmd = proc[p].cmd, s.with = proc[p].with,
         \/ s.pc \in {"mode", "list", "ses", "mv", "find", "crashed"}
         \/ s.pc = "done" /\ s.rc = 1 /\ s.failed
  PROVE  Becomes(p, s)
<1>1. proc[p].cur = 0
  BY DEF CallInv, PlaceInv
<1>2. Asked(s, Obtained(p))
  BY DEF Asked
<1>3. Ended(s, Obtained(p))
  BY DEF Ended
<1>4. Goes(proc[p], s)
  BY <1>1 DEF Goes
<1> QED
  BY <1>2, <1>3, <1>4 DEF Becomes

(* A command that finds no list to work on has nothing to show.            *)
LEMMA FailedAsked ==
  ASSUME NEW p \in Procs, CallInv(proc[p]), proc[p].pc \in Retrieving, Local(p, Failed(proc[p]))
  PROVE  Becomes(p, Failed(proc[p]))
<1> DEFINE s == Failed(proc[p])
<1>1. s.cmd = proc[p].cmd /\ s.with = proc[p].with /\ s.pc = "done" /\ s.rc = 1 /\ s.failed = TRUE
  BY DEF CallInv, IsCall, Failed
<1>2. proc' = [proc EXCEPT ![p] = s]
  BY DEF Local
<1> HIDE DEF s
<1>3. Becomes(p, s)
  BY <1>1, <1>2, BuildAsked
<1> QED
  BY <1>3 DEF s

(* No step that gathers the list ends a command that promises anything.    *)
LEMMA RetrieveAsked ==
  ASSUME IndicatorInv, NEW p \in Procs,
         GetRtasIndices(p) \/ GetOpalMode(p) \/ OpalGetIndices(p) \/ GetSesIndices(p) \/ GetMvIndices(p)
  PROVE  Running(p) /\ \E s : Becomes(p, s)
<1> DEFINE r == proc[p]
<1>0. CallInv(r) /\ r.pc \in {"mode", "list", "ses", "mv"} /\ r.pc \in Retrieving /\ Running(p)
  <2>1. r.pc \in {"mode", "list", "ses", "mv"}
    BY DEF GetRtasIndices, GetOpalMode, OpalGetIndices, GetSesIndices, GetMvIndices
  <2> QED
    BY <2>1 DEF IndicatorInv, Retrieving, Running
<1>1. DOMAIN r = {"pc", "cmd", "mode", "list", "idx", "gen", "cur", "st", "io", "buf", "rc",
                  "shown", "failed", "killed", "with"}
  BY <1>0 DEF CallInv, IsCall
<1> HIDE DEF r
<1>2. ASSUME NEW s, Local(p, s), s.cmd = r.cmd, s.with = r.with,
             s.pc \in {"mode", "list", "ses", "mv", "find"}
      PROVE  \E x : Becomes(p, x)
  BY <1>0, <1>2, BuildAsked DEF Local, r
<1>3. ASSUME Local(p, Failed(r))
      PROVE  \E x : Becomes(p, x)
  BY <1>0, <1>3, FailedAsked DEF r
<1>4. CASE GetRtasIndices(p)
  <2> DEFINE all == rtasList[Cmd(p).type]
             last == Min({r.idx + Chunk - 1, Len(all)})
             more == [r EXCEPT !.list = parse_rtas_workarea(@, all, r.idx), !.gen = gen,
                               !.idx = last + 1]
  <2>1. \/ Local(p, StartOver(p, r)) \/ Local(p, more) \/ Local(p, Retrieved(more))
        \/ Local(p, Failed(r))
    BY <1>4 DEF GetRtasIndices, r
  <2>2. r.pc \in {"mode", "list"}
    BY <1>4 DEF GetRtasIndices, r
  <2>3. LET s == StartOver(p, r) IN s.cmd = r.cmd /\ s.with = r.with /\ s.pc = r.pc
    BY <1>1 DEF StartOver
  <2>4. more.cmd = r.cmd /\ more.with = r.with /\ more.pc = r.pc /\ DOMAIN more = DOMAIN r
    BY <1>1
  <2> HIDE DEF more
  <2>5. LET s == Retrieved(more)
        IN  s.cmd = r.cmd /\ s.with = r.with /\ s.pc \in {"list", "ses", "find"}
    BY <1>1, <2>4 DEF Retrieved
  <2> QED
    BY <1>0, <1>2, <1>3, <2>1, <2>2, <2>3, <2>4, <2>5
<1>5. CASE GetOpalMode(p)
  <2> DEFINE s == [r EXCEPT !.mode = opalMode', !.pc = "list"]
  <2>1. proc' = [proc EXCEPT ![p] = s] \/ proc' = [proc EXCEPT ![p] = Failed(r)]
    BY <1>5 DEF GetOpalMode, r
  <2>2. s.cmd = r.cmd /\ s.with = r.with /\ s.pc = "list"
    BY <1>1
  <2>3. LET f == Failed(r)
        IN  f.cmd = r.cmd /\ f.with = r.with /\ f.pc = "done" /\ f.rc = 1 /\ f.failed = TRUE
    BY <1>1 DEF Failed
  <2> HIDE DEF s
  <2> QED
    BY <1>0, <2>1, <2>2, <2>3, BuildAsked DEF r
<1>6. CASE OpalGetIndices(p)
  <2> DEFINE attn == IF OfFault(p) THEN OpalAttn ELSE <<>>
             all == attn \o opal_get_indices(Cmd(p).type)
  <2>1. \/ Local(p, [r EXCEPT !.list = attn, !.pc = "find"])
        \/ Local(p, [r EXCEPT !.list = all, !.pc = "ses"])
        \/ Local(p, [r EXCEPT !.list = all, !.pc = "find"])
        \/ Local(p, Failed(r))
    BY <1>6 DEF OpalGetIndices, r
  <2>2. ASSUME NEW l, NEW pc \in {"ses", "find"}, Local(p, [r EXCEPT !.list = l, !.pc = pc])
        PROVE  \E x : Becomes(p, x)
    <3> DEFINE s == [r EXCEPT !.list = l, !.pc = pc]
    <3>1. s.cmd = r.cmd /\ s.with = r.with /\ s.pc = pc /\ Local(p, s)
      BY <1>1, <2>2
    <3> HIDE DEF s
    <3> QED
      BY <1>2, <3>1
  <2> HIDE DEF attn, all
  <2> QED
    BY <1>0, <1>3, <2>1, <2>2
<1>7. CASE GetSesIndices(p)
  <2> DEFINE over == [r EXCEPT !.idx = 1, !.pc = IF platform = "opal" THEN "mv" ELSE "find"]
  <2>1. \/ Local(p, over)
        \/ \E i, l : Local(p, [r EXCEPT !.idx = i, !.list = l])
        \/ \E l : \E next \in {over, [r EXCEPT !.idx = r.idx + 1]} :
             Local(p, [next EXCEPT !.list = l, !.failed = TRUE])
    <3>1. CASE Local(p, over)
      BY <3>1
    <3>2. CASE Local(p, [r EXCEPT !.idx = r.idx + 1, !.list = IF SesOnce(r.idx)
                                   THEN ses_indicator_list(@, r.idx, Len(Enclosures[r.idx].leds)) ELSE @])
      <4> DEFINE l == IF SesOnce(r.idx) THEN ses_indicator_list(r.list, r.idx, Len(Enclosures[r.idx].leds))
                      ELSE r.list
      <4>1. Local(p, [r EXCEPT !.idx = r.idx + 1, !.list = l])
        BY <3>2
      <4> QED
        BY <4>1
    <3>3. CASE \E n \in 0 .. Len(Enclosures[r.idx].leds), next \in {over, [r EXCEPT !.idx = r.idx + 1]} :
                 Local(p, [next EXCEPT !.list = ses_indicator_list(@, r.idx, n), !.failed = TRUE])
      <4>1. PICK n \in 0 .. Len(Enclosures[r.idx].leds), next \in {over, [r EXCEPT !.idx = r.idx + 1]} :
              Local(p, [next EXCEPT !.list = ses_indicator_list(@, r.idx, n), !.failed = TRUE])
        BY <3>3
      <4> DEFINE l == ses_indicator_list(next.list, r.idx, n)
      <4>2. Local(p, [next EXCEPT !.list = l, !.failed = TRUE])
        BY <4>1
      <4> QED
        BY <4>2
    <3> QED
      BY <1>7, <3>1, <3>2, <3>3 DEF GetSesIndices, r
  <2>2. \A next \in {over, [r EXCEPT !.idx = r.idx + 1]} :
          /\ next.cmd = r.cmd /\ next.with = r.with /\ next.pc \in {"ses", "mv", "find"}
          /\ DOMAIN next = DOMAIN r
    BY <1>1, <1>7 DEF GetSesIndices, r
  <2> HIDE DEF over
  <2>3. ASSUME NEW i, NEW l, Local(p, [r EXCEPT !.idx = i, !.list = l])
        PROVE  \E x : Becomes(p, x)
    <3> DEFINE s == [r EXCEPT !.idx = i, !.list = l]
    <3>1. s.cmd = r.cmd /\ s.with = r.with /\ s.pc = r.pc /\ Local(p, s)
      BY <1>1, <2>3
    <3> HIDE DEF s
    <3> QED
      BY <1>0, <1>2, <3>1
  <2>4. ASSUME NEW l, NEW next \in {over, [r EXCEPT !.idx = r.idx + 1]},
               Local(p, [next EXCEPT !.list = l, !.failed = TRUE])
        PROVE  \E x : Becomes(p, x)
    <3> DEFINE s == [next EXCEPT !.list = l, !.failed = TRUE]
    <3>1. s.cmd = r.cmd /\ s.with = r.with /\ s.pc \in {"ses", "mv", "find"} /\ Local(p, s)
      BY <1>1, <2>2, <2>4
    <3> HIDE DEF s
    <3> QED
      BY <1>2, <3>1
  <2> QED
    BY <1>0, <1>2, <2>1, <2>2, <2>3, <2>4
<1>8. CASE GetMvIndices(p)
  <2>1. \/ Local(p, Failed(r)) \/ Local(p, [r EXCEPT !.pc = "find"])
        \/ \E i, l : Local(p, [r EXCEPT !.idx = i, !.list = l])
    <3> DEFINE b == Blocks[r.idx]
    <3>1. CASE Local(p, [r EXCEPT !.idx = IF Ends(b) THEN Len(Blocks) + 1 ELSE @ + 1,
                                  !.list = mv_indicator_list(@, b)])
      <4> DEFINE i == IF Ends(b) THEN Len(Blocks) + 1 ELSE r.idx + 1
                 l == mv_indicator_list(r.list, b)
      <4>1. Local(p, [r EXCEPT !.idx = i, !.list = l])
        BY <3>1
      <4> QED
        BY <4>1
    <3> QED
      BY <1>8, <3>1 DEF GetMvIndices, r
  <2>2. LET s == [r EXCEPT !.pc = "find"] IN s.cmd = r.cmd /\ s.with = r.with /\ s.pc = "find"
    BY <1>1
  <2>3. ASSUME NEW i, NEW l, Local(p, [r EXCEPT !.idx = i, !.list = l])
        PROVE  \E x : Becomes(p, x)
    <3> DEFINE s == [r EXCEPT !.idx = i, !.list = l]
    <3>1. s.cmd = r.cmd /\ s.with = r.with /\ s.pc = r.pc /\ Local(p, s)
      BY <1>1, <2>3
    <3> HIDE DEF s
    <3> QED
      BY <1>0, <1>2, <3>1
  <2> QED
    BY <1>0, <1>2, <1>3, <2>1, <2>2, <2>3
<1> QED
  BY <1>0, <1>4, <1>5, <1>6, <1>7, <1>8

(* The search only finds where to begin.                                   *)
LEMMA FindAsked ==
  ASSUME IndicatorInv, NEW p \in Procs, Find(p)
  PROVE  Running(p) /\ \E s : Becomes(p, s)
<1> DEFINE r == proc[p]
           D == Obtained(p)
<1>0. /\ CallInv(r) /\ r.pc = "find" /\ r.pc \in Retrieving /\ Running(p) /\ IsCall(r)
      /\ r.cur = 0 /\ r.io = 0 /\ r.shown = <<>>
      /\ r.cmd.kind \in {"print", "set", "all", "setall", "check"}
  BY CommandsAssumption DEF Find, IndicatorInv, Retrieving, Running, CallInv, PlaceInv, IsCall
<1>1. CASE Local(p, Failed(r))
  BY <1>0, <1>1, FailedAsked
<1>2. CASE r.cmd.kind = "check" /\ r.list # <<>> /\ Local(p, [r EXCEPT !.cur = 1, !.pc = "set"])
  <2> DEFINE s == [r EXCEPT !.cur = 1, !.pc = "set"]
  <2>1. /\ s.cmd = r.cmd /\ s.with = r.with /\ s.pc = "set" /\ s.io = 0 /\ s.list = r.list
        /\ proc' = [proc EXCEPT ![p] = s]
    BY <1>0, <1>2 DEF IsCall, Local
  <2> HIDE DEF s
  <2>2. Asked(s, D) /\ Ended(s, D) /\ Goes(r, s)
    BY <1>0, <1>2, <2>1 DEF Asked, Ended, Goes
  <2> QED
    BY <1>0, <2>1, <2>2 DEF Becomes
<1>3. CASE r.cmd.kind = "set" /\ \E n : Local(p, [r EXCEPT !.cur = n, !.pc = "read"])
  <2>0. PICK n : Local(p, [r EXCEPT !.cur = n, !.pc = "read"])
    BY <1>3
  <2> DEFINE s == [r EXCEPT !.cur = n, !.pc = "read"]
  <2>1. /\ s.cmd = r.cmd /\ s.with = r.with /\ s.pc = "read" /\ s.list = r.list
        /\ proc' = [proc EXCEPT ![p] = s]
    BY <1>0, <2>0 DEF IsCall, Local
  <2> HIDE DEF s
  <2>2. Asked(s, D) /\ Ended(s, D) /\ Goes(r, s)
    BY <1>0, <1>3, <2>1 DEF Asked, Ended, Goes
  <2> QED
    BY <1>0, <2>1, <2>2 DEF Becomes
<1>4. CASE r.cmd.kind \in {"print", "all", "setall"} /\ Local(p, GoThrough(r))
  <2> DEFINE s == GoThrough(r)
  <2>1. /\ s.cmd = r.cmd /\ s.with = r.with /\ s.list = r.list /\ s.shown = <<>>
        /\ \/ s.pc = "done" /\ s.list = <<>> /\ s.cur = 0
           \/ s.pc = "read" /\ s.cur = 1
        /\ proc' = [proc EXCEPT ![p] = s]
    <3>1. CASE r.list = <<>>
      BY <1>0, <1>4, <3>1 DEF IsCall, Local, GoThrough
    <3>2. CASE r.list # <<>>
      <4>1. s = [r EXCEPT !.cur = 1, !.pc = "read"] /\ proc' = [proc EXCEPT ![p] = s]
        BY <1>4, <3>2 DEF GoThrough, Local
      <4> HIDE DEF s
      <4> QED
        BY <1>0, <4>1 DEF IsCall
    <3> QED
      BY <3>1, <3>2
  <2> HIDE DEF s
  <2>2. Asked(s, D)
    BY <1>4, <2>1 DEF Asked
  <2>3. Ended(s, D)
    BY <1>4, <2>1 DEF Ended
  <2>4. Goes(r, s)
    BY <1>0, <1>4, <2>1 DEF Goes
  <2> QED
    BY <1>0, <2>1, <2>2, <2>3, <2>4 DEF Becomes
<1>5. CASE Local(p, [r EXCEPT !.pc = "crashed"])
  <2> DEFINE s == [r EXCEPT !.pc = "crashed"]
  <2>1. s.cmd = r.cmd /\ s.with = r.with /\ s.pc = "crashed" /\ proc' = [proc EXCEPT ![p] = s]
    BY <1>0, <1>5 DEF IsCall, Local
  <2> HIDE DEF s
  <2> QED
    BY <1>0, <2>1, BuildAsked
<1> QED
  <2>1. \/ Local(p, CASE r.cmd.kind = "set" -> LookUp(p)
                      [] r.cmd.kind = "check" -> CheckLog(r)
                      [] OTHER -> GoThrough(r))
        \/ Local(p, Failed(r))
    BY DEF Find, Cmd
  <2>2. LookUp(p) = Failed(r) \/ LookUp(p) = [r EXCEPT !.cur = Found(p), !.pc = "read"]
    BY DEF LookUp
  <2>3. \/ CheckLog(r) = [r EXCEPT !.pc = "crashed"]
        \/ r.list # <<>> /\ CheckLog(r) = [r EXCEPT !.cur = 1, !.pc = "set"]
    BY DEF CheckLog
  <2> QED
    BY <1>0, <1>1, <1>2, <1>3, <1>4, <1>5, <2>1, <2>2, <2>3

(* A step loses no light that is as asked.                                 *)
LEMMA HasStill ==
  ASSUME IndicatorInv, NEW p \in Procs, Acts(p), proc[p].pc \in OnEntries, Cmd(p)' = Cmd(p),
         proc[p].killed \subseteq proc'[p].killed
  PROVE  Satisfied(p) \subseteq Obtained(p)
<1> SUFFICES ASSUME NEW l \in Satisfied(p)
             PROVE  l \in Obtained(p)
  OBVIOUS
<1>1. /\ l \in Range(proc[p].list) /\ l \in Indicators /\ Cmd(p).type \in LedTypes
      /\ Lit(Cmd(p).type, l) = Cmd(p).val \/ Disturbed(p, l) \/ l \in proc[p].killed
  BY CommandsAssumption DEF Satisfied, IndicatorInv, CallInv, IsCall, Cmd, Range
<1>0. proc[p].cur # 0
  BY AtEntry DEF IndicatorInv
<1> DEFINE t == Cmd(p).type
<1>2. Lit(Cmd(p).type, l)' = Lit(t, l)'
  BY DEF Lit
<1>3. CASE Disturbed(p, l) \/ l \in proc[p].killed
  BY <1>0, <1>1, <1>3 DEF Obtained
<1>4. CASE Lit(t, l) = Cmd(p).val /\ Lit(t, l)' = Lit(t, l)
  BY <1>0, <1>1, <1>2, <1>4 DEF Obtained
<1>5. CASE Lit(t, l)' # Lit(t, l)
  <2>1. \/ Setting(p) /\ Led(p) = l /\ Cmd(p).type = t /\ Lit(t, l)' = Cmd(p).val
        \/ l \in Mv /\ raced
    BY <1>1, <1>5, LitStep
  <2> QED
    BY <1>0, <1>1, <1>2, <2>1 DEF Obtained, Disturbed
<1> QED
  BY <1>1, <1>3, <1>4, <1>5

(* Reading a light.                                                        *)
LEMMA GetAsked ==
  ASSUME IndicatorInv, NEW p \in Procs, Asked(proc[p], Satisfied(p)), GetIndicator(p)
  PROVE  Running(p) /\ \E s : Becomes(p, s)
<1> DEFINE t == Cmd(p).type
           v == Led(p) \in lit[t]
           st == proc[p].st
<1>1. PICK o \in Get(Led(p), v, st) : Local(p, GotState(p, o[1], o[2])) /\ UNCHANGED <<lit, reg>>
  BY DEF GetIndicator
<1>2. /\ CallInv(proc[p]) /\ Reading(p) /\ Led(p) \notin Mv /\ proc[p].pc \in OnEntries /\ Running(p)
      /\ st \in BOOLEAN
  BY DEF GetIndicator, IndicatorInv, CallInv, IsCall, Reading, OnEntries, Running
<1>3. o[1] \in BOOLEAN /\ o[2] \in BOOLEAN /\ (o[1] => (o[2] <=> v))
  <2>1. o = <<TRUE, v>> \/ o = <<FALSE, st>> \/ o = <<FALSE, v>>
    BY DEF Get, get_rtas_sensor, opal_get_indicator, get_ses_indicator
  <2>2. v \in BOOLEAN
    OBVIOUS
  <2> HIDE DEF v, st
  <2>3. CASE o = <<TRUE, v>>
    BY <2>2, <2>3
  <2>4. CASE o = <<FALSE, st>> \/ o = <<FALSE, v>>
    <3>1. PICK b \in BOOLEAN : o = <<FALSE, b>>
      BY <1>2, <2>2, <2>4, Zenon
    <3> QED
      BY <3>1
  <2> QED
    BY <2>1, <2>3, <2>4
<1> DEFINE s == GotState(p, o[1], o[2])
<1>4. /\ proc' = [proc EXCEPT ![p] = s] /\ s.cmd = proc[p].cmd /\ DOMAIN proc = Procs
      /\ s.killed = proc[p].killed
  BY <1>1, <1>2, <1>3, GotCall DEF Local, Kept, IndicatorInv, StateInv
<1> HIDE DEF s
<1>5. Cmd(p)' = Cmd(p) /\ Acts(p) /\ proc[p].killed \subseteq proc'[p].killed
  BY <1>4 DEF Cmd, Acts
<1>6. Asked(proc[p], Obtained(p))
  BY <1>2, <1>5, HasStill, AskedMore
<1>7. o[1] /\ o[2] = Cmd(p).val => Led(p) \in Obtained(p)
  <2>1. Led(p) \in Range(proc[p].list) /\ proc[p].cur # 0
    BY <1>2, DiskPort, AtEntry
  <2> DEFINE l == Led(p)
  <2>2. ASSUME NEW x, x = l, o[1], o[2] = Cmd(p).val
        PROVE  Lit(Cmd(p).type, x)' = Cmd(p).val
    <3>1. Lit(Cmd(p).type, x)' <=> v
      BY <1>1, <1>2, <1>5, <2>2 DEF Lit
    <3>2. Lit(Cmd(p).type, x)' <=> o[2]
      BY <1>3, <2>2, <3>1
    <3>3. CASE o[2]
      <4>1. o[2] = TRUE
        BY <1>3, <3>3
      <4>2. Lit(Cmd(p).type, x)' = TRUE
        BY <3>2, <3>3
      <4> QED
        BY <2>2, <4>1, <4>2
    <3>4. CASE ~o[2]
      <4>1. o[2] = FALSE
        BY <1>3, <3>4
      <4>2. Lit(Cmd(p).type, x)' = FALSE
        BY <3>2, <3>4
      <4> QED
        BY <2>2, <4>1, <4>2
    <3> QED
      BY <3>3, <3>4
  <2> QED
    BY <2>1, <2>2 DEF Obtained
<1>8. Asked(s, Obtained(p)) /\ Ended(s, Obtained(p)) /\ Goes(proc[p], s)
  BY <1>2, <1>3, <1>6, <1>7, GotAsked DEF s
<1> QED
  BY <1>2, <1>4, <1>8 DEF Becomes

(* Setting one.                                                            *)
LEMMA SetIndicatorAsked ==
  ASSUME IndicatorInv, NEW p \in Procs, Asked(proc[p], Satisfied(p)), SetIndicator(p)
  PROVE  Running(p) /\ \E s : Becomes(p, s)
<1>1. PICK o \in Set(Led(p)) :
        /\ Local(p, Noted(SetState(p, o[1]), Led(p), o))
        /\ lit' = IF ~o[2] THEN lit
                  ELSE [lit EXCEPT ![Cmd(p).type] =
                          IF Cmd(p).val THEN @ \cup {Led(p)} ELSE @ \ {Led(p)}]
  BY DEF SetIndicator
<1>2. /\ CallInv(proc[p]) /\ Setting(p) /\ Led(p) \notin Mv /\ proc[p].pc \in OnEntries /\ Running(p)
      /\ Cmd(p).val \in BOOLEAN /\ Cmd(p).type \in LedTypes
  BY CommandsAssumption DEF SetIndicator, IndicatorInv, CallInv, IsCall, Setting, OnEntries, Running, Cmd
<1>3. o[1] \in BOOLEAN /\ (o[1] /\ ~o[2] => o = <<TRUE, FALSE>>)
  <2>1. \/ o = <<TRUE, TRUE>> \/ o = <<FALSE, FALSE>>
        \/ o = <<FALSE, TRUE>> \/ o = <<TRUE, FALSE>>
    BY DEF Set, set_rtas_indicator, opal_set_indicator, set_ses_indicator
  <2>2. PICK a \in BOOLEAN, b \in BOOLEAN : o = <<a, b>>
    BY <2>1, Zenon
  <2>3. o[1] = a /\ o[2] = b
    BY <2>2
  <2>4. CASE a = TRUE /\ b = FALSE
    BY <2>2, <2>3, <2>4
  <2>5. CASE a = FALSE \/ b = TRUE
    BY <2>2, <2>3, <2>5
  <2> QED
    BY <2>4, <2>5
<1> DEFINE g == SetState(p, o[1])
           s == Noted(g, Led(p), o)
<1>4. /\ proc' = [proc EXCEPT ![p] = s] /\ s.cmd = proc[p].cmd /\ DOMAIN proc = Procs
      /\ s.with = g.with /\ s.io = g.io /\ s.cmd = g.cmd /\ s.pc = g.pc /\ s.list = g.list
      /\ s.cur = g.cur /\ s.rc = g.rc /\ s.failed = g.failed /\ s.shown = g.shown
      /\ proc[p].killed \subseteq s.killed /\ (o = <<TRUE, FALSE>> => Led(p) \in s.killed)
  <2>1. CallInv(g) /\ Kept(proc[p], g) /\ IsCall(g)
    BY <1>2, <1>3, SetCall DEF CallInv
  <2>2. o = <<TRUE, FALSE>> => Led(p) \in SesLeds
    BY KilledSes
  <2>3. proc' = [proc EXCEPT ![p] = s] /\ DOMAIN proc = Procs
    BY <1>1 DEF Local, IndicatorInv, StateInv
  <2> HIDE DEF g
  <2>4. /\ s.with = g.with /\ s.io = g.io /\ s.cmd = g.cmd /\ s.pc = g.pc /\ s.list = g.list
        /\ s.cur = g.cur /\ s.rc = g.rc /\ s.failed = g.failed /\ s.shown = g.shown
        /\ g.killed \subseteq s.killed /\ (o = <<TRUE, FALSE>> => Led(p) \in s.killed)
    <3>1. CASE o = <<TRUE, FALSE>>
      <4>1. s = [g EXCEPT !.killed = @ \union {Led(p)}]
        BY <3>1 DEF Noted
      <4> HIDE DEF s
      <4> QED
        BY <2>1, <2>2, <3>1, <4>1, NotedCall
    <3>2. CASE o # <<TRUE, FALSE>>
      BY <2>1, <3>2 DEF Noted
    <3> QED
      BY <3>1, <3>2
  <2> HIDE DEF s
  <2> QED
    BY <2>1, <2>3, <2>4 DEF Kept
<1> HIDE DEF s
<1>5. Cmd(p)' = Cmd(p) /\ Acts(p) /\ proc'[p] = s /\ proc[p].killed \subseteq proc'[p].killed
  BY <1>4 DEF Cmd, Acts
<1>6. Asked(proc[p], Obtained(p))
  BY <1>2, <1>5, HasStill, AskedMore
<1>7. o[1] => Led(p) \in Obtained(p)
  <2>1. Led(p) \in Range(proc[p].list) /\ proc[p].cur # 0
    BY <1>2, DiskPort, AtEntry
  <2>2. ASSUME NEW x, x = Led(p), o[1], o[2]
        PROVE  Lit(Cmd(p).type, x)' = Cmd(p).val
    <3>1. lit' = [lit EXCEPT ![Cmd(p).type] = IF Cmd(p).val THEN @ \cup {x} ELSE @ \ {x}]
      BY <1>1, <1>3, <2>2
    <3>2. lit \in [LedTypes -> SUBSET (Indicators \ Mv)]
      BY DEF IndicatorInv, StateInv
    <3>3. Lit(Cmd(p).type, x)' <=> x \in lit'[Cmd(p).type]
      BY <1>2, <1>5, <2>2 DEF Lit
    <3>4. CASE Cmd(p).val
      <4>1. Cmd(p).val = TRUE /\ x \in lit'[Cmd(p).type]
        BY <1>2, <3>1, <3>2, <3>4
      <4>2. Lit(Cmd(p).type, x)' = TRUE
        BY <3>3, <4>1
      <4> QED
        BY <4>1, <4>2
    <3>5. CASE ~Cmd(p).val
      <4>1. Cmd(p).val = FALSE /\ x \notin lit'[Cmd(p).type]
        BY <1>2, <3>1, <3>2, <3>5
      <4>2. Lit(Cmd(p).type, x)' = FALSE
        BY <3>3, <4>1
      <4> QED
        BY <4>1, <4>2
    <3> QED
      BY <3>4, <3>5
  <2>3. o[1] /\ ~o[2] => Led(p) \in proc'[p].killed
    BY <1>3, <1>4, <1>5
  <2> QED
    BY <2>1, <2>2, <2>3 DEF Obtained
<1>8. Asked(s, Obtained(p)) /\ Ended(s, Obtained(p)) /\ Goes(proc[p], s)
  <2>1. Asked(g, Obtained(p)) /\ Ended(g, Obtained(p)) /\ Goes(proc[p], g)
    BY <1>2, <1>3, <1>6, <1>7, SetAsked
  <2> HIDE DEF g
  <2> QED
    BY <1>4, <2>1 DEF Asked, Ended, Goes
<1> QED
  BY <1>2, <1>4, <1>8 DEF Becomes

(* A step inside the registers of the controller.                          *)
LEMMA InsideAsked ==
  ASSUME IndicatorInv, NEW p \in Procs, Acts(p), Asked(proc[p], Satisfied(p)),
         proc[p].pc \in OnEntries, NEW k, NEW b,
         proc' = [proc EXCEPT ![p] = [proc[p] EXCEPT !.io = k, !.buf = b]],
         Setting(p) /\ k = 4 => Led(p) \in Obtained(p)
  PROVE  \E s : Becomes(p, s)
<1> DEFINE r == proc[p]
           s == [r EXCEPT !.io = k, !.buf = b]
           D == Obtained(p)
<1>0. CallInv(r) /\ DOMAIN proc = Procs
  BY DEF IndicatorInv, StateInv
<1>1. /\ s.pc = r.pc /\ s.list = r.list /\ s.cmd = r.cmd /\ s.cur = r.cur /\ s.io = k
      /\ s.failed = r.failed /\ s.shown = r.shown /\ s.with = r.with
  BY <1>0 DEF CallInv, IsCall
<1>2. proc' = [proc EXCEPT ![p] = s]
  OBVIOUS
<1> HIDE DEF s
<1>3. Cmd(p)' = Cmd(p)
  BY <1>0, <1>1, <1>2 DEF Cmd
<1>4. Asked(r, D)
  BY <1>3, HasStill, AskedMore
<1>5. Asked(s, D)
  <2>1. s.pc \in {"set", "last"} /\ k = 4 => s.list[s.cur] \in D
    BY <1>1 DEF Setting, Led
  <2> QED
    BY <1>1, <1>4, <2>1 DEF Asked
<1>6. r.cur # 0
  BY <1>0, AtEntry
<1>7. Ended(s, D) /\ Goes(r, s)
  BY <1>1, <1>6 DEF Ended, Goes, OnEntries
<1> QED
  BY <1>2, <1>5, <1>7 DEF Becomes

(* The accesses to them.                                                   *)
LEMMA EnterAsked ==
  ASSUME IndicatorInv, NEW p \in Procs, Asked(proc[p], Satisfied(p)), MvEnter(p)
  PROVE  Running(p) /\ \E s : Becomes(p, s)
<1> DEFINE r == proc[p]
<1>0. /\ CallInv(r) /\ r.pc \in OnEntries /\ Running(p) /\ Acts(p) /\ DOMAIN proc = Procs
      /\ Reading(p) \/ Setting(p)
  <2>1. CallInv(r) /\ (Reading(p) \/ Setting(p)) /\ DOMAIN proc = Procs
    BY DEF MvEnter, IndicatorInv, StateInv
  <2> QED
    BY <2>1 DEF Reading, Setting, OnEntries, Running, Acts
<1>1. CASE Local(p, [r EXCEPT !.io = 1])
  <2>1. [r EXCEPT !.io = 1] = [r EXCEPT !.io = 1, !.buf = r.buf]
    BY <1>0 DEF CallInv, IsCall
  <2>2. proc' = [proc EXCEPT ![p] = [r EXCEPT !.io = 1, !.buf = r.buf]]
    BY <1>1, <2>1 DEF Local
  <2> HIDE DEF r
  <2>3. \E s : Becomes(p, s)
    BY <1>0, <2>2, 1 # 4, InsideAsked DEF r
  <2> QED
    BY <1>0, <2>3
<1>2. CASE Local(p, IF Reading(p) THEN GotState(p, FALSE, r.st) ELSE SetState(p, FALSE))
  <2> DEFINE s == IF Reading(p) THEN GotState(p, FALSE, r.st) ELSE SetState(p, FALSE)
  <2>1. r.st \in BOOLEAN
    BY <1>0 DEF CallInv, IsCall
  <2>2. Kept(r, s)
    BY <1>0, <2>1, GotCall, SetCall
  <2>3. proc' = [proc EXCEPT ![p] = s]
    BY <1>2 DEF Local
  <2>4. Cmd(p)' = Cmd(p) /\ proc[p].killed \subseteq proc'[p].killed
    <3> HIDE DEF s
    <3> QED
      BY <1>0, <2>2, <2>3 DEF Cmd, Kept
  <2>5. Asked(r, Obtained(p))
    BY <1>0, <2>4, HasStill, AskedMore
  <2>6. Asked(s, Obtained(p)) /\ Ended(s, Obtained(p)) /\ Goes(r, s)
    <3>1. CASE Reading(p)
      <4>1. s = GotState(p, FALSE, r.st)
        BY <3>1
      <4> HIDE DEF s
      <4> QED
        BY <1>0, <2>1, <2>5, <3>1, <4>1, GotAsked
    <3>2. CASE ~Reading(p)
      <4>1. s = SetState(p, FALSE)
        BY <3>2
      <4> HIDE DEF s
      <4> QED
        BY <1>0, <2>5, <3>2, <4>1, SetAsked
    <3> QED
      BY <3>1, <3>2
  <2> HIDE DEF s
  <2> QED
    BY <1>0, <2>3, <2>6 DEF Becomes
<1> QED
  BY <1>1, <1>2 DEF MvEnter

(* Reading one: what reads as asked is so, or it is disturbed.             *)
LEMMA ReadAsked ==
  ASSUME IndicatorInv, NEW p \in Procs, Asked(proc[p], Satisfied(p)), MvRead(p)
  PROVE  Running(p) /\ \E s : Becomes(p, s)
<1> DEFINE r == proc[p]
<1>0. /\ CallInv(r) /\ r.pc \in OnEntries /\ Running(p) /\ Acts(p) /\ DOMAIN proc = Procs
      /\ Reading(p) /\ ~Setting(p) /\ Inside(p) /\ r.io \in 0 .. 4
      /\ DOMAIN r = {"pc", "cmd", "mode", "list", "idx", "gen", "cur", "st", "io", "buf", "rc",
                     "shown", "failed", "killed", "with"}
  <2>1. CallInv(r) /\ Reading(p) /\ Inside(p) /\ DOMAIN proc = Procs
    BY DEF MvRead, IndicatorInv, StateInv
  <2> QED
    BY <2>1 DEF Reading, Setting, OnEntries, Running, Acts, CallInv, IsCall
<1> HIDE DEF r
<1>1. CASE r.io = 1
  <2>1. [r EXCEPT !.io = 1 + 1, !.buf = reg[addr]] = [[r EXCEPT !.io = @ + 1] EXCEPT !.buf = reg[addr]]
    BY <1>0, <1>1
  <2>2. proc' = [proc EXCEPT ![p] = [r EXCEPT !.io = 2, !.buf = reg[addr]]]
    BY <1>1, <2>1 DEF MvRead, Local, r
  <2> QED
    BY <1>0, <2>2, InsideAsked DEF r
<1>2. CASE r.io \in {2, 3}
  <2> DEFINE k == r.io + 1
  <2>1. [r EXCEPT !.io = @ + 1] = [r EXCEPT !.io = k, !.buf = r.buf]
    <3>1. [r EXCEPT !.io = @ + 1] = [r EXCEPT !.io = k]
      BY <1>0, <1>2
    <3> HIDE DEF k
    <3> QED
      BY <1>0, <3>1
  <2>2. proc' = [proc EXCEPT ![p] = [r EXCEPT !.io = k, !.buf = r.buf]]
    BY <1>2, <2>1 DEF MvRead, Local, r
  <2> HIDE DEF k
  <2> QED
    BY <1>0, <2>2, InsideAsked DEF r
<1>3. CASE r.io = 4
  <2> DEFINE ok == Port(Led(p)) <= MaxPort
             lights == Port(Led(p)) \notin r.buf
             v == IF ok THEN lights ELSE r.st
             s == GotState(p, ok, v)
  <2>1. ok \in BOOLEAN /\ v \in BOOLEAN /\ (ok => (v <=> lights))
    <3>1. r.st \in BOOLEAN
      BY <1>0 DEF CallInv, IsCall
    <3>2. ok => v = lights
      OBVIOUS
    <3>3. ~ok => v = r.st
      OBVIOUS
    <3>4. ok \in BOOLEAN /\ lights \in BOOLEAN
      OBVIOUS
    <3> HIDE DEF v, ok, lights
    <3>5. ok => v \in BOOLEAN
      BY <3>2, <3>4, Zenon
    <3>6. ~ok => v \in BOOLEAN
      BY <3>1, <3>3
    <3>7. v \in BOOLEAN
      BY <3>5, <3>6
    <3>8. ok => (v <=> lights)
      BY <3>2
    <3> QED
      BY <3>4, <3>7, <3>8 DEF ok, lights
  <2>2. proc' = [proc EXCEPT ![p] = s] /\ UNCHANGED reg
    BY <1>3 DEF MvRead, Local, r
  <2>3. Led(p) \in Mv /\ Cmd(p).type = "ident" /\ Led(p) \in Range(r.list) /\ r.cur # 0
    <3>1. Led(p) \in Mv
      BY <1>0, <1>3, 4 > 0 DEF CallInv, PlaceInv, Led, r
    <3> QED
      BY <1>0, <3>1, DiskPort, AtEntry DEF Cmd, r
  <2>4. ~raced => r.buf = reg["out"]
    <3>1. AloneInv
      BY DEF IndicatorInv
    <3> QED
      BY <1>0, <1>3, <3>1, 4 >= 2 DEF AloneInv, r
  <2> HIDE DEF ok, v
  <2>5. Kept(r, s)
    BY <1>0, <2>1, GotCall DEF r
  <2>6. Cmd(p)' = Cmd(p) /\ proc[p].killed \subseteq proc'[p].killed
    <3> HIDE DEF s
    <3> QED
      BY <1>0, <2>2, <2>5 DEF Cmd, Kept, r
  <2>7. Asked(r, Obtained(p))
    BY <1>0, <2>6, HasStill, AskedMore DEF r
  <2>8. ok /\ v = Cmd(p).val => Led(p) \in Obtained(p)
    <3>1. CASE raced
      BY <2>3, <3>1 DEF Obtained, Disturbed, r
    <3>2. CASE ~raced
      <4>1. ASSUME NEW x, x = Led(p), ok, v = Cmd(p).val
            PROVE  Lit(Cmd(p).type, x)' = Cmd(p).val
        <5>1. Lit(Cmd(p).type, x)' <=> Port(x) \notin reg["out"]
          BY <2>2, <2>3, <2>6, <4>1 DEF Lit
        <5>2. Lit(Cmd(p).type, x)' <=> v
          BY <2>1, <2>4, <3>2, <4>1, <5>1
        <5>3. CASE v
          <6>1. v = TRUE
            BY <2>1, <5>3
          <6>2. Lit(Cmd(p).type, x)' = TRUE
            BY <5>2, <5>3
          <6> QED
            BY <4>1, <6>1, <6>2
        <5>4. CASE ~v
          <6>1. v = FALSE
            BY <2>1, <5>4
          <6>2. Lit(Cmd(p).type, x)' = FALSE
            BY <5>2, <5>4
          <6> QED
            BY <4>1, <6>1, <6>2
        <5> QED
          BY <5>3, <5>4
      <4> QED
        BY <2>3, <4>1 DEF Obtained, r
    <3> QED
      BY <3>1, <3>2
  <2>9. Asked(s, Obtained(p)) /\ Ended(s, Obtained(p)) /\ Goes(r, s)
    BY <1>0, <2>1, <2>7, <2>8, GotAsked DEF r
  <2> HIDE DEF s
  <2> QED
    BY <1>0, <2>2, <2>9 DEF Becomes, r
<1>4. r.io \in 1 .. 4
  BY <1>0 DEF Inside, r
<1> QED
  BY <1>1, <1>2, <1>3, <1>4

(* Setting one: what is written is there to stay, or is disturbed.         *)
LEMMA WriteAsked ==
  ASSUME IndicatorInv, NEW p \in Procs, Asked(proc[p], Satisfied(p)), MvWrite(p)
  PROVE  Running(p) /\ \E s : Becomes(p, s)
<1> DEFINE r == proc[p]
<1>0. /\ CallInv(r) /\ r.pc \in OnEntries /\ Running(p) /\ Acts(p) /\ DOMAIN proc = Procs
      /\ Setting(p) /\ Inside(p) /\ r.io \in 0 .. 4
      /\ DOMAIN r = {"pc", "cmd", "mode", "list", "idx", "gen", "cur", "st", "io", "buf", "rc",
                     "shown", "failed", "killed", "with"}
  <2>1. CallInv(r) /\ Setting(p) /\ Inside(p) /\ DOMAIN proc = Procs
    BY DEF MvWrite, IndicatorInv, StateInv
  <2> QED
    BY <2>1 DEF Setting, OnEntries, Running, Acts, CallInv, IsCall
<1> HIDE DEF r
<1>1. CASE r.io = 1
  <2>1. [r EXCEPT !.io = 1 + 1, !.buf = reg[addr]] = [[r EXCEPT !.io = @ + 1] EXCEPT !.buf = reg[addr]]
    BY <1>0, <1>1
  <2>2. proc' = [proc EXCEPT ![p] = [r EXCEPT !.io = 2, !.buf = reg[addr]]] /\ 2 # 4
    BY <1>1, <2>1 DEF MvWrite, Local, r
  <2> QED
    BY <1>0, <2>2, InsideAsked DEF r
<1>2. CASE r.io = 2
  <2>1. [r EXCEPT !.io = @ + 1] = [r EXCEPT !.io = 3, !.buf = r.buf]
    <3>1. [r EXCEPT !.io = @ + 1] = [r EXCEPT !.io = 3]
      BY <1>0, <1>2
    <3> QED
      BY <1>0, <3>1
  <2>2. proc' = [proc EXCEPT ![p] = [r EXCEPT !.io = 3, !.buf = r.buf]] /\ 3 # 4
    BY <1>2, <2>1 DEF MvWrite, Local, r
  <2> QED
    BY <1>0, <2>2, InsideAsked DEF r
<1>3. CASE r.io = 3
  <2>1. [r EXCEPT !.io = @ + 1] = [r EXCEPT !.io = 4, !.buf = r.buf]
    <3>1. [r EXCEPT !.io = @ + 1] = [r EXCEPT !.io = 4]
      BY <1>0, <1>3
    <3> QED
      BY <1>0, <3>1
  <2> DEFINE x == [r EXCEPT !.io = 4, !.buf = r.buf]
  <2>2. proc' = [proc EXCEPT ![p] = x]
    BY <1>3, <2>1 DEF MvWrite, Local, r
  <2>3. x.cmd = r.cmd
    BY <1>0
  <2>4. Cmd(p)' = Cmd(p)
    <3> HIDE DEF x
    <3> QED
      BY <1>0, <2>2, <2>3 DEF Cmd, r
  <2>5. Led(p) \in Obtained(p)
    <3>1. Led(p) \in Mv
      BY <1>0, <1>3, 3 > 0 DEF CallInv, PlaceInv, Led, r
    <3>2. Led(p) \in Range(r.list) /\ Cmd(p).type = "ident" /\ r.cur # 0
      BY <1>0, <3>1, DiskPort, AtEntry DEF Cmd, r
    <3>3. CASE raced
      BY <3>1, <3>2, <3>3 DEF Obtained, Disturbed, r
    <3>4. CASE ~raced
      <4>1. \A l \in Mv : l = Led(p) => Lit("ident", l)' = Cmd(p).val
        BY <1>3, <3>4, LitWrite DEF r
      <4>2. ASSUME NEW l \in Mv, l = Led(p)
            PROVE  Lit(Cmd(p).type, l)' = Cmd(p).val
        <5>1. Lit(Cmd(p).type, l)' = Lit("ident", l)'
          BY <2>4, <3>2 DEF Lit
        <5> QED
          BY <4>1, <4>2, <5>1
      <4> QED
        BY <3>1, <3>2, <4>2 DEF Obtained, r
    <3> QED
      BY <3>3, <3>4
  <2> QED
    BY <1>0, <2>2, <2>5, InsideAsked DEF r
<1>4. CASE r.io = 4
  <2> DEFINE s == SetState(p, TRUE)
  <2>1. Kept(r, s)
    BY <1>0, SetCall DEF r
  <2>2. proc' = [proc EXCEPT ![p] = s]
    <3>1. Local(p, s)
      BY <1>4, 4 # 1, 4 # 2, 4 # 3 DEF MvWrite, r
    <3> HIDE DEF s
    <3> QED
      BY <3>1 DEF Local
  <2>3. Cmd(p)' = Cmd(p) /\ proc[p].killed \subseteq proc'[p].killed
    <3> HIDE DEF s
    <3> QED
      BY <1>0, <2>1, <2>2 DEF Cmd, Kept, r
  <2>4. Asked(r, Obtained(p))
    BY <1>0, <2>3, HasStill, AskedMore DEF r
  <2>5. Led(p) \in Obtained(p)
    BY <1>0, <1>4, <2>4 DEF Asked, Setting, Led, r
  <2>6. Asked(s, Obtained(p)) /\ Ended(s, Obtained(p)) /\ Goes(r, s)
    BY <1>0, <2>4, <2>5, SetAsked DEF r
  <2> HIDE DEF s
  <2> QED
    BY <1>0, <2>2, <2>6 DEF Becomes, r
<1>5. r.io \in 1 .. 4
  BY <1>0 DEF Inside, r
<1> QED
  BY <1>1, <1>2, <1>3, <1>4, <1>5

-----------------------------------------------------------------------------
(* Together: what the others do leaves a command what it has, and what it   *)
(* does itself is as asked.                                                *)

(* What a command may change stays so when it goes on, and it stays known   *)
(* to those that ran with it.                                              *)
LEMMA AimsStay ==
  ASSUME IndicatorInv, NEW q \in Procs, proc'[q] = proc[q] \/ Goes(proc[q], proc'[q])
  PROVE  /\ Aims(q) \subseteq Aims(q)'
         /\ \A l \in Aims(q) : proc'[q].cmd = proc[q].cmd
  BY DEF Aims, Goes, Led

(* What another command disturbs for a process stays disturbed.            *)
LEMMA DisturbedStays ==
  ASSUME IndicatorInv, NEW p \in Procs, Cmd(p)' = Cmd(p), proc[p].with \subseteq proc'[p].with,
         raced => raced', NEW l, Disturbed(p, l),
         \A q \in proc[p].with : /\ Aims(q) \subseteq Aims(q)'
                                 /\ \A x \in Aims(q) : proc'[q].cmd = proc[q].cmd
  PROVE  Disturbed(p, l)'
<1>1. CASE l \in Mv /\ raced
  BY <1>1 DEF Disturbed
<1>2. CASE \E q \in proc[p].with : proc[q].cmd.type = Cmd(p).type /\ l \in Aims(q)
  <2>1. PICK q \in proc[p].with : proc[q].cmd.type = Cmd(p).type /\ l \in Aims(q)
    BY <1>2
  <2>2. /\ q \in proc'[p].with /\ l \in Aims(q)' /\ proc'[q].cmd.type = proc[q].cmd.type
        /\ Cmd(p)'.type = Cmd(p).type
    BY <2>1
  <2> QED
    BY <2>1, <2>2 DEF Disturbed
<1> QED
  BY <1>1, <1>2 DEF Disturbed

(* The command of a process that sets a light aims at it.                  *)
LEMMA AimsAt ==
  ASSUME IndicatorInv, NEW q \in Procs, Setting(q)
  PROVE  Led(q) \in Aims(q) /\ Running(q)
<1>1. /\ proc[q].cur # 0 /\ proc[q].cmd.kind # "print" /\ Led(q) \in Range(proc[q].list)
      /\ proc[q].pc \in OnEntries
  <2>1. proc[q].pc \in {"set", "last"} /\ proc[q].pc \in OnEntries /\ CallInv(proc[q])
    BY DEF Setting, OnEntries, IndicatorInv
  <2>2. proc[q].cur # 0
    BY <2>1, AtEntry
  <2>3. proc[q].cmd.kind # "print"
    BY <2>1 DEF CallInv, PlaceInv
  <2> QED
    BY <2>1, <2>2, <2>3, DiskPort
<1>2. Running(q)
  BY DEF Setting, Running
<1> QED
  BY <1>1, <1>2 DEF Aims

(* A step of another process.                                              *)
LEMMA OthersKeep ==
  ASSUME IndicatorInv, WithInv, NEW q \in Procs, Acts(q), NEW s, Becomes(q, s),
         NEW p \in Procs, p # q, proc[p].pc \in OnEntries
  PROVE  Satisfied(p) \subseteq Satisfied(p)'
<1>1. /\ DOMAIN proc = Procs /\ proc'[q] = s /\ Goes(proc[q], s)
      /\ \A k \in Procs : k # q => proc'[k] = proc[k]
  BY DEF IndicatorInv, StateInv, Becomes
<1>2. proc'[p] = proc[p] /\ Cmd(p)' = Cmd(p)
  BY <1>1 DEF Cmd
<1>3. raced => raced'
  BY DEF Acts, GetRtasIndices, GetOpalMode, OpalGetIndices, GetSesIndices, GetMvIndices, Find,
     GetIndicator, SetIndicator, MvEnter, MvRead, MvWrite
<1>4. \A k \in Procs : Aims(k) \subseteq Aims(k)' /\ \A x \in Aims(k) : proc'[k].cmd = proc[k].cmd
  BY <1>1, AimsStay
<1>5. proc[p].with \in SUBSET Procs
  BY DEF IndicatorInv, CallInv, IsCall
<1>6. \A l : Disturbed(p, l) => Disturbed(p, l)'
  BY <1>2, <1>3, <1>4, <1>5, DisturbedStays
<1> SUFFICES ASSUME NEW l \in Satisfied(p)
             PROVE  l \in Satisfied(p)'
  OBVIOUS
<1>7. /\ l \in Range(proc[p].list) /\ l \in Indicators /\ Cmd(p).type \in LedTypes
      /\ Lit(Cmd(p).type, l) = Cmd(p).val \/ Disturbed(p, l) \/ l \in proc[p].killed
  BY CommandsAssumption DEF Satisfied, IndicatorInv, CallInv, IsCall, Cmd, Range
<1> PICK t \in LedTypes : t = Cmd(p).type
  BY <1>7
<1>8. Lit(Cmd(p).type, l)' = Lit(t, l)' /\ Lit(Cmd(p).type, l) = Lit(t, l)
  BY <1>2 DEF Lit
<1>9. l \in Range(proc'[p].list) /\ Cmd(p)'.val = Cmd(p).val
  BY <1>2, <1>7
<1>10. CASE Disturbed(p, l) \/ l \in proc[p].killed
  BY <1>2, <1>6, <1>9, <1>10 DEF Satisfied
<1>11. CASE Lit(t, l) = Cmd(p).val /\ Lit(t, l)' = Lit(t, l)
  BY <1>8, <1>9, <1>11 DEF Satisfied
<1>12. CASE Lit(t, l)' # Lit(t, l)
  <2>1. CASE l \in Mv /\ raced
    <3>1. Disturbed(p, l)
      BY <2>1 DEF Disturbed
    <3> QED
      BY <1>10, <3>1
  <2>2. CASE Setting(q) /\ Led(q) = l /\ Cmd(q).type = t
    <3>1. q \in proc[p].with
      <4>1. Running(q) /\ Running(p)
        BY <2>2, AimsAt DEF Running, OnEntries
      <4> QED
        BY <4>1 DEF WithInv
    <3>2. Disturbed(p, l)
      BY <2>2, <3>1, AimsAt DEF Disturbed, Cmd
    <3> QED
      BY <1>10, <3>2
  <2>3. Lit(t, l) # Lit(t, l)'
    BY <1>12
  <2>4. \/ Setting(q) /\ Led(q) = l /\ Cmd(q).type = t
        \/ l \in Mv /\ raced
    BY <1>7, <2>3, LitStep
  <2> QED
    BY <2>1, <2>2, <2>4
<1> QED
  BY <1>7, <1>8, <1>10, <1>11, <1>12

(* A step of its own.                                                      *)
LEMMA OwnKeep ==
  ASSUME IndicatorInv, NEW p \in Procs, Acts(p), NEW s, Becomes(p, s), s.pc \in OnEntries
  PROVE  Asked(s, Satisfied(p)')
<1>1. /\ DOMAIN proc = Procs /\ proc'[p] = s /\ Goes(proc[p], s) /\ Asked(s, Obtained(p))
      /\ \A k \in Procs : k # p => proc'[k] = proc[k]
  BY DEF IndicatorInv, StateInv, Becomes
<1>2. CASE proc[p].cur # 0
  <2>1. Cmd(p)' = Cmd(p) /\ proc'[p].list = proc[p].list /\ proc'[p].with = proc[p].with
    BY <1>1, <1>2 DEF Goes, Cmd
  <2>2. raced => raced'
    BY DEF Acts, GetRtasIndices, GetOpalMode, OpalGetIndices, GetSesIndices, GetMvIndices, Find,
       GetIndicator, SetIndicator, MvEnter, MvRead, MvWrite
  <2>3. \A k \in Procs : Aims(k) \subseteq Aims(k)' /\ \A x \in Aims(k) : proc'[k].cmd = proc[k].cmd
    BY <1>1, AimsStay
  <2>4. proc[p].with \in SUBSET Procs
    BY DEF IndicatorInv, CallInv, IsCall
  <2>5. \A l : Disturbed(p, l) => Disturbed(p, l)'
    BY <2>1, <2>2, <2>3, <2>4, DisturbedStays
  <2>6. Obtained(p) \subseteq Satisfied(p)'
    BY <2>1, <2>5 DEF Obtained, Satisfied
  <2> QED
    BY <1>1, <2>6, AskedMore
<1>3. CASE proc[p].cur = 0
  <2>1. Obtained(p) \subseteq Satisfied(p)'
    BY <1>3 DEF Obtained
  <2> QED
    BY <1>1, <2>1, AskedMore
<1> QED
  BY <1>2, <1>3

(* What a process that starts changes of the others: only whom they know.  *)
LEMMA StartStep ==
  ASSUME IndicatorInv, NEW p \in Procs, Start(p)
  PROVE  /\ proc[p].pc = "idle" /\ proc[p].cur = 0
         /\ proc'[p].pc \in {"mode", "list"} /\ proc'[p].with = {q \in Procs : Running(q)}
         /\ \A q \in Procs : q # p =>
              /\ proc'[q].pc = proc[q].pc /\ proc'[q].cmd = proc[q].cmd
              /\ proc'[q].list = proc[q].list /\ proc'[q].cur = proc[q].cur
              /\ proc'[q].io = proc[q].io /\ proc'[q].shown = proc[q].shown
              /\ proc'[q].failed = proc[q].failed /\ proc'[q].killed = proc[q].killed
              /\ proc'[q].with = IF Running(q) THEN proc[q].with \cup {p} ELSE proc[q].with
<1>1. PICK c \in {d \in Commands : probe_indicator(d) /\ Accepted(d)} :
        \E junk \in IF c.kind = "all" THEN BOOLEAN ELSE {FALSE} :
          LET others == {q \in Procs : Running(q)} IN
          proc' = [q \in Procs |->
            IF q = p THEN [NoCall EXCEPT !.cmd = c, !.with = others, !.st = junk,
                             !.pc = IF c.type = "fault" THEN "mode" ELSE "list"]
            ELSE IF q \in others THEN [proc[q] EXCEPT !.with = @ \cup {p}] ELSE proc[q]]
  BY DEF Start
<1> DEFINE others == {q \in Procs : Running(q)}
<1>2. PICK junk \in BOOLEAN :
        proc' = [q \in Procs |->
          IF q = p THEN [NoCall EXCEPT !.cmd = c, !.with = others, !.st = junk,
                           !.pc = IF c.type = "fault" THEN "mode" ELSE "list"]
          ELSE IF q \in others THEN [proc[q] EXCEPT !.with = @ \cup {p}] ELSE proc[q]]
  BY <1>1
<1>3. proc[p].pc = "idle" /\ proc[p].cur = 0
  BY DEF Start, IndicatorInv, CallInv, PlaceInv, Retrieving
<1>4. proc'[p].pc \in {"mode", "list"} /\ proc'[p].with = others
  BY <1>2 DEF NoCall
<1>5. ASSUME NEW q \in Procs, q # p
      PROVE  /\ proc'[q].pc = proc[q].pc /\ proc'[q].cmd = proc[q].cmd
             /\ proc'[q].list = proc[q].list /\ proc'[q].cur = proc[q].cur
             /\ proc'[q].io = proc[q].io /\ proc'[q].shown = proc[q].shown
             /\ proc'[q].failed = proc[q].failed /\ proc'[q].killed = proc[q].killed
             /\ proc'[q].with = IF Running(q) THEN proc[q].with \cup {p} ELSE proc[q].with
  <2>1. IsCall(proc[q])
    BY DEF IndicatorInv, CallInv
  <2>2. CASE Running(q)
    <3>1. proc'[q] = [proc[q] EXCEPT !.with = @ \cup {p}]
      BY <1>2, <1>5, <2>2
    <3> QED
      BY <2>1, <2>2, <3>1 DEF IsCall
  <2>3. CASE ~Running(q)
    BY <1>2, <1>5, <2>3
  <2> QED
    BY <2>2, <2>3
<1> QED
  BY <1>3, <1>4, <1>5

(* So a process that starts spoils what no other has done,                 *)
LEMMA StartKeeps ==
  ASSUME IndicatorInv, DoneInv, NEW p \in Procs, Start(p)
  PROVE  DoneInv'
<1>1. /\ proc[p].pc = "idle" /\ proc[p].cur = 0
      /\ proc'[p].pc \in {"mode", "list"} /\ proc'[p].with = {q \in Procs : Running(q)}
      /\ \A q \in Procs : q # p =>
           /\ proc'[q].pc = proc[q].pc /\ proc'[q].cmd = proc[q].cmd
           /\ proc'[q].list = proc[q].list /\ proc'[q].cur = proc[q].cur
           /\ proc'[q].io = proc[q].io /\ proc'[q].shown = proc[q].shown
           /\ proc'[q].failed = proc[q].failed /\ proc'[q].killed = proc[q].killed
           /\ proc'[q].with = IF Running(q) THEN proc[q].with \cup {p} ELSE proc[q].with
  BY StartStep
<1>2. WithInv'
  <2>1. WithInv
    BY DEF DoneInv
  <2>2. \A q \in Procs : q # p => (Running(q)' <=> Running(q))
    BY <1>1 DEF Running
  <2>3. ASSUME NEW q \in Procs, NEW k \in Procs
        PROVE  /\ q # k /\ Running(q)' /\ Running(k)' => k \in proc'[q].with
               /\ k \in proc'[q].with => proc'[k].pc # "idle"
    <3>1. CASE q = p /\ k # p
      BY <1>1, <2>2, <3>1 DEF Running
    <3>2. CASE q # p /\ k = p
      BY <1>1, <2>2, <3>2
    <3>3. CASE q # p /\ k # p
      <4>1. /\ q # k /\ Running(q) /\ Running(k) => k \in proc[q].with
            /\ k \in proc[q].with => proc[k].pc # "idle"
        BY <2>1 DEF WithInv
      <4>2. proc'[k].pc = proc[k].pc /\ (k \in proc'[q].with <=> k \in proc[q].with)
        <5>1. proc'[k].pc = proc[k].pc
          BY <1>1, <3>3
        <5>2. proc'[q].with = IF Running(q) THEN proc[q].with \cup {p} ELSE proc[q].with
          BY <1>1, <3>3
        <5>3. k \in proc'[q].with <=> k \in proc[q].with
          BY <3>3, <5>2
        <5> QED
          BY <5>1, <5>3
      <4> QED
        BY <2>2, <3>3, <4>1, <4>2
    <3>4. CASE q = p /\ k = p
      BY <1>1, <3>4
    <3> QED
      BY <3>1, <3>2, <3>3, <3>4
  <2> QED
    BY <2>3 DEF WithInv
<1>3. ASSUME NEW q \in Procs, q # p
      PROVE  Asked(proc[q], Satisfied(q))'
  <2>1. Cmd(q)' = Cmd(q) /\ proc[q].with \subseteq proc'[q].with /\ proc[q].with \in SUBSET Procs
    <3>1. proc'[q].cmd = proc[q].cmd
      BY <1>1, <1>3
    <3>2. proc[q].with \subseteq proc'[q].with
      <4>1. CASE Running(q)
        BY <1>1, <1>3, <4>1
      <4>2. CASE ~Running(q)
        BY <1>1, <1>3, <4>2
      <4> QED
        BY <4>1, <4>2
    <3>3. proc[q].with \in SUBSET Procs
      BY DEF IndicatorInv, CallInv, IsCall
    <3> QED
      BY <3>1, <3>2, <3>3 DEF Cmd
  <2>2. UNCHANGED <<lit, reg, raced>>
    BY DEF Start
  <2>3. \A k \in Procs : Aims(k) \subseteq Aims(k)' /\ \A x \in Aims(k) : proc'[k].cmd = proc[k].cmd
    <3> TAKE k \in Procs
    <3>1. CASE k = p
      BY <1>1, <3>1 DEF Aims
    <3>2. CASE k # p
      BY <1>1, <3>2 DEF Aims, Led
    <3> QED
      BY <3>1, <3>2
  <2>4. \A l : Disturbed(q, l) => Disturbed(q, l)'
    BY <2>1, <2>2, <2>3, DisturbedStays
  <2>5. \A l : Lit(Cmd(q).type, l)' = Lit(Cmd(q).type, l)
    BY <2>1, <2>2 DEF Lit
  <2>6. Satisfied(q) \subseteq Satisfied(q)'
    BY <1>1, <1>3, <2>1, <2>4, <2>5 DEF Satisfied
  <2>7. Asked(proc[q], Satisfied(q)')
    BY <2>6, AskedMore DEF DoneInv
  <2> QED
    BY <1>1, <1>3, <2>7 DEF Asked
<1>4. Asked(proc[p], Satisfied(p))'
  BY <1>1 DEF Asked
<1> QED
  BY <1>2, <1>3, <1>4 DEF DoneInv

(* What a step of a process leaves all of them.                            *)
LEMMA StepAsked ==
  ASSUME IndicatorInv, DoneInv, NEW p \in Procs, Acts(p)
  PROVE  Running(p) /\ \E s : Becomes(p, s)
<1>1. Asked(proc[p], Satisfied(p))
  BY DEF DoneInv
<1> QED
  BY <1>1, RetrieveAsked, FindAsked, GetAsked, SetIndicatorAsked, EnterAsked, ReadAsked, WriteAsked
     DEF Acts

(* nor does one that goes on,                                              *)
LEMMA StepKeeps ==
  ASSUME IndicatorInv, DoneInv, NEW p \in Procs, Acts(p)
  PROVE  DoneInv'
<1>1. PICK s : Becomes(p, s)
  BY StepAsked
<1>2. /\ DOMAIN proc = Procs /\ proc'[p] = s /\ Goes(proc[p], s) /\ Asked(s, Obtained(p))
      /\ \A q \in Procs : q # p => proc'[q] = proc[q]
      /\ Running(p)
  BY <1>1, StepAsked DEF IndicatorInv, StateInv, Becomes
<1>3. WithInv'
  <2>1. WithInv
    BY DEF DoneInv
  <2>2. \A q \in Procs : /\ proc'[q].with = proc[q].with /\ (Running(q)' => Running(q))
                         /\ proc[q].pc # "idle" => proc'[q].pc # "idle"
    BY <1>2 DEF Goes, Running
  <2> QED
    BY <2>1, <2>2 DEF WithInv
<1>4. Asked(s, Satisfied(p)')
  <2>1. CASE s.pc \in OnEntries
    BY <1>1, <2>1, OwnKeep
  <2>2. CASE s.pc \notin OnEntries
    BY <2>2 DEF Asked, OnEntries
  <2> QED
    BY <2>1, <2>2
<1>5. ASSUME NEW q \in Procs, q # p
      PROVE  Asked(proc[q], Satisfied(q)')
  <2>1. CASE proc[q].pc \in OnEntries
    <3>1. WithInv /\ Asked(proc[q], Satisfied(q))
      BY DEF DoneInv
    <3> QED
      BY <1>1, <1>5, <2>1, <3>1, OthersKeep, AskedMore
  <2>2. CASE proc[q].pc \notin OnEntries
    BY <2>2 DEF Asked, OnEntries
  <2> QED
    BY <2>1, <2>2
<1>6. ASSUME NEW q \in Procs
      PROVE  Asked(proc'[q], Satisfied(q)')
  <2>1. CASE q = p
    BY <1>2, <1>4, <2>1
  <2>2. CASE q # p
    BY <1>2, <1>5, <2>2
  <2> QED
    BY <2>1, <2>2
<1>7. \A q \in Procs : Asked(proc[q], Satisfied(q))'
  BY <1>6 DEF Asked
<1> QED
  BY <1>3, <1>7 DEF DoneInv

(* nor does any step.                                                      *)
LEMMA DoneNext ==
  ASSUME IndicatorInv, DoneInv, [IndicatorNext]_indicatorVars
  PROVE  DoneInv'
<1>1. ASSUME UNCHANGED <<lit, reg, raced, proc>>
      PROVE  DoneInv'
  <2>1. WithInv'
    BY <1>1 DEF DoneInv, WithInv, Running
  <2>2. ASSUME NEW p \in Procs
        PROVE  Asked(proc[p], Satisfied(p))'
    <3>1. \A l : Disturbed(p, l)' <=> Disturbed(p, l)
      BY <1>1 DEF Disturbed, Aims, Led, Cmd
    <3>2. \A l : Lit(Cmd(p).type, l)' = Lit(Cmd(p).type, l)
      BY <1>1 DEF Lit, Cmd
    <3>3. Satisfied(p)' = Satisfied(p)
      BY <1>1, <3>1, <3>2 DEF Satisfied, Cmd
    <3> QED
      BY <1>1, <3>3 DEF DoneInv, Asked
  <2> QED
    BY <2>1, <2>2 DEF DoneInv
<1>2. (\E t \in LedTypes : Plug(t)) \/ UNCHANGED indicatorVars => UNCHANGED <<lit, reg, raced, proc>>
  BY DEF Plug, indicatorVars
<1> QED
  BY <1>1, <1>2, StartKeeps, StepKeeps DEF IndicatorNext, Acts

(* At first nobody has been asked for anything.                            *)
LEMMA FirstDone == IndicatorInit => DoneInv
<1> SUFFICES ASSUME IndicatorInit
             PROVE  DoneInv
  OBVIOUS
<1>1. \A p \in Procs : proc[p] = NoCall
  BY DEF IndicatorInit
<1>2. NoCall.pc = "idle" /\ NoCall.with = {}
  BY DEF NoCall
<1>3. \A p \in Procs : proc[p].pc = "idle" /\ proc[p].with = {}
  BY <1>1, <1>2
<1> QED
  BY <1>3 DEF DoneInv, WithInv, Running, Asked

(* The step in which a command ends.                                       *)
LEMMA EndsAsAsked ==
  ASSUME IndicatorInv, DoneInv, [IndicatorNext]_indicatorVars, NEW p \in Procs,
         proc[p].pc # "done", proc'[p].pc = "done"
  PROVE  LET r == proc'[p]
             kind == Cmd(p).kind
             listed == Range(proc[p].list)
             as(l) == Lit(Cmd(p).type, l)' = Cmd(p).val \/ Disturbed(p, l) \/ l \in r.killed
         IN /\ kind \in {"set", "check"} /\ r.rc = 0 => as(Led(p))
            /\ kind \in {"all", "setall"} /\ ~r.failed => \A l \in listed : as(l)
            /\ kind \in {"all", "print"} /\ ~r.failed => Len(r.shown) = Len(proc[p].list)
<1>1. Acts(p)
  <2>1. ASSUME NEW q \in Procs, Start(q)
        PROVE  FALSE
    <3>1. /\ proc'[q].pc \in {"mode", "list"}
          /\ \A k \in Procs : k # q => proc'[k].pc = proc[k].pc
      BY <2>1, StartStep
    <3> QED
      BY <3>1
  <2>2. ASSUME NEW q \in Procs, Acts(q), q # p
        PROVE  FALSE
    <3>1. PICK s : Becomes(q, s)
      BY <2>2, StepAsked
    <3> QED
      BY <2>2, <3>1 DEF Becomes, IndicatorInv, StateInv
  <2>3. ASSUME (\E t \in LedTypes : Plug(t)) \/ UNCHANGED indicatorVars
        PROVE  FALSE
    BY <2>3 DEF Plug, indicatorVars
  <2> QED
    BY <2>1, <2>2, <2>3 DEF IndicatorNext, Acts
<1>2. PICK s : Becomes(p, s)
  BY <1>1, StepAsked
<1>3. proc'[p] = s /\ Goes(proc[p], s) /\ Ended(s, Obtained(p))
  BY <1>2 DEF IndicatorInv, StateInv, Becomes
<1>4. Cmd(p)' = Cmd(p) /\ s.cmd = Cmd(p) /\ s.pc = "done"
  BY <1>3 DEF Goes, Cmd
<1>5. ASSUME Cmd(p).kind \in {"set", "check"}, s.rc = 0
      PROVE  /\ Led(p)' = Led(p)
             /\ \/ Lit(Cmd(p).type, Led(p))' = Cmd(p).val
                \/ Disturbed(p, Led(p)) \/ Led(p) \in s.killed
  <2>1. s.list[s.cur] \in Obtained(p)
    BY <1>3, <1>4, <1>5 DEF Ended
  <2>2. s.list = proc[p].list /\ s.cur = proc[p].cur
    BY <1>3, <1>4, <1>5, <2>1 DEF Obtained, Goes, Cmd
  <2>3. Led(p)' = Led(p) /\ Led(p) \in Obtained(p)
    BY <1>3, <2>1, <2>2 DEF Led
  <2>4. PICK l : l = Led(p)
    OBVIOUS
  <2>5. Lit(Cmd(p).type, l)' = Cmd(p).val \/ Disturbed(p, l) \/ l \in s.killed
    BY <1>3, <2>3, <2>4 DEF Obtained
  <2>6. Lit(Cmd(p).type, Led(p))' = Lit(Cmd(p).type, l)'
    BY <2>3, <2>4 DEF Lit
  <2> QED
    BY <2>3, <2>4, <2>5, <2>6
<1>6. ASSUME Cmd(p).kind \in {"all", "setall"}, ~s.failed
      PROVE  \A l \in Range(proc[p].list) :
               Lit(Cmd(p).type, l)' = Cmd(p).val \/ Disturbed(p, l) \/ l \in s.killed
  <2>1. \A i \in DOMAIN s.list : s.list[i] \in Obtained(p)
    BY <1>3, <1>4, <1>6 DEF Ended
  <2>2. s.list = proc[p].list
    BY <1>3, <1>4, <1>6 DEF Goes
  <2> QED
    BY <1>3, <2>1, <2>2 DEF Obtained, Range
<1>7. ASSUME Cmd(p).kind \in {"all", "print"}, ~s.failed
      PROVE  Len(s.shown) = Len(proc[p].list)
  <2>1. s.list = proc[p].list
    BY <1>3, <1>4, <1>7 DEF Goes
  <2> QED
    BY <1>3, <1>4, <1>7, <2>1 DEF Ended
<1> QED
  BY <1>3, <1>4, <1>5, <1>6, <1>7

(* A command that ends well has done what it was asked, unless one on the   *)
(* same light overlapped it, two were in the registers at once, or a signal *)
(* killed the encl_led of the light, which counts as success (main in       *)
(* usysident.c, set_all_indicator_state, set_ses_indicator).                *)
THEOREM CommandsDoneAsAsked == IndicatorSpec => DoneAsAsked
<1>1. IndicatorInv /\ DoneInv /\ [IndicatorNext]_indicatorVars => DoneInv'
  BY DoneNext
<1>2. IndicatorInv /\ DoneInv /\ [IndicatorNext]_indicatorVars =>
        [\A p \in Procs : proc[p].pc # "done" /\ proc'[p].pc = "done" =>
           LET r == proc'[p]
               kind == Cmd(p).kind
               listed == Range(proc[p].list)
               as(l) == Lit(Cmd(p).type, l)' = Cmd(p).val \/ Disturbed(p, l) \/ l \in r.killed
           IN /\ kind \in {"set", "check"} /\ r.rc = 0 => as(Led(p))
              /\ kind \in {"all", "setall"} /\ ~r.failed => \A l \in listed : as(l)
              /\ kind \in {"all", "print"} /\ ~r.failed =>
                    Len(r.shown) = Len(proc[p].list)]_indicatorVars
  BY EndsAsAsked
<1> QED
  BY <1>1, <1>2, FirstDone, IndicatorAlways, PTL DEF IndicatorSpec, DoneAsAsked
=============================================================================

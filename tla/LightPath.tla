----------------------------- MODULE LightPath -----------------------------
(***************************************************************************)
(* lp_diag: the fault indicators (LEDs) of the machine follow the events   *)
(* of the servicelog.                                                      *)
(*                                                                         *)
(* For every serviceable event that is logged, and for every repair that   *)
(* closes some, the notification mechanism runs one lp_diag process.       *)
(* A service process lights the indicators of the event's callouts.  A     *)
(* repair process reads which events are still open and switches off the   *)
(* indicators of the events it closed, except those that an open event     *)
(* needs.  The processes run concurrently and without a lock.              *)
(*                                                                         *)
(* Reading an indicator's state and setting it only if it differs          *)
(* (set_fault_indicator) is one step: that of the setting if there is one, *)
(* or else that of the reading.                                            *)
(***************************************************************************)
EXTENDS Integers, Sequences, FiniteSetsExt

CONSTANTS
  Contents,    \* what an event may hold
  Leds,        \* the locations that have a fault indicator
  Attn,        \* the location of the first, the system attention indicator
  Modes,       \* the operating modes of the platform to consider
  MaxEvents,   \* bound: events logged
  MaxRepairs,  \* bound: repairs
  MaxFaults    \* bound: failures, of an indicator or of a process

(* A location code is a sequence of labels, which the code separates by    *)
(* "-"; the code of a callout may end in spaces.                           *)
Locations  == [path : Seq(STRING), padded : BOOLEAN]
Priorities == {"H", "M", "A", "B", "C", "L"}
Kinds      == {"os", "enclosure", "rtas", "other"}

ASSUME ConstantsAssumption ==
  /\ \A c \in Contents :
       /\ c.kind \in Kinds
       /\ \A o \in c.callouts : o.location \in Locations /\ o.priority \in Priorities
  /\ Leds \subseteq Seq(STRING) \ {<<>>} /\ Attn \in Leds
  /\ Modes \subseteq {"lightpath", "guiding"} /\ Modes # {}
  /\ MaxEvents \in Nat /\ MaxRepairs \in Nat /\ MaxFaults \in Nat

Events  == 1 .. MaxEvents
Repairs == 1 .. MaxRepairs
Nowhere == <<>>  \* no indicator

-----------------------------------------------------------------------------
VARIABLES
  mode,     \* the operating mode of the platform
  logged,   \* the events 1 .. logged are in the servicelog
  content,  \* what they hold
  closedBy, \* the repair that closed each, or 0
  repaired, \* the repairs 1 .. repaired are in the servicelog
  led,      \* the indicators that are lit
  service,  \* the lp_diag processes of the events
  repair,   \* the lp_diag processes of the repairs
  faults,
  (* Kept for the properties only: *)
  excused   \* the indicators that were last set too late or not at all

servicelog == <<logged, content, closedBy, repaired>>
vars == <<mode, servicelog, led, service, repair, faults, excused>>

(* A process has not begun, or still has to set the indicators of todo and *)
(* then, if attn holds, the attention indicator.  Of a repair process  *)
(* the properties also know which events were open when it read them.      *)
Processes == [pc : {"none", "start", "set"}, todo : SUBSET Leds, attn : BOOLEAN,
              seen : SUBSET Events]
NoProcess == [pc |-> "none", todo |-> {}, attn |-> FALSE, seen |-> {}]
Started   == [NoProcess EXCEPT !.pc = "start"]
Sets(todo, attn, seen) ==
  IF todo = {} /\ ~attn THEN NoProcess
  ELSE [pc |-> "set", todo |-> todo, attn |-> attn, seen |-> seen]

NoContent == [kind |-> "other", callouts |-> {}]

Init ==
  /\ mode \in Modes
  /\ logged = 0 /\ content = [e \in Events |-> NoContent]
  /\ closedBy = [e \in Events |-> 0] /\ repaired = 0
  /\ led = {}
  /\ service = [e \in Events |-> NoProcess] /\ repair = [r \in Repairs |-> NoProcess]
  /\ faults = 0 /\ excused = {}

-----------------------------------------------------------------------------
(* From callouts to indicators.                                            *)

(* get_fru_indicator: the indicator nearest to a location, found by        *)
(* truncating it one label at a time.                                      *)
Nearest(path) ==
  LET n == {k \in 1 .. Len(path) : SubSeq(path, 1, k) \in Leds}
  IN  IF n = {} THEN Nowhere ELSE SubSeq(path, 1, Max(n))

(* event_fru_callout trims spaces from the location first;                 *)
(* build_callout_loc_code does not, and the spaces go with the last label. *)
Trimmed(loc)   == Nearest(loc.path)
Untrimmed(loc) ==
  IF loc.padded THEN Nearest(SubSeq(loc.path, 1, Len(loc.path) - 1)) ELSE Nearest(loc.path)

Supported(e) == content[e].kind \in {"os", "enclosure", "rtas"}

(* A service process looks only at the callouts of priority H of an RTAS   *)
(* event; it lights the attention indicator for a callout without any      *)
(* indicator, and for an event without callouts.                           *)
Considered(e) ==
  {o.location : o \in {p \in content[e].callouts :
                        content[e].kind = "rtas" => p.priority = "H"}}
Lights(e)     == {Trimmed(loc) : loc \in Considered(e)} \ {Nowhere}
LightsAttn(e) ==
  content[e].callouts = {} \/ \E loc \in Considered(e) : Trimmed(loc) = Nowhere

(* A repair process looks at all callouts.                                 *)
AllLocations(e) == {o.location : o \in content[e].callouts}
Frus(e)         == {Untrimmed(loc) : loc \in AllLocations(e)} \ {Nowhere}
FrusOf(events)  == UNION {Frus(e) : e \in events}
FrusAttn(e)     ==
  content[e].callouts = {} \/ \E loc \in AllLocations(e) : Untrimmed(loc) = Nowhere

-----------------------------------------------------------------------------
(* The servicelog, and the processes that its notifications start.         *)

OpenAmong(events) == {e \in events : closedBy[e] = 0}

LogEvent ==
  /\ logged < MaxEvents
  /\ logged' = logged + 1
  /\ \E c \in Contents : content' = [content EXCEPT ![logged + 1] = c]
  /\ service' = [service EXCEPT ![logged + 1] = Started]
  /\ UNCHANGED <<mode, closedBy, repaired, led, repair, faults, excused>>

(* A repair closes some events, or none.                                   *)
LogRepair ==
  /\ repaired < MaxRepairs
  /\ repaired' = repaired + 1
  /\ \E closed \in SUBSET OpenAmong(1 .. logged) :
       closedBy' = [e \in Events |-> IF e \in closed THEN repaired + 1 ELSE closedBy[e]]
  /\ repair' = [repair EXCEPT ![repaired + 1] = Started]
  /\ UNCHANGED <<mode, logged, content, led, service, faults, excused>>

-----------------------------------------------------------------------------
(* parse_service_event: the event is read, and what is to be lit decided.  *)

ReadEvent(e) ==
  /\ service[e].pc = "start"
  /\ \/ /\ ~Supported(e)
        /\ service' = [service EXCEPT ![e] = NoProcess]
     \/ /\ Supported(e) /\ mode = "lightpath"
        /\ service' = [service EXCEPT ![e] = Sets(Lights(e), LightsAttn(e), {})]
     \/ /\ Supported(e) /\ mode = "guiding"
        /\ service' = [service EXCEPT ![e] = Sets({}, TRUE, {})]
  /\ UNCHANGED <<mode, servicelog, led, repair, faults, excused>>

(* parse_repair_event: the events that the repair has closed are read,     *)
(* then those that are open, and what is to be switched off is decided.    *)
(* The process also notes, for the properties only, which are open.        *)
OpenEventsIgnored == {}            \* mutant: as if no event were open
OpenEventsAll     == 1 .. logged   \* mutant: closed events count as open
OpenEvents  == OpenAmong(1 .. logged)
ClosedBy(r) == {e \in 1 .. logged : closedBy[e] = r}

ReadEvents(r) ==
  /\ repair[r].pc = "start"
  /\ LET closed == {e \in ClosedBy(r) : Supported(e)}
         open   == {e \in OpenEvents : Supported(e)}
     IN
     \/ /\ ClosedBy(r) = {}
        /\ repair' = [repair EXCEPT ![r] = NoProcess]
     \/ /\ ClosedBy(r) # {} /\ mode = "lightpath"
        /\ repair' = [repair EXCEPT ![r] =
             Sets(FrusOf(closed) \ FrusOf(open),
                  (\E e \in closed : FrusAttn(e)) /\ ~(\E e \in open : FrusAttn(e)),
                  OpenAmong(1 .. logged))]
     \/ /\ ClosedBy(r) # {} /\ mode = "guiding"
        /\ repair' = [repair EXCEPT ![r] = Sets({}, OpenEvents = {}, OpenAmong(1 .. logged))]
  /\ UNCHANGED <<mode, servicelog, led, service, faults, excused>>

-----------------------------------------------------------------------------
(* Setting the indicators.                                                 *)

(* What a process sets next: the indicators of callouts first.             *)
NextLeds(p) == IF p.todo = {} /\ p.attn THEN {Attn} ELSE p.todo

(* It goes on, whether or not that succeeded.                              *)
After(p, x) ==
  IF p.todo # {} THEN Sets(p.todo \ {x}, p.attn, p.seen) ELSE NoProcess

(* Ghost: the indicators that an event asks for.                           *)
Calls(e) ==
  IF ~Supported(e) THEN {}
  ELSE IF mode = "guiding" THEN {Attn}
  ELSE Lights(e) \union (IF LightsAttn(e) THEN {Attn} ELSE {})

(* Ghost: those that a repair process finds for an event.                  *)
Mentioned(e) ==
  IF mode = "guiding" THEN {Attn}
  ELSE IF ~Supported(e) THEN {}
  ELSE Frus(e) \union (IF FrusAttn(e) THEN {Attn} ELSE {})

Fault == faults < MaxFaults /\ faults' = faults + 1

(* A service process lights an indicator; too late if its event has been   *)
(* closed by then.                                                         *)
SetOn(e) ==
  /\ \E x \in NextLeds(service[e]) :
       /\ service' = [service EXCEPT ![e] = After(@, x)]
       /\ \/ /\ led' = led \union {x} /\ UNCHANGED faults
             /\ excused' = (excused \ {x}) \union (IF closedBy[e] = 0 THEN {} ELSE {x})
          \/ /\ Fault /\ UNCHANGED led
             /\ excused' = excused \union {x}
  /\ UNCHANGED <<mode, servicelog, repair>>

(* A repair process switches one off; too late if an event asks for it     *)
(* that has been logged since the process read the open ones.              *)
SetOff(r) ==
  /\ \E x \in NextLeds(repair[r]) :
       /\ repair' = [repair EXCEPT ![r] = After(@, x)]
       /\ \/ /\ led' = led \ {x} /\ UNCHANGED faults
             /\ excused' = (excused \ {x}) \union
                  {y \in {x} : \E e \in OpenAmong(1 .. logged) \ repair[r].seen : x \in Calls(e)}
          \/ /\ Fault /\ UNCHANGED led
             /\ excused' = excused \union {x}
  /\ UNCHANGED <<mode, servicelog, service>>

(* A process ends early: it was not started, it was killed, or it cannot   *)
(* read the servicelog or the list of indicators.                          *)
Runs(p) == p.pc # "none"

GiveUp ==
  /\ Fault
  /\ \/ \E e \in Events :
          /\ Runs(service[e]) /\ service' = [service EXCEPT ![e] = NoProcess]
          /\ excused' = excused \union Calls(e)
          /\ UNCHANGED repair
     \/ \E r \in Repairs :
          /\ Runs(repair[r]) /\ repair' = [repair EXCEPT ![r] = NoProcess]
          /\ excused' = excused \union UNION {Calls(e) \union Mentioned(e) : e \in ClosedBy(r)}
          /\ UNCHANGED service
  /\ UNCHANGED <<mode, servicelog, led>>

-----------------------------------------------------------------------------
Next ==
  \/ LogEvent \/ LogRepair \/ GiveUp
  \/ \E e \in Events : ReadEvent(e) \/ SetOn(e)
  \/ \E r \in Repairs : ReadEvents(r) \/ SetOff(r)

Spec == Init /\ [][Next]_vars

-----------------------------------------------------------------------------
(* Properties.                                                             *)

LogType ==
  /\ logged \in 0 .. MaxEvents /\ repaired \in 0 .. MaxRepairs
  /\ content \in [Events -> Contents \union {NoContent}]
  /\ closedBy \in [Events -> 0 .. repaired]
ProcessType ==
  /\ service \in [Events -> Processes] /\ repair \in [Repairs -> Processes]
  /\ \A e \in Events : e > logged => service[e] = NoProcess /\ closedBy[e] = 0
  /\ \A r \in Repairs : r > repaired => repair[r] = NoProcess

(* Every variable has its type; only what is in the servicelog is closed   *)
(* or has a process.                                                       *)
TypeOK ==
  /\ mode \in Modes /\ LogType /\ ProcessType
  /\ led \subseteq Leds /\ excused \subseteq Leds /\ faults \in 0 .. MaxFaults

AtRest ==
  /\ \A e \in Events : ~Runs(service[e])
  /\ \A r \in Repairs : ~Runs(repair[r])

(* The attention indicator is the nearest to a callout of one event and    *)
(* the last resort for another.                                            *)
Conflict == \E e, f \in 1 .. logged : Attn \in Frus(e) /\ FrusAttn(f)

(* Once all processes have ended, the indicators that an open event asks   *)
(* for are lit (parse_repair_event against parse_service_event).  The      *)
(* exceptions are an indicator that was last set too late or not at all, a *)
(* location that repair finds another indicator for, because of spaces at  *)
(* its end, and an attention indicator that is also a callout's nearest.   *)
OpenIsLit ==
  AtRest =>
    \A e \in OpenAmong(1 .. logged) : \A x \in Calls(e) \cap Mentioned(e) :
      x \in led \union excused \/ (x = Attn /\ Conflict)

(* Once all processes have ended, an indicator is lit only if an open      *)
(* event mentions it, with the first two exceptions of OpenIsLit.          *)
(* Includes the type invariant.                                            *)
LitIsOpen ==
  /\ TypeOK
  /\ AtRest =>
       \A x \in led \ excused :
         \/ \E e \in OpenAmong(1 .. logged) : x \in Mentioned(e)
         \/ \E e \in 1 .. logged : x \in Calls(e) \ Mentioned(e)

(* OpenIsLit without the exceptions for locations: what the comment in     *)
(* parse_repair_event promises, races and failures aside.                  *)
OpenNotDisabled ==
  AtRest => \A e \in OpenAmong(1 .. logged) : Calls(e) \subseteq led \union excused
=============================================================================

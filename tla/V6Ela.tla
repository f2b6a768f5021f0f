------------------------------- MODULE V6Ela -------------------------------
(***************************************************************************)
(* rtas_errd, v6ela.c: the analysis of one event of version 6.  It keeps   *)
(* no state: an event with a primary SRC is reported by that reference     *)
(* code with the FRUs it lists, every other one by a menu goal, whose text *)
(* is chosen by the subsystem and the severity or the subtype.             *)
(*                                                                         *)
(* A report has a kind, two numbers (for a menu goal, 0 and its number;    *)
(* for an SRC, 0 and 0), the callouts and whether it may be called home.   *)
(* The wording of the messages is left out: a message is known by its      *)
(* place in the tables v6_error and v6_event.                              *)
(***************************************************************************)
EXTENDS Integers, SequencesExt

Severities == <<0, \h10, \h20, \h21, \h22, \h23, \h24, \h40, \h41, \h44, \h45, \h48, \h60, \h61>>
Subtypes   == <<0, 1, 8, \h10, \h20, \h21, \h22, \h30, \h40, \h60, \h70, \h80, \hD0, \hE0>>

(* The column of a table: the first one for a value that is not supported. *)
Column(supported, v) ==
  LET js == {j \in DOMAIN supported : supported[j] = v}
  IN  IF js = {} THEN 0 ELSE (CHOOSE j \in js : TRUE) - 1

(* The subsystems 7A to 7F have a row of their own after 70 to 79.         *)
Row(subsystem) == subsystem \div 16 + (IF subsystem > \h79 THEN 1 ELSE 0) - 1

get_message_id(table, e) ==
  CASE e.subsystem < \h10 -> [table |-> "invalid", row |-> 0, column |-> 0]
    [] e.subsystem > \hAF -> [table |-> "reserved", row |-> 0, column |-> 0]
    [] OTHER ->
         [table |-> table, row |-> Row(e.subsystem),
          column |-> IF table = "error" THEN Column(Severities, e.severity)
                                        ELSE Column(Subtypes, e.subtype)]

NoMessage == [table |-> "none", row |-> 0, column |-> 0]

(* A FRU is called out if its section begins with a FRU identity.  The     *)
(* CCIN and the serial number are read only with a part number.            *)
CalledOut(f) ==
  [loc |-> f.loc, proc |-> f.proc, fru |-> f.part, sn |-> IF f.part = "" THEN "" ELSE f.sn]

report_src(e) ==
  [kind |-> "src", sn |-> 0, rcode |-> 0, message |-> get_message_id("error", e),
   callouts |-> LET ids == SelectSeq(e.frus, LAMBDA f : f.id)
                IN  [i \in DOMAIN ids |-> CalledOut(ids[i])],
   home |-> {"service", "callhome"} \subseteq e.action]

(* The menu goals known for an EPOW section; 0: none.                      *)
EpowGoal(epow) ==
  CASE epow = <<>>                            -> 0
    [] epow # <<>> /\ epow[1] = 0             -> 651203
    [] epow # <<>> /\ epow[1] \in 1 .. 2      -> 651157
    [] epow # <<>> /\ epow[1] = 3             ->
         CASE epow[2] = 1 -> 651206 [] epow[2] = 2 -> 651205 [] epow[2] = 3 -> 651159
           [] OTHER -> 0
    [] epow # <<>> /\ epow[1] \in {4, 5, 7}   -> 651161
    [] OTHER                                  -> 0

Goal(n, message) ==
  [kind |-> "goal", sn |-> 0, rcode |-> n, message |-> message, callouts |-> <<>>, home |-> FALSE]

report_menugoal(e) ==
  CASE e.severity = 0         -> Goal(651301, get_message_id("event", e))
    [] e.severity # 0 /\ EpowGoal(e.epow) # 0 -> Goal(EpowGoal(e.epow), NoMessage)
    [] OTHER                  -> Goal(651300, get_message_id("error", e))

(* Without a user header the entry is freed, and logged all the same:      *)
(* what is logged then is not defined.                                     *)
Garbage ==
  [kind |-> "garbage", sn |-> 0, rcode |-> 0, message |-> NoMessage, callouts |-> <<>>, home |-> FALSE]

process_v6(e) ==
  CASE ~ e.header         -> Garbage
    [] e.header /\ e.src  -> report_src(e)
    [] OTHER              -> report_menugoal(e)
=============================================================================

------------------------------- MODULE MCPrrn -------------------------------
(* A small instance of Prrn: a processor, the node of the reconfigurable   *)
(* memory, whose list takes several calls, and a memory block.             *)
EXTENDS Prrn

MCStd == [cpu |-> [kind |-> "cpu", drc |-> 1], reconfig |-> [kind |-> "other", drc |-> 0]]
MCLmbs == {"lmb"}
MCProperties ==
  [cpu |-> <<[name |-> "associativity", kind |-> "data", chunks |-> 1],
             [name |-> "old", kind |-> "delete", chunks |-> 1],
             [name |-> "empty", kind |-> "name", chunks |-> 1]>>,
   reconfig |-> <<[name |-> "lookup", kind |-> "data", chunks |-> 2],
                  [name |-> "memory", kind |-> "data", chunks |-> 2]>>]

Updates(node) == [op |-> 2, node |-> node]
MCScopes ==
  {<< <<Updates("cpu"), Updates("unknown"), [op |-> 1, node |-> "lmb"]>>, <<Updates("lmb")>> >>,
   << <<Updates("reconfig"), Updates("cpu")>> >>}
=============================================================================

------------------------------ MODULE MCGuard ------------------------------
(* A small instance of Guard: three processors, one with two threads, two  *)
(* memory blocks, named by lists or by ranges in no special order; losses  *)
(* that leave enough, that leave too little for the processors, and one    *)
(* that does not fit the buffer it is printed to.                          *)
EXTENDS Guard
MCServers == (1 :> <<0, 1>>) @@ (9 :> <<8>>) @@ (17 :> <<16>>)
MCLosses == {20, 12345}
Ranges(info) == [version |-> 2, indexes |-> <<>>, names |-> <<>>, info |-> info]
Listed(indexes, names) == [version |-> 1, indexes |-> indexes, names |-> names, info |-> <<>>]
Span(type, prefix, index, number, count, incr) ==
  [type |-> type, prefix |-> prefix, index |-> index, number |-> number, count |-> count, incr |-> incr]
MCTrees == {
  [big |-> TRUE,
   cpu |-> Listed(<<9, 1, 17>>, << <<"CPU", 9>>, <<"CPU", 1>>, <<"CPU", 17>> >>),
   mem |-> Listed(<<32, 33>>, << <<"LMB", 1>>, <<"LMB", 2>> >>)],
  [big |-> FALSE,
   cpu |-> Ranges(<<Span("PHB", "PHB", 1, 1, 64, 1), Span("CPU", "CPU", 17, 17, 1, 8), Span("CPU", "CPU", 1, 1, 2, 8)>>),
   mem |-> Ranges(<<Span("CPU", "CPU", 1, 1, 99, 1), Span("MEM", "LMB", 32, 1, 2, 1)>>)]}
=============================================================================

-------------------------- MODULE MCExtractOpalDump --------------------------
(* Instances of ExtractOpalDump for TLC: three dumps of one type, two of   *)
(* them with the same name, as dumps have that are too short for a header. *)
EXTENDS ExtractOpalDump

MCDumps == 1 .. 3
MCName  == <<"1", "2", "2">>
MCType  == [d \in MCDumps |-> "platfor"]
=============================================================================

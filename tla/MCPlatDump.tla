----------------------------- MODULE MCPlatDump -----------------------------
(* A small instance of PlatDump: two dumps that suggest one name, each     *)
(* of three buffers.                                                       *)
EXTENDS PlatDump
MCDumps == {"d1", "d2"}
MCNameOf == [d1 |-> "a", d2 |-> "a"]
=============================================================================

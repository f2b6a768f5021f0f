----------------------------- MODULE MCOpalErrd -----------------------------
(* Instances of OpalErrd for TLC.                                          *)
EXTENDS OpalErrd

MCElogs == 1 .. 3
=============================================================================

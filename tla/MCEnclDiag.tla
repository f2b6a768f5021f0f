----------------------------- MODULE MCEnclDiag -----------------------------
(* Instances of EnclDiag for TLC.                                          *)
EXTENDS EnclDiag, TLC

(* A fan assembly of a Bluehawk, whose fans are reported together.         *)
MCEnclosures == <<"bluehawk">>
MCChanging   == {<<1, "fan1">>, <<1, "fan2">>}
MCOptions    == {{"c", "l"}, {}}
Symmetry     == Permutations(Processes)

OneSlider       == <<"slider">>
SliderSensors   == {<<1, "psutemp">>, <<1, "esctemp">>}
TwoSliders      == <<"slider", "slider">>
SlidersChanging == {<<1, "disk">>, <<2, "disk">>}
=============================================================================

---------------------------- MODULE MCLightPath ----------------------------
(* Instances of LightPath for TLC: an enclosure U, whose indicator is the  *)
(* attention indicator, with a board P that has one and a card slot C that *)
(* has one.                                                                *)
EXTENDS LightPath

At(path)     == [path |-> path, padded |-> FALSE]
Padded(path) == [path |-> path, padded |-> TRUE]
Callout(loc, priority) == [location |-> loc, priority |-> priority]

Card == <<"U", "P", "C">>
Board == <<"U", "P">>
MCAttn == <<"U">>
MCLeds == {MCAttn, Board, Card}

MCContents ==
  {[kind |-> "os", callouts |-> {Callout(At(Card), "L")}],
   [kind |-> "rtas", callouts |-> {Callout(At(Card), "H"), Callout(At(Board \o <<"D">>), "M")}],
   [kind |-> "enclosure", callouts |-> {Callout(At(<<"V">>), "H"), Callout(Padded(Card), "H")}],
   [kind |-> "os", callouts |-> {Callout(At(<<"U", "D">>), "A")}],
   [kind |-> "os", callouts |-> {}],
   [kind |-> "other", callouts |-> {}]}

PaddedContents == {[kind |-> "os", callouts |-> {Callout(At(Card), "H")}],
                   [kind |-> "os", callouts |-> {Callout(Padded(Card), "H")}]}
=============================================================================

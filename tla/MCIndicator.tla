---------------------------- MODULE MCIndicator ----------------------------
(* A small machine: on RTAS an enclosure light, a part and a spare part; on    *)
(* OPAL an attention light and a slot; one enclosure seen by two sg devices;    *)
(* disks of the Marvell controller that share a location code.                  *)
EXTENDS Indicator, TLC

U == <<"U">>
P1 == <<"U", "P1">>
D1 == <<"U", "P1", "D1">>
E == <<"E">>

c_LocOf == [RE |-> U, RA |-> P1, RB |-> <<"U", "P1", "C1">>,
            OA |-> U, OI |-> P1, OF |-> P1, SE |-> E, sda |-> D1, sdb |-> D1, sdd |-> D1]
c_RtasFirst == [ident |-> <<"RE", "RA">>, fault |-> <<"RE">>]
c_OpalAttn == <<"OA">>
c_OpalLeds == [ident |-> <<"OI">>, fault |-> <<"OF">>]
c_Encl == <<[loc |-> <<"E", "P1", "C2">>, supported |-> TRUE, leds |-> <<"SE">>],
            [loc |-> E, supported |-> TRUE, leds |-> <<"SE">>],
            [loc |-> U, supported |-> FALSE, leds |-> <<"RE">>]>>
c_Blocks == <<[dev |-> "nvme0n1", located |-> TRUE, is |-> "other"],
              [dev |-> "sda", located |-> TRUE, is |-> "disk"],
              [dev |-> "sdb", located |-> TRUE, is |-> "disk"],
              [dev |-> "sdc", located |-> TRUE, is |-> "unreadable"],
              [dev |-> "sdd", located |-> TRUE, is |-> "disk"]>>
c_Ata == [sda |-> 1, sdb |-> 2, sdd |-> 3]

One(dev, loc, only, trunc) == [kind |-> "set", type |-> "ident", dev |-> dev, loc |-> loc,
                               val |-> TRUE, trunc |-> trunc, only |-> only]
Every(kind, type, val) == [kind |-> kind, type |-> type, dev |-> "none", loc |-> U,
                           val |-> val, trunc |-> FALSE, only |-> FALSE]
c_Commands ==
  {One("sda", D1, FALSE, FALSE), One("sdb", D1, FALSE, TRUE), One("none", D1, FALSE, TRUE),
   One("none", <<"E", "P1", "X">>, FALSE, TRUE),
   Every("all", "ident", FALSE), Every("setall", "ident", FALSE), Every("all", "fault", TRUE),
   [Every("print", "fault", FALSE) EXCEPT !.only = TRUE],
   Every("check", "fault", TRUE)}
Symmetry == Permutations(Procs)
=============================================================================

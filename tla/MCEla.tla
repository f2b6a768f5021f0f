-------------------------------- MODULE MCEla --------------------------------
(* A small instance of Ela: events of every version and format, one family *)
(* for each part of the analysis.                                          *)
EXTENDS Ela

MCPartNumber == [P1 |-> "fan", C1 |-> "cpu", C2 |-> "cpu", A |-> "a", B |-> "b", D |-> "d"]
MCPlanars == {"P1"}
MCProcessors == {"C1", "C2"}

Base ==
  [version |-> 3, fmt |-> CPU, bits |-> {}, more |-> {}, class |-> 1, bypassed |-> FALSE,
   predictive |-> FALSE, platform |-> -1, mods |-> {}, locs |-> <<"A">>, hidden |-> FALSE,
   src02 |-> <<>>, src04 |-> <<>>, xepow |-> 0, pci |-> 0, token |-> "fan", status |-> "crit",
   repair |-> FALSE, code |-> 0]
SixLocs == <<"P1", "C1", "C2", "A", "B", "D">>
One(n) == {{}} \union {{b} : b \in 0 .. n}
Codes == <<[code |-> "r1", n |-> 2], [code |-> "r2", n |-> 0], [code |-> "r3", n |-> 3], [code |-> "r4", n |-> 2]>>

Symptom ==
  {[Base EXCEPT !.version = v, !.fmt = f, !.bits = b] :
     v \in {1, 3}, f \in {CPU, MEM, IO, POST}, b \in One(15) \union {{4, 11}, {5, 9}, {5, 11}, {0, 3}, {6, 10}, {3, 10}}}
  \union {[Base EXCEPT !.version = v, !.fmt = SP, !.bits = b] : v \in {1, 2, 3}, b \in One(31) \union {{3, 24}}}
  \union {[Base EXCEPT !.fmt = SP, !.more = b] : b \in One(7)}
Modifier ==
  {[Base EXCEPT !.version = v, !.fmt = f, !.bits = b, !.predictive = p, !.mods = m] :
     v \in {3, 5}, f \in {MEM, IO, EPOW, 14}, b \in {{3}, {4}}, p \in BOOLEAN, m \in SUBSET {"sw", "concurrent", "all"}}
Located ==
  {[Base EXCEPT !.version = v, !.fmt = f, !.bits = {7}, !.locs = l] :
     v \in {1, 3}, f \in {MEM, POST}, l \in {<<>>, <<"A", "B">>, SixLocs, SubSeq(SixLocs, 1, 5)}}
  \union {[Base EXCEPT !.version = 1, !.bits = {b}, !.locs = l, !.hidden = h] :
     b \in {6, 7}, h \in BOOLEAN,
     l \in {<<>>, <<"P1">>, <<"P1", "C1">>, <<"C1", "P1">>, <<"C1", "P1", "C2", "A">>, <<"P1", "C1", "C2">>, <<"A", "C1">>}}
Bus ==
  {[Base EXCEPT !.version = v, !.fmt = IO, !.bits = {b}, !.locs = l, !.hidden = h] :
     v \in {1, 3}, b \in {0, 2}, l \in {<<>>, <<"A">>, <<"B", "D", "A">>}, h \in BOOLEAN}
Deconfig ==
  {[Base EXCEPT !.fmt = f, !.bypassed = TRUE, !.predictive = p, !.repair = r, !.locs = l] :
     f \in {CPU, SP}, p \in BOOLEAN, r \in BOOLEAN, l \in {<<>>, <<"A", "B">>}}
Refcoded ==
  {[Base EXCEPT !.version = v, !.fmt = f, !.bits = b, !.src02 = c, !.src04 = d, !.locs = SixLocs, !.predictive = p] :
     v \in {3, 4}, f \in {MEM, EPOW, 14}, b \in {{2}, {3}}, c \in {<<>>, Codes}, d \in {<<>>, Codes}, p \in BOOLEAN}
Platform == {[Base EXCEPT !.version = v, !.platform = n] : v \in {2, 3}, n \in {0, 5, 15}}

EpowBits == {{}, {1, 8}, {1, 9}, {1, 10}, {1, 11}, {1, 12}, {1}, {1, 4, 9}, {1, 4, 10}, {2}, {2, 4}, {2, 3}, {3}, {4}, {4, 9}}
Epows ==
  {[Base EXCEPT !.version = v, !.fmt = EPOW, !.bits = b, !.class = c, !.locs = l] :
     v \in {2, 3, 4}, b \in EpowBits, c \in {1, 2, 3}, l \in {<<>>, <<"A">>}}
  \union {[Base EXCEPT !.version = v, !.fmt = EPOW, !.bits = b, !.class = 0] : v \in {2, 3}, b \in {{2}, {1, 9}}}
  \union {[Base EXCEPT !.version = 1, !.fmt = EPOW, !.xepow = x, !.class = c] :
     x \in {0, \h1011, \h1564, \h2032, \h2352, \h3021, \h3073, \h4000}, c \in {1, 3, 5}}
  \union {[Base EXCEPT !.version = 2, !.fmt = EPOW, !.bits = b, !.pci = n] :
     b \in {{1, 9}, {1, 10}}, n \in {1, 2, 3, 4, 7}}
Sensors ==
  {[Base EXCEPT !.version = v, !.fmt = EPOW, !.bits = b, !.class = c, !.token = t, !.status = s] :
     v \in {2, 3, 4}, b \in {{0}, {0, 4}}, c \in {1, 3}, t \in {"fan", "volt", "therm", "power", "other"},
     s \in {"crit", "warn", "normal", "failed"}}

Fru(id, loc, part, proc) == [id |-> id, loc |-> loc, part |-> part, sn |-> "s", proc |-> proc]
BaseV6 ==
  [version |-> 6, fmt |-> EPOW, header |-> TRUE, src |-> FALSE, subsystem |-> \h20, severity |-> \h40, subtype |-> 0,
   epow |-> <<>>, action |-> {"service"}, frus |-> <<>>]
New ==
  {[BaseV6 EXCEPT !.subsystem = n, !.severity = v] :
     n \in {8, \h10, \h6F, \h79, \h7A, \h80, \hAF, \hB0}, v \in {0, \h10, \h61, \h62}}
  \union {[BaseV6 EXCEPT !.epow = <<a, m>>] : a \in 0 .. 8, m \in 0 .. 3}
  \union {[BaseV6 EXCEPT !.src = TRUE, !.action = a,
             !.frus = <<Fru(TRUE, "A", "", "p"), Fru(FALSE, "B", "b", ""), Fru(TRUE, "", "d", "")>>] :
           a \in SUBSET {"service", "callhome"}}
  \union {[BaseV6 EXCEPT !.header = FALSE]}

MCEvents == Symptom \union Modifier \union Located \union Bus \union Deconfig \union Refcoded
            \union Platform \union Epows \union Sensors \union New
=============================================================================

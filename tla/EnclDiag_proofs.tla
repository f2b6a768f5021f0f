-------------------------- MODULE EnclDiag_proofs --------------------------
(***************************************************************************)
(* Proofs about EnclDiag: a fault in the saved page has been reported, an  *)
(* undisturbed run reports no fault twice, and LEDs follow the saved page. *)
(***************************************************************************)
EXTENDS EnclDiag, TLAPS, WellFoundedInduction

-----------------------------------------------------------------------------
(* The tables: an entry is about its first and its last element.           *)
FirstAndLast(els) ==
  /\ els[1] \in Range(els) /\ els[Len(els)] \in Range(els)
  /\ \A x \in Range(els) : x = els[1] \/ x = els[Len(els)]

LEMMA OneElement == \A a : FirstAndLast(<<a>>)
  BY DEF FirstAndLast, Range
LEMMA TwoElements == \A a, b : FirstAndLast(<<a, b>>)
  BY DEF FirstAndLast, Range

LEMMA BluehawkEntries == \A i \in DOMAIN BluehawkReports : FirstAndLast(BluehawkReports[i])
  BY OneElement, TwoElements DEF BluehawkReports
LEMMA HomerunEntries == \A i \in DOMAIN HomerunReports : FirstAndLast(HomerunReports[i])
  BY OneElement, TwoElements DEF HomerunReports
LEMMA SliderEntries == \A i \in DOMAIN SliderReports : FirstAndLast(SliderReports[i])
  BY OneElement, TwoElements DEF SliderReports, DiskFault, PowerSupplyFault, CoolingFault, AmbientFault,
       PsuTempFault, EscTempFault, EscFault, EnclosureFault, VoltageFault, ExpanderFault,
       ConnectorFault, MidplaneFault, PhyFault, StateSaveFault, CpldFault, InputPowerFault

LEMMA Entries ==
  ASSUME NEW m \in Models, NEW i \in DOMAIN Reports[m]
  PROVE  FirstAndLast(Reports[m][i])
  BY BluehawkEntries, HomerunEntries, SliderEntries DEF Models, Reports

(* The comparison of statuses, odd ones aside: a fault makes its entry     *)
(* faulty, and a status that has not worsened is no worse a fault.         *)
Plain(s) == s \in {OK, Critical, NonCritical}

LEMMA FaultyEntry ==
  ASSUME NEW els, NEW dp, FirstAndLast(els), NEW e \in Range(els), Rank(dp[e]) > 0,
         Plain(dp[els[1]]), Plain(dp[els[Len(els)]])
  PROVE  Faulty(els, dp)
  BY DEF FirstAndLast, Rank, Plain, Faulty, composite_status, worse_element_status,
         OK, Critical, NonCritical, NotInstalled

LEMMA NotWorsened ==
  ASSUME NEW old, NEW new, Plain(old), Plain(new), ~status_worsened(old, new)
  PROVE  Rank(new) <= Rank(old)
  BY DEF Plain, status_worsened, worse_element_status, Rank, OK, Critical, NonCritical, NotInstalled

LEMMA MinOfTwo ==
  ASSUME NEW a \in Int, NEW b \in Int
  PROVE  Min({a, b}) = IF a <= b THEN a ELSE b
  BY DEF Min

-----------------------------------------------------------------------------
(* A file holds no page, or one of which every fault has been told or has  *)
(* been missed for a known reason.                                         *)
FileOK(f, n) ==
  f.page # NoPage =>
    /\ f.page \in Pages(n) /\ f.told \in [Elements(Enclosures[n]) -> Nat]
    /\ \A e \in Reported(Enclosures[n]) : Rank(f.page[e]) <= f.told[e] \/ e \in f.missed

LEMMA RankNat == \A s : Rank(s) \in Nat
  BY DEF Rank

(* What a run tells is about the elements of its page.                     *)
LEMMA ToldType ==
  ASSUME NEW r, NEW n \in N, r.n = n, r.dp \in Pages(n), FileOK(r.prev, n)
  PROVE  Told(r) \in [Elements(Enclosures[n]) -> Nat]
<1>1. DOMAIN r.dp = Elements(Enclosures[n])
  BY DEF Pages
<1>2. ASSUME NEW e \in Elements(Enclosures[n]), r.prev.page # NoPage
      PROVE  Min({Rank(r.dp[e]), r.prev.told[e]}) \in Nat
  <2>1. Rank(r.dp[e]) \in Nat /\ r.prev.told[e] \in Nat
    BY <1>2, RankNat DEF FileOK
  <2>2. Min({Rank(r.dp[e]), r.prev.told[e]}) \in {Rank(r.dp[e]), r.prev.told[e]}
    BY <2>1, MinOfTwo
  <2> QED BY <2>1, <2>2
<1> QED BY <1>1, <1>2, RankNat DEF Told

(* A run that has nothing left to report saves a page that is all right.   *)
LEMMA SavedFile ==
  ASSUME NEW r, NEW n \in N, r.n = n, r.dp \in Pages(n), FileOK(r.prev, n),
         ~Misplaced(r), Remaining(r) = {}
  PROVE  FileOK(File(r), n)
<1> DEFINE m == Enclosures[n]
<1>0. m \in Models
  BY ConstantsAssumption DEF N
<1>1. DOMAIN r.dp = Elements(m) /\ Reported(m) \subseteq Elements(m)
  BY DEF Pages, Elements
<1>2. Told(r) \in [Elements(m) -> Nat]
  BY ToldType
<1>3. ASSUME NEW e \in Reported(m), ~(Rank(r.dp[e]) <= Told(r)[e]), e \notin r.missed,
             e \notin r.prev.missed, ~Hidden(e, r)
      PROVE  FALSE
  <2>1. e \in DOMAIN r.dp /\ Rank(r.dp[e]) \in Nat /\ Told(r)[e] \in Nat
    BY <1>1, <1>2, RankNat
  <2>2. e \notin Said(r)
    <3>1. e \in Said(r) => Told(r)[e] = Rank(r.dp[e])
      BY <1>3, <2>1 DEF Told
    <3> QED BY <3>1, <1>3, <2>1
  <2>3. PICK i \in DOMAIN Reports[m] : e \in Range(Reports[m][i])
    BY DEF Reported
  <2> DEFINE els == Reports[m][i]
  <2>4. i \notin r.said
    BY <2>2, <2>3 DEF Said
  <2>5. els[1] \in Range(els) /\ els[Len(els)] \in Range(els) /\ FirstAndLast(els)
    BY <1>0, Entries DEF FirstAndLast
  <2>6. Range(els) \subseteq With(e, m)
    BY <2>3 DEF With, Range
  <2>7. \A x \in Range(els) : Plain(r.dp[x]) /\ (r.prev.page # NoPage => Plain(r.prev.page[x]))
    BY <1>3, <2>6 DEF Hidden, Odd, Plain
  <2>8. Faulty(els, r.dp)
    BY <1>3, <2>1, <2>3, <2>5, <2>7, FaultyEntry
  <2>9. ~Reportable(els, r.dp, r.prev.page)
    BY <2>4, <2>8 DEF Remaining
  <2>10. r.prev.page # NoPage /\ ~status_worsened(r.prev.page[e], r.dp[e])
    BY <2>3, <2>9 DEF Reportable
  <2>11. Rank(r.dp[e]) <= Rank(r.prev.page[e])
    BY <2>3, <2>7, <2>10, NotWorsened
  <2>12. Rank(r.prev.page[e]) <= r.prev.told[e] /\ r.prev.told[e] \in Nat
    BY <1>1, <1>3, <2>10 DEF FileOK
  <2>13. Rank(r.prev.page[e]) \in Nat
    BY RankNat
  <2>14. Told(r)[e] = Min({Rank(r.dp[e]), r.prev.told[e]})
    BY <2>1, <2>2, <2>10 DEF Told
  <2> QED BY <1>3, <2>1, <2>11, <2>12, <2>13, <2>14, MinOfTwo
<1>4. ASSUME NEW e \in Reported(m)
      PROVE  Rank(File(r).page[e]) <= File(r).told[e] \/ e \in File(r).missed
  <2>1. Rank(r.dp[e]) \in Nat /\ Told(r)[e] \in Nat /\ e \in DOMAIN r.dp
    BY <1>1, <1>2, RankNat
  <2> QED BY <1>3, <2>1 DEF File
<1> QED BY <1>2, <1>4 DEF FileOK, File

-----------------------------------------------------------------------------
(* The inductive invariant.  A run compares with a file that is all right, *)
(* and once it has opened the file it has nothing left to report.          *)
Fields == {"pc", "opts", "n", "dp", "prev", "said", "cached", "missed", "since", "alone"}
IsRun(r) == r = [f \in Fields |-> r[f]]

RunOK(r) ==
  /\ IsRun(r)
  /\ r.pc # "idle" =>
       /\ r.n \in N /\ FileOK(r.prev, r.n)
       /\ r.cached # 0 => r.cached \in N /\ Enclosures[r.cached] = "slider"
       /\ r.pc \in {"previous", "report", "write"} => r.dp \in Pages(r.n)
       /\ r.pc = "write" => Remaining(r) = {}

PagesOK == DOMAIN page = N /\ \A n \in N : page[n] \in Pages(n)
SavedOK == saved = [n \in N |-> saved[n]] /\ \A n \in N : FileOK(saved[n], n)
RunsOK  == run = [p \in Processes |-> run[p]] /\ \A p \in Processes : RunOK(run[p])
IInv    == PagesOK /\ SavedOK /\ RunsOK

(* The location of another enclosure is reported only if there are two     *)
(* enclosures of the model whose location is cached.                       *)
OneSlider == \A i, j \in N : Enclosures[i] = "slider" /\ Enclosures[j] = "slider" => i = j

LEMMA NoFileOK == \A n : FileOK(NoFile, n)
  BY DEF FileOK, NoFile

LEMMA NoRunOK == RunOK(NoRun)
  BY DEF RunOK, IsRun, Fields, NoRun

(* What RunOK says of a run does not depend on the fields for properties.  *)
LEMMA SameRun ==
  ASSUME NEW r, NEW s, RunOK(r), IsRun(s), s.pc = r.pc, s.n = r.n, s.dp = r.dp,
         s.prev = r.prev, s.said = r.said, s.cached = r.cached
  PROVE  RunOK(s)
  BY DEF RunOK, Remaining

LEMMA NextEnclosureOK ==
  ASSUME NEW r, RunOK(r), r.pc # "idle"
  PROVE  RunOK(NextEnclosure(r))
<1> DEFINE s == [NoRun EXCEPT !.pc = "page", !.opts = r.opts, !.n = r.n + 1, !.cached = r.cached]
<1>1. CASE r.n = Len(Enclosures)
  BY <1>1, NoRunOK DEF NextEnclosure
<1>2. CASE r.n # Len(Enclosures)
  <2>1. r.n + 1 \in N
    BY <1>2, ConstantsAssumption DEF RunOK, N
  <2>2. IsRun(NoRun) /\ NoRun.prev = NoFile
    BY DEF IsRun, Fields, NoRun
  <2>3. /\ IsRun(s) /\ s.pc = "page" /\ s.n = r.n + 1 /\ s.prev = NoFile
        /\ s.cached = r.cached
    BY <2>2 DEF IsRun, Fields
  <2>4. RunOK(s)
    BY <2>1, <2>3, NoFileOK DEF RunOK
  <2> QED BY <1>2, <2>4 DEF NextEnclosure
<1> QED BY <1>1, <1>2

(* A step of one run leaves the others as they are.                        *)
LEMMA StepOK ==
  ASSUME RunsOK, NEW p \in Processes, NEW r, Step(p, r), RunOK(r)
  PROVE  RunsOK'
<1>1. run' = [q \in Processes |-> IF q = p THEN r ELSE run[q]]
  BY DEF Step, RunsOK
<1> QED BY <1>1 DEF RunsOK

LEMMA InitIInv == Init => IInv
<1> SUFFICES ASSUME Init PROVE IInv
  OBVIOUS
<1>1. PagesOK
  BY ConstantsAssumption DEF Init, PagesOK, Pages
<1>2. SavedOK
  BY NoFileOK DEF Init, SavedOK
<1>3. RunsOK
  BY NoRunOK DEF Init, RunsOK
<1> QED BY <1>1, <1>2, <1>3 DEF IInv

LEMMA NextIInv == OneSlider /\ IInv /\ [Next]_vars => IInv'
<1> SUFFICES ASSUME OneSlider, IInv, [Next]_vars PROVE IInv'
  OBVIOUS
<1> USE DEF IInv
<1>1. CASE Change
  <2>1. PICK x \in Changing, s \in Statuses : page' = [page EXCEPT ![x[1]][x[2]] = s]
    BY <1>1 DEF Change
  <2>2. x[1] \in N /\ x[2] \in Elements(Enclosures[x[1]])
    BY ChangingAssumption
  <2>3. [page[x[1]] EXCEPT ![x[2]] = s] \in Pages(x[1])
    BY <2>2 DEF PagesOK, Pages
  <2>4. page' = [page EXCEPT ![x[1]] = [page[x[1]] EXCEPT ![x[2]] = s]]
    BY <2>1
  <2>5. PagesOK'
    BY <2>2, <2>3, <2>4 DEF PagesOK
  <2> QED BY <1>1, <2>5 DEF Change, SavedOK, RunsOK
<1>2. ASSUME NEW p \in Processes, Begin(p) PROVE IInv'
  <2>1. PICK opts \in Options :
          Step(p, [NoRun EXCEPT !.pc = "page", !.opts = opts, !.n = 1])
    BY <1>2 DEF Begin
  <2> DEFINE s == [NoRun EXCEPT !.pc = "page", !.opts = opts, !.n = 1]
  <2>0. IsRun(NoRun) /\ NoRun.prev = NoFile /\ NoRun.cached = 0
    BY DEF IsRun, Fields, NoRun
  <2>2. IsRun(s) /\ s.pc = "page" /\ s.n = 1 /\ s.prev = NoFile /\ s.cached = 0
    BY <2>0 DEF IsRun, Fields
  <2>3. 1 \in N
    BY ConstantsAssumption DEF N
  <2>4. RunOK(s)
    BY <2>2, <2>3, NoFileOK DEF RunOK
  <2>5. RunsOK'
    BY <2>1, <2>4, StepOK
  <2> QED BY <1>2, <2>5 DEF Begin, PagesOK, SavedOK
<1>3. ASSUME NEW p \in Processes, SkipEnclosure(p) PROVE IInv'
  <2>1. RunOK(NextEnclosure(run[p]))
    BY <1>3, NextEnclosureOK DEF SkipEnclosure, RunsOK, At
  <2>2. RunsOK'
    BY <1>3, <2>1, StepOK DEF SkipEnclosure
  <2> QED BY <1>3, <2>2 DEF SkipEnclosure, PagesOK, SavedOK
<1>4. ASSUME NEW p \in Processes, ReadPage(p) PROVE IInv'
  <2>1. RunOK(run[p]) /\ run[p].pc = "page" /\ run[p].n \in N
    BY <1>4 DEF ReadPage, RunsOK, RunOK, At
  <2>2. page[run[p].n] \in Pages(run[p].n)
    BY <2>1 DEF PagesOK
  <2>3. \A q \in Processes : RunOK(run'[q])
    <3>1. ASSUME NEW q \in Processes, q # p PROVE RunOK(run'[q])
      <4>1. PICK a : run'[q] = [run[q] EXCEPT !.alone = a]
        BY <1>4, <3>1 DEF ReadPage
      <4>2. IsRun(run[q]) /\ RunOK(run[q])
        BY DEF RunsOK, RunOK
      <4>3. /\ IsRun(run'[q]) /\ run'[q].pc = run[q].pc /\ run'[q].n = run[q].n
            /\ run'[q].dp = run[q].dp /\ run'[q].prev = run[q].prev
            /\ run'[q].said = run[q].said /\ run'[q].cached = run[q].cached
        BY <4>1, <4>2 DEF IsRun, Fields
      <4> QED BY <4>2, <4>3, SameRun
    <3> DEFINE pc == IF "c" \in run[p].opts THEN "previous" ELSE "report"
    <3>2. PICK a : run'[p] = [run[p] EXCEPT !.pc = pc, !.dp = page[run[p].n],
                                           !.since = last[run[p].n], !.alone = a]
      BY <1>4 DEF ReadPage
    <3>3. /\ IsRun(run'[p]) /\ run'[p].pc = pc /\ run'[p].n = run[p].n
          /\ run'[p].dp = page[run[p].n] /\ run'[p].prev = run[p].prev
          /\ run'[p].cached = run[p].cached
      <4>1. IsRun(run[p])
        BY <2>1 DEF RunOK
      <4> QED BY <3>2, <4>1 DEF IsRun, Fields
    <3>4. RunOK(run'[p])
      BY <2>1, <2>2, <3>3 DEF RunOK
    <3> QED BY <3>1, <3>4
  <2>4. run' = [q \in Processes |-> run'[q]]
    BY <1>4 DEF ReadPage
  <2> QED BY <1>4, <2>3, <2>4 DEF ReadPage, RunsOK, PagesOK, SavedOK
<1>5. ASSUME NEW p \in Processes, ReadPrevious(p) PROVE IInv'
  <2> DEFINE r == run[p]
             s == [r EXCEPT !.pc = "report", !.prev = saved[r.n]]
  <2>1. RunOK(r) /\ IsRun(r) /\ r.pc = "previous" /\ r.n \in N
    BY <1>5 DEF ReadPrevious, RunsOK, RunOK, At
  <2>2. /\ IsRun(s) /\ s.pc = "report" /\ s.n = r.n /\ s.dp = r.dp
        /\ s.prev = saved[r.n] /\ s.cached = r.cached
    BY <2>1 DEF IsRun, Fields
  <2>3. RunOK(s)
    BY <2>1, <2>2 DEF RunOK, SavedOK
  <2>4. RunsOK'
    BY <1>5, <2>3, StepOK DEF ReadPrevious
  <2> QED BY <1>5, <2>4 DEF ReadPrevious, PagesOK, SavedOK
<1>6. ASSUME NEW p \in Processes, Report(p) PROVE IInv'
  <2> DEFINE r == run[p]
  <2>1. RunOK(r) /\ IsRun(r) /\ r.pc = "report" /\ r.n \in N
    BY <1>6 DEF Report, RunsOK, RunOK, At
  <2>2. PICK said, cached, missed :
          /\ Step(p, [r EXCEPT !.said = said, !.cached = cached, !.missed = missed])
          /\ cached = r.cached \/ (cached = r.n /\ Enclosures[r.n] = "slider")
    <3> DEFINE i == Min(Remaining(r))
               c == IF Enclosure(p) = "slider" /\ r.cached = 0 THEN r.n ELSE r.cached
    <3>1. \E m : Step(p, [r EXCEPT !.said = @ \union {i}, !.cached = c, !.missed = m])
      <4>1. [[r EXCEPT !.said = @ \union {i}, !.cached = c] EXCEPT !.missed = r.missed]
            = [r EXCEPT !.said = @ \union {i}, !.cached = c]
        BY <2>1 DEF IsRun, Fields
      <4> QED BY <1>6, <2>1, <4>1 DEF Report, IsRun, Fields
    <3> QED BY <3>1 DEF Enclosure
  <2> DEFINE s == [r EXCEPT !.said = said, !.cached = cached, !.missed = missed]
  <2>3. /\ IsRun(s) /\ s.pc = "report" /\ s.n = r.n /\ s.dp = r.dp /\ s.prev = r.prev
        /\ s.cached = cached
    BY <2>1 DEF IsRun, Fields
  <2>4. RunOK(s)
    BY <2>1, <2>2, <2>3 DEF RunOK
  <2>5. RunsOK'
    BY <2>2, <2>4, StepOK
  <2> QED BY <1>6, <2>5 DEF Report, PagesOK, SavedOK
<1>7. ASSUME NEW p \in Processes, OpenFile(p) PROVE IInv'
  <2> DEFINE r == run[p]
             s == [r EXCEPT !.pc = "write"]
  <2>1. RunOK(r) /\ IsRun(r) /\ r.pc = "report" /\ r.n \in N /\ Remaining(r) = {}
    BY <1>7 DEF OpenFile, RunsOK, RunOK, At
  <2>2. /\ IsRun(s) /\ s.pc = "write" /\ s.n = r.n /\ s.dp = r.dp /\ s.prev = r.prev
        /\ s.said = r.said /\ s.cached = r.cached
    BY <2>1 DEF IsRun, Fields
  <2>3. Remaining(s) = {}
    BY <2>1, <2>2 DEF Remaining
  <2>4. RunOK(s)
    BY <2>1, <2>2, <2>3 DEF RunOK
  <2>5. RunOK(NextEnclosure(r))
    BY <2>1, NextEnclosureOK
  <2>6. RunsOK'
    BY <1>7, <2>4, <2>5, StepOK DEF OpenFile
  <2>7. SavedOK'
    BY <1>7, <2>1, NoFileOK DEF OpenFile, SavedOK
  <2> QED BY <1>7, <2>6, <2>7 DEF OpenFile, PagesOK
<1>8. ASSUME NEW p \in Processes, WritePage(p) PROVE IInv'
  <2> DEFINE r == run[p]
             s == [r EXCEPT !.pc = "leds"]
  <2>1. RunOK(r) /\ IsRun(r) /\ r.pc = "write" /\ r.n \in N
    BY <1>8 DEF WritePage, RunsOK, RunOK, At
  <2>2. ~Misplaced(r)
    BY <2>1 DEF Misplaced, RunOK, OneSlider
  <2>3. FileOK(File(r), r.n)
    BY <2>1, <2>2, SavedFile DEF RunOK
  <2>4. SavedOK'
    BY <1>8, <2>1, <2>3 DEF WritePage, SavedOK
  <2>5. /\ IsRun(s) /\ s.pc = "leds" /\ s.n = r.n /\ s.prev = r.prev /\ s.cached = r.cached
    BY <2>1 DEF IsRun, Fields
  <2>6. RunOK(s) /\ RunOK(NextEnclosure(r))
    BY <2>1, <2>5, NextEnclosureOK DEF RunOK
  <2>7. RunsOK'
    BY <1>8, <2>6, StepOK DEF WritePage, AfterFile
  <2> QED BY <1>8, <2>4, <2>7 DEF WritePage, PagesOK
<1>9. ASSUME NEW p \in Processes, SetLeds(p) PROVE IInv'
  <2>1. RunOK(NextEnclosure(run[p]))
    BY <1>9, NextEnclosureOK DEF SetLeds, RunsOK, At
  <2>2. RunsOK'
    BY <1>9, <2>1, StepOK DEF SetLeds
  <2> QED BY <1>9, <2>2 DEF SetLeds, PagesOK, SavedOK
<1>10. ASSUME NEW p \in Processes, Kill(p) PROVE IInv'
  <2>1. RunsOK'
    BY <1>10, NoRunOK, StepOK DEF Kill
  <2> QED BY <1>10, <2>1 DEF Kill, PagesOK, SavedOK
<1>11. CASE UNCHANGED vars
  BY <1>11 DEF vars, PagesOK, SavedOK, RunsOK
<1> QED BY <1>1, <1>2, <1>3, <1>4, <1>5, <1>6, <1>7, <1>8, <1>9, <1>10, <1>11 DEF Next

LEMMA IInvFaultsTold == IInv => FaultsTold
  BY DEF IInv, SavedOK, FileOK, FaultsTold

(* For any enclosures with at most one slider, any runs of diag_encl, with *)
(* any options and in any overlap, any changes of status, failures and     *)
(* kills: a fault in the saved page, about which later runs with -c are    *)
(* silent, has been reported, or was missed for a known reason.            *)
THEOREM FaultsReported ==
  ASSUME OneSlider
  PROVE  Spec => []FaultsTold
<1>1. Init => IInv
  BY InitIInv
<1>2. IInv /\ [Next]_vars => IInv'
  BY NextIInv
<1>3. IInv => FaultsTold
  BY IInvFaultsTold
<1> QED BY <1>1, <1>2, <1>3, PTL DEF Spec

-----------------------------------------------------------------------------
(* A run that stands alone says nothing twice, and LEDs follow the saved   *)
(* page: this is so for any number of sliders.                             *)

(* A run has read the status page of its enclosure.                        *)
Past(r) == r.pc \notin {"idle", "page"}

(* Alone means that no other run is at the enclosure.                      *)
Alone ==
  \A p, q \in Processes :
    p # q /\ Past(run[p]) /\ run[p].alone /\ run[q].n = run[p].n => ~Past(run[q])

(* The page of an undisturbed run is the one in the file.                  *)
LastKept ==
  \A n \in N : last[n] # NoPage =>
    /\ saved[n].page = last[n]
    /\ \A q \in Processes : run[q].n = n /\ Past(run[q]) => run[q].pc = "leds"

(* It is the one that an undisturbed run compares with.                    *)
ComparedRun(r) ==
  r.alone /\ r.since # NoPage =>
    /\ r.pc = "previous" => saved[r.n].page = r.since
    /\ r.pc = "report" /\ "c" \in r.opts => r.prev.page = r.since
Compared == \A p \in Processes : ComparedRun(run[p])

TwiceRun(r) ==
  "c" \in r.opts /\ r.alone /\ r.since # NoPage =>
    \A i \in r.said : \E e \in Range(Reports[Enclosures[r.n]][i]) :
      Badness(r.dp[e]) > Badness(r.since[e])

(* The LEDs of the saved page are lit, or are the next thing to be lit.    *)
Lightable(n) ==
  {e \in Leds[Enclosures[n]] :
     Badness(saved[n].page[e]) > 0 /\ saved[n].page[e] <= Unrecoverable}
LightsComing ==
  \A n \in N : saved[n].leds =>
    \A e \in Lightable(n) :
      \/ e \in lit[n] \union dark[n]
      \/ \E p \in Processes :
           run[p].pc = "leds" /\ run[p].n = n /\ run[p].dp = saved[n].page

(* The type invariant by its parts, and what it leaves out: that variables *)
(* and runs are functions.                                                 *)
PageType  == DOMAIN page = N /\ \A n \in N : page[n] \in Pages(n)
FilesType == \A n \in N : FileType(saved[n], n) /\ last[n] \in PageOrNone(n)
LedsType  == \A n \in N : lit[n] \subseteq Leds[Enclosures[n]] /\ dark[n] \subseteq Leds[Enclosures[n]]
RunsType  == \A p \in Processes : RunType(run[p])
CountType == changes \in 0 .. MaxChanges /\ runs \in 0 .. MaxRuns /\ faults \in 0 .. MaxFaults
Functional ==
  /\ DOMAIN saved = N /\ DOMAIN lit = N /\ DOMAIN dark = N /\ DOMAIN last = N
  /\ DOMAIN run = Processes /\ \A p \in Processes : IsRun(run[p])

LEMMA TypeParts == TypeOK <=> PageType /\ FilesType /\ LedsType /\ RunsType /\ CountType
  BY DEF TypeOK, PageType, FilesType, LedsType, RunsType, CountType

SingleInv == Alone /\ LastKept /\ Compared /\ NothingTwice
LifeInv   == TypeOK /\ Functional /\ SingleInv /\ LightsComing

-----------------------------------------------------------------------------
(* Facts about the operators.                                              *)

LEMMA MinIn ==
  ASSUME NEW S \in SUBSET Nat, S # {}
  PROVE  Min(S) \in S
<1>1. PICK m \in S : \A k \in S : ~(<<k, m>> \in OpToRel(<, Nat))
  BY NatLessThanWellFounded, WFMin
<1>2. \A k \in S : ~(k < m)
  BY <1>1 DEF OpToRel
<1>3. \A k \in S : m <= k
  BY <1>2
<1> QED
  BY <1>3 DEF Min

LEMMA ReportsNumbered == \A m \in Models : DOMAIN Reports[m] \subseteq Nat
  BY DEF Models, Reports, BluehawkReports, HomerunReports, SliderReports

LEMMA RankType == \A s : Rank(s) \in 0 .. 2
  BY DEF Rank

(* A status that has worsened is a worse one.                              *)
LEMMA Worsened ==
  ASSUME NEW old \in Statuses, NEW new \in Statuses, status_worsened(old, new)
  PROVE  Badness(new) > Badness(old)
<1>1. old \in Int /\ new \in Int
  BY ConstantsAssumption DEF Unsupported, NoAccess
<1>2. new \notin {OK, NotInstalled} /\ old \in {OK, NonCritical} /\ new > OK /\ new # old
  BY DEF status_worsened, worse_element_status
<1>3. Badness(new) = IF new = NonCritical THEN 1 ELSE 2
  BY <1>1, <1>2 DEF Badness, OK, NotInstalled, Unsupported, NonCritical
<1>4. Badness(old) = IF old = OK THEN 0 ELSE 1
  BY <1>1, <1>2 DEF Badness, OK, NotInstalled, Unsupported, NonCritical
<1> QED
  BY <1>2, <1>3, <1>4 DEF OK, NonCritical

LEMMA SomeElement == \A m \in Models : Elements(m) # {}
<1>1. ASSUME NEW m \in Models
      PROVE  Elements(m) # {}
  <2>1. 1 \in DOMAIN Reports[m]
    BY DEF Models, Reports, BluehawkReports, HomerunReports, SliderReports
  <2>2. Reports[m][1][1] \in Range(Reports[m][1])
    BY <2>1, Entries DEF FirstAndLast
  <2> QED
    BY <2>1, <2>2 DEF Elements, Reported
<1> QED
  BY <1>1

LEMMA PageFacts ==
  ASSUME NEW n \in N
  PROVE  /\ Enclosures[n] \in Models /\ NoPage \notin Pages(n)
         /\ \A f \in Pages(n) : DOMAIN f = Elements(Enclosures[n])
         /\ Reported(Enclosures[n]) \subseteq Elements(Enclosures[n])
<1>1. Enclosures[n] \in Models
  BY ConstantsAssumption DEF N
<1>2. \A f \in Pages(n) : DOMAIN f = Elements(Enclosures[n])
  BY DEF Pages
<1>3. DOMAIN NoPage = {}
  BY DEF NoPage
<1> QED
  BY <1>1, <1>2, <1>3, SomeElement DEF Elements

(* A file that is written has its type.                                    *)
LEMMA ToldRange ==
  ASSUME NEW r, NEW n \in N, r.n = n, r.dp \in Pages(n), FileType(r.prev, n)
  PROVE  Told(r) \in [DOMAIN r.dp -> 0 .. 2]
<1>1. DOMAIN r.dp = Elements(Enclosures[n])
  BY PageFacts
<1>2. ASSUME NEW e \in DOMAIN r.dp, r.prev.page # NoPage
      PROVE  Min({Rank(r.dp[e]), r.prev.told[e]}) \in 0 .. 2
  <2>1. DOMAIN r.prev.page = DOMAIN r.dp
    BY <1>1, <1>2, PageFacts DEF FileType, PageOrNone
  <2>2. Rank(r.dp[e]) \in 0 .. 2 /\ r.prev.told[e] \in 0 .. 2
    BY <1>2, <2>1, RankType DEF FileType
  <2>3. Min({Rank(r.dp[e]), r.prev.told[e]}) \in {Rank(r.dp[e]), r.prev.told[e]}
    BY <2>2, MinOfTwo
  <2> QED
    BY <2>2, <2>3
<1> QED
  BY <1>2, RankType DEF Told

LEMMA WrittenFile ==
  ASSUME NEW r, NEW n \in N, r.n = n, r.dp \in Pages(n), FileType(r.prev, n)
  PROVE  FileType(File(r), n) /\ File(r).page = r.dp /\ (File(r).leds <=> "l" \in r.opts)
<1>1. PICK f : f = File(r)
  OBVIOUS
<1>2. f.page = r.dp /\ f.told = Told(r) /\ f.leds = ("l" \in r.opts)
  BY <1>1, Zenon DEF File
<1>3. f.missed \subseteq DOMAIN r.dp
  BY <1>1 DEF File
<1>4. f.leds \in BOOLEAN /\ (f.leds <=> "l" \in r.opts)
  <2>1. ("l" \in r.opts) \in BOOLEAN
    OBVIOUS
  <2>2. f.leds \in BOOLEAN
    BY <1>2, <2>1, Zenon
  <2>3. f.leds <=> "l" \in r.opts
    BY <1>2, Zenon
  <2> QED
    BY <2>2, <2>3
<1>5. DOMAIN r.dp = Elements(Enclosures[n])
  BY PageFacts
<1> QED
  BY <1>1, <1>2, <1>3, <1>4, <1>5, ToldRange DEF FileType, PageOrNone

LEMMA NoFileType ==
  ASSUME NEW n
  PROVE  FileType(NoFile, n) /\ NoFile.page = NoPage /\ ~NoFile.leds
<1>1. NoFile.page = NoPage /\ NoFile.told = NoPage /\ NoFile.missed = {} /\ NoFile.leds = FALSE
  BY DEF NoFile
<1>2. NoPage \in [DOMAIN NoPage -> 0 .. 2]
  BY DEF NoPage
<1> QED
  BY <1>1, <1>2 DEF FileType, PageOrNone

(* What has a LED has a status.                                            *)
LEMMA InEntry ==
  ASSUME NEW m \in Models, NEW i \in DOMAIN Reports[m], NEW j \in DOMAIN Reports[m][i]
  PROVE  Reports[m][i][j] \in Elements(m)
  BY DEF Elements, Reported, Range

LEMMA LedElements == \A m \in Models : Leds[m] \subseteq Elements(m)
<1>1. BluehawkLeds \subseteq Elements("bluehawk")
  <2>1. \A i \in 1 .. 11 : Reports["bluehawk"][i][1] \in Elements("bluehawk")
    BY InEntry DEF Models, Reports, BluehawkReports
  <2> QED
    BY <2>1 DEF BluehawkLeds, Reports, BluehawkReports
<1>2. HomerunLeds \subseteq Elements("homerun")
  <2>1. \A i \in 1 .. 7 : Reports["homerun"][i][1] \in Elements("homerun")
    BY InEntry DEF Models, Reports, HomerunReports
  <2> QED
    BY <2>1 DEF HomerunLeds, Reports, HomerunReports
<1>3. SliderLeds \subseteq Elements("slider")
  <2>1. SliderReports = Reports["slider"]
    BY DEF Reports
  <2>2. /\ 1 \in DOMAIN DiskFault /\ 1 \in DOMAIN PowerSupplyFault /\ 1 \in DOMAIN CoolingFault
        /\ 1 \in DOMAIN AmbientFault /\ 1 \in DOMAIN PsuTempFault /\ 1 \in DOMAIN EscTempFault
        /\ 1 \in DOMAIN EscFault /\ 1 \in DOMAIN EnclosureFault /\ 1 \in DOMAIN VoltageFault
        /\ 1 \in DOMAIN ExpanderFault /\ 1 \in DOMAIN ConnectorFault /\ 1 \in DOMAIN MidplaneFault
        /\ 1 \in DOMAIN PhyFault /\ 1 \in DOMAIN StateSaveFault /\ 1 \in DOMAIN CpldFault
        /\ 1 \in DOMAIN InputPowerFault
    BY DEF DiskFault, PowerSupplyFault, CoolingFault, AmbientFault,
       PsuTempFault, EscTempFault, EscFault, EnclosureFault, VoltageFault, ExpanderFault,
       ConnectorFault, MidplaneFault, PhyFault, StateSaveFault, CpldFault, InputPowerFault
  <2>3. DOMAIN SliderReports = 1 .. 16 /\ \A i \in 1 .. 16 : 1 \in DOMAIN SliderReports[i]
    BY <2>2 DEF SliderReports
  <2>4. "slider" \in Models
    BY DEF Models
  <2>5. \A i \in 1 .. 16 : SliderReports[i][1] \in Elements("slider")
    BY <2>1, <2>3, <2>4, InEntry
  <2> QED
    BY <2>5 DEF SliderLeds, SliderReports, DiskFault, PowerSupplyFault, CoolingFault, AmbientFault,
       PsuTempFault, EscTempFault, EscFault, EnclosureFault, VoltageFault, ExpanderFault,
       ConnectorFault, MidplaneFault, PhyFault, StateSaveFault, CpldFault, InputPowerFault
<1> QED
  BY <1>1, <1>2, <1>3 DEF Models, Leds

-----------------------------------------------------------------------------
(* A step changes one run.                                                 *)

LEMMA NoRunFacts ==
  /\ IsRun(NoRun) /\ NoRun.pc = "idle" /\ NoRun.n = 0 /\ NoRun.prev = NoFile /\ NoRun.opts = {}
  /\ NoRun.dp = NoPage /\ NoRun.said = {} /\ NoRun.cached = 0 /\ NoRun.missed = {}
  /\ NoRun.since = NoPage /\ NoRun.alone = FALSE
  BY DEF IsRun, Fields, NoRun

LEMMA NoRunType == RunType(NoRun)
  BY NoRunFacts DEF RunType

LEMMA OneRunSteps ==
  ASSUME RunsType, Functional, NEW p \in Processes, NEW s, Step(p, s), RunType(s), IsRun(s)
  PROVE  /\ RunsType' /\ DOMAIN run' = Processes /\ \A q \in Processes : IsRun(run'[q])
         /\ run'[p] = s /\ \A q \in Processes : q # p => run'[q] = run[q]
<1>1. run'[p] = s /\ DOMAIN run' = Processes /\ \A q \in Processes : q # p => run'[q] = run[q]
  BY DEF Step, Functional
<1> QED
  BY <1>1 DEF RunsType, Functional

(* What a run leaves at an enclosure stays there.                          *)
LEMMA RunMoves ==
  ASSUME Alone, LastKept, NEW p \in Processes, NEW s,
         run'[p] = s, \A q \in Processes : q # p => run'[q] = run[q],
         Past(s) => /\ Past(run[p]) /\ s.n = run[p].n /\ (s.alone => run[p].alone)
                    /\ run[p].pc = "leds" => s.pc = "leds",
         UNCHANGED last, \A n \in N : last[n] # NoPage => saved'[n].page = saved[n].page
  PROVE  Alone' /\ LastKept'
<1>1. Alone'
  <2>1. SUFFICES ASSUME NEW q \in Processes, NEW o \in Processes, q # o,
                        Past(run'[q]), run'[q].alone, run'[o].n = run'[q].n, Past(run'[o])
                 PROVE  FALSE
    BY DEF Alone, Past
  <2>2. /\ Past(run[q]) /\ run'[q].n = run[q].n /\ run[q].alone
    BY <2>1
  <2>3. Past(run[o]) /\ run'[o].n = run[o].n
    BY <2>1
  <2> QED
    BY <2>1, <2>2, <2>3 DEF Alone
<1>2. LastKept'
  <2>1. SUFFICES ASSUME NEW n \in N, last[n] # NoPage
                 PROVE  /\ saved'[n].page = last[n]
                        /\ \A q \in Processes : run'[q].n = n /\ Past(run'[q]) => run'[q].pc = "leds"
    BY DEF LastKept, Past
  <2>2. saved[n].page = last[n]
        /\ \A q \in Processes : run[q].n = n /\ Past(run[q]) => run[q].pc = "leds"
    BY <2>1 DEF LastKept
  <2> QED
    BY <2>1, <2>2
<1> QED
  BY <1>1, <1>2

(* What the other runs compare with stays as it is.                        *)
LEMMA OthersCompare ==
  ASSUME Alone, Compared, NEW p \in Processes, NEW q \in Processes, q # p,
         run'[q] = run[q],
         \/ UNCHANGED saved
         \/ /\ Past(run[p])
            /\ \A n : n # run[p].n => saved'[n] = saved[n]
  PROVE  ComparedRun(run[q])'
<1>1. SUFFICES ASSUME run[q].alone, run[q].since # NoPage
               PROVE  /\ run[q].pc = "previous" => saved'[run[q].n].page = run[q].since
                      /\ run[q].pc = "report" /\ "c" \in run[q].opts => run[q].prev.page = run[q].since
  BY DEF ComparedRun
<1>2. /\ run[q].pc = "previous" => saved[run[q].n].page = run[q].since
      /\ run[q].pc = "report" /\ "c" \in run[q].opts => run[q].prev.page = run[q].since
  BY <1>1 DEF Compared, ComparedRun
<1>3. run[q].pc = "previous" => Past(run[q])
  BY DEF Past
<1> QED
  BY <1>1, <1>2, <1>3 DEF Alone

LEMMA OthersTwice ==
  ASSUME NothingTwice, NEW p \in Processes, NEW s, TwiceRun(s),
         run'[p] = s, \A q \in Processes : q # p => run'[q] = run[q]
  PROVE  NothingTwice'
<1>1. \A q \in Processes : TwiceRun(run[q])
  BY DEF NothingTwice, TwiceRun
<1>2. \A q \in Processes : TwiceRun(run'[q])
  BY <1>1
<1> QED
  BY <1>2 DEF NothingTwice, TwiceRun

(* A run that ends or goes on to the next enclosure starts from nothing.   *)
Fresh(s) == RunType(s) /\ IsRun(s) /\ ~Past(s) /\ s.said = {} /\ ~s.alone

LEMMA NoRunFresh == Fresh(NoRun)
  BY NoRunFacts, NoRunType DEF Fresh, Past

LEMMA PageFresh ==
  ASSUME NEW opts \in Options, NEW n \in N, NEW cached \in 0 .. n
  PROVE  Fresh([NoRun EXCEPT !.pc = "page", !.opts = opts, !.n = n, !.cached = cached])
<1>1. PICK s : s = [NoRun EXCEPT !.pc = "page", !.opts = opts, !.n = n, !.cached = cached]
  OBVIOUS
<1>2. /\ IsRun(s) /\ s.pc = "page" /\ s.opts = opts /\ s.n = n /\ s.cached = cached
      /\ s.prev = NoFile /\ s.dp = NoPage /\ s.said = {} /\ s.missed = {} /\ s.since = NoPage
      /\ s.alone = FALSE
  BY <1>1, NoRunFacts DEF IsRun, Fields
<1>3. RunType(s)
  BY <1>2, NoFileType DEF RunType, PageOrNone
<1> QED
  BY <1>1, <1>2, <1>3 DEF Fresh, Past

LEMMA NextFresh ==
  ASSUME NEW r, RunType(r), r.pc # "idle"
  PROVE  Fresh(NextEnclosure(r))
<1>1. CASE r.n = Len(Enclosures)
  BY <1>1, NoRunFresh DEF NextEnclosure
<1>2. CASE r.n # Len(Enclosures)
  <2>1. /\ r.n \in N /\ r.opts \in Options /\ r.cached \in 0 .. r.n
    BY DEF RunType
  <2>2. r.n + 1 \in N /\ r.cached \in 0 .. (r.n + 1)
    BY <1>2, <2>1, ConstantsAssumption DEF N
  <2> QED
    BY <1>2, <2>1, <2>2, PageFresh DEF NextEnclosure
<1> QED
  BY <1>1, <1>2

LEMMA FreshSingle ==
  ASSUME SingleInv, RunsType, Functional, NEW p \in Processes, NEW s, Step(p, s), Fresh(s),
         UNCHANGED last, \A n \in N : last[n] # NoPage => saved'[n].page = saved[n].page,
         \/ UNCHANGED saved
         \/ /\ Past(run[p])
            /\ \A n : n # run[p].n => saved'[n] = saved[n]
  PROVE  SingleInv'
<1>1. run'[p] = s /\ \A q \in Processes : q # p => run'[q] = run[q]
  BY OneRunSteps DEF Fresh
<1>2. Alone' /\ LastKept'
  BY <1>1, RunMoves DEF SingleInv, Fresh
<1>3. ComparedRun(s)'
  BY DEF Fresh, ComparedRun
<1>4. Compared'
  BY <1>1, <1>3, OthersCompare DEF Compared, SingleInv, ComparedRun
<1>5. NothingTwice'
  BY <1>1, OthersTwice DEF Fresh, SingleInv, TwiceRun
<1> QED
  BY <1>2, <1>4, <1>5 DEF SingleInv

(* The LEDs of a run that is about to light them are lit, or left alone.   *)
LEMMA LightsStay ==
  ASSUME LightsComing, NEW p \in Processes, \A q \in Processes : q # p => run'[q] = run[q],
         \A n \in N : lit[n] \subseteq lit'[n] /\ dark[n] \subseteq dark'[n],
         \A n \in N : saved'[n].leds =>
           \/ saved'[n] = saved[n]
           \/ n = run'[p].n /\ run'[p].pc = "leds" /\ run'[p].dp = saved'[n].page,
         run[p].pc = "leds" =>
           \A e \in Leds[Enclosures[run[p].n]] :
             Badness(run[p].dp[e]) > 0 /\ run[p].dp[e] <= Unrecoverable =>
               e \in lit'[run[p].n] \union dark'[run[p].n]
  PROVE  LightsComing'
<1>1. SUFFICES ASSUME NEW n \in N, saved'[n].leds, NEW e \in Leds[Enclosures[n]],
                      Badness(saved'[n].page[e]) > 0, saved'[n].page[e] <= Unrecoverable
               PROVE  \/ e \in lit'[n] \union dark'[n]
                      \/ \E q \in Processes :
                           run'[q].pc = "leds" /\ run'[q].n = n /\ run'[q].dp = saved'[n].page
  BY DEF LightsComing, Lightable
<1>2. CASE n = run'[p].n /\ run'[p].pc = "leds" /\ run'[p].dp = saved'[n].page
  BY <1>2
<1>3. CASE saved'[n] = saved[n]
  <2>1. \/ e \in lit[n] \union dark[n]
        \/ \E q \in Processes : run[q].pc = "leds" /\ run[q].n = n /\ run[q].dp = saved[n].page
    BY <1>1, <1>3 DEF LightsComing, Lightable
  <2>2. ASSUME NEW q \in Processes, run[q].pc = "leds", run[q].n = n, run[q].dp = saved[n].page
        PROVE  \/ e \in lit'[n] \union dark'[n]
               \/ run'[q].pc = "leds" /\ run'[q].n = n /\ run'[q].dp = saved'[n].page
    <3>1. CASE q = p
      BY <1>1, <1>3, <2>2, <3>1
    <3>2. CASE q # p
      BY <1>3, <2>2, <3>2
    <3> QED
      BY <3>1, <3>2
  <2> QED
    BY <2>1, <2>2
<1> QED
  BY <1>1, <1>2, <1>3

LEMMA FaultCount ==
  ASSUME CountType, Fails \/ UNCHANGED faults, changes' \in 0 .. MaxChanges, runs' \in 0 .. MaxRuns
  PROVE  CountType'
  BY ConstantsAssumption DEF CountType, Fails

LEMMA PartsNext ==
  ASSUME PageType', FilesType', LedsType', RunsType', CountType', Functional', SingleInv', LightsComing'
  PROVE  LifeInv'
<1>1. TypeOK'
  BY DEF TypeOK, PageType, FilesType, LedsType, RunsType, CountType
<1> QED
  BY <1>1, Zenon DEF LifeInv

LEMMA LifeInit == Init => LifeInv
<1> SUFFICES ASSUME Init PROVE LifeInv
  OBVIOUS
<1>1. /\ page = [n \in N |-> [e \in Elements(Enclosures[n]) |-> OK]]
      /\ saved = [n \in N |-> NoFile] /\ lit = [n \in N |-> {}]
      /\ run = [p \in Processes |-> NoRun]
      /\ changes = 0 /\ runs = 0 /\ faults = 0
      /\ last = [n \in N |-> NoPage] /\ dark = [n \in N |-> {}]
  BY DEF Init
<1>2. PageType /\ FilesType /\ LedsType /\ RunsType
  BY <1>1, NoFileType, NoRunType, ConstantsAssumption
  DEF PageType, Pages, FilesType, PageOrNone, LedsType, RunsType
<1>3. CountType
  BY <1>1, ConstantsAssumption DEF CountType
<1>4. Functional
  BY <1>1, NoRunFacts DEF Functional
<1>5. SingleInv
  BY <1>1, NoRunFacts DEF SingleInv, Alone, LastKept, Compared, ComparedRun, NothingTwice
<1>6. LightsComing
  BY <1>1, NoFileType DEF LightsComing
<1> QED
  BY <1>2, <1>3, <1>4, <1>5, <1>6, TypeParts DEF LifeInv

-----------------------------------------------------------------------------
(* The steps.                                                              *)

LEMMA ChangeLife ==
  ASSUME LifeInv, Change
  PROVE  LifeInv'
<1> USE TypeParts DEF LifeInv
<1>1. PICK x \in Changing, s \in Statuses : page' = [page EXCEPT ![x[1]][x[2]] = s]
  BY DEF Change
<1>2. x[1] \in N /\ x[2] \in Elements(Enclosures[x[1]])
  BY ChangingAssumption
<1>3. [page[x[1]] EXCEPT ![x[2]] = s] \in Pages(x[1])
  BY <1>2 DEF PageType, Pages
<1>4. page' = [page EXCEPT ![x[1]] = [page[x[1]] EXCEPT ![x[2]] = s]]
  BY <1>1
<1>5. PageType'
  BY <1>2, <1>3, <1>4 DEF PageType
<1>6. CountType'
  BY ConstantsAssumption DEF Change, CountType
<1>7. UNCHANGED <<saved, lit, run, last, dark>>
  BY DEF Change
<1>8. FilesType' /\ LedsType' /\ RunsType' /\ Functional'
  BY <1>7 DEF FilesType, LedsType, RunsType, Functional
<1>9. SingleInv'
  BY <1>7 DEF SingleInv, Alone, LastKept, Compared, ComparedRun, NothingTwice
<1>10. LightsComing'
  BY <1>7 DEF LightsComing, Lightable
<1> QED
  BY <1>5, <1>6, <1>8, <1>9, <1>10, PartsNext

(* Steps after which the run starts from nothing, and the file is as it    *)
(* was.                                                                    *)
LEMMA FreshLife ==
  ASSUME LifeInv, NEW p \in Processes, NEW s, Step(p, s), Fresh(s), CountType',
         LedsType', DOMAIN lit' = N, DOMAIN dark' = N, UNCHANGED <<page, saved, last>>,
         \A n \in N : lit[n] \subseteq lit'[n] /\ dark[n] \subseteq dark'[n],
         run[p].pc = "leds" =>
           \A e \in Leds[Enclosures[run[p].n]] :
             Badness(run[p].dp[e]) > 0 /\ run[p].dp[e] <= Unrecoverable =>
               e \in lit'[run[p].n] \union dark'[run[p].n]
  PROVE  LifeInv'
<1> USE TypeParts DEF LifeInv
<1>1. /\ RunsType' /\ DOMAIN run' = Processes /\ \A q \in Processes : IsRun(run'[q])
      /\ run'[p] = s /\ \A q \in Processes : q # p => run'[q] = run[q]
  BY OneRunSteps DEF Fresh
<1>2. PageType' /\ FilesType'
  BY DEF PageType, FilesType
<1>3. Functional'
  BY <1>1 DEF Functional
<1>4. SingleInv'
  BY FreshSingle
<1>5. LightsComing'
  BY <1>1, LightsStay
<1> QED
  BY <1>1, <1>2, <1>3, <1>4, <1>5, PartsNext

LEMMA BeginLife ==
  ASSUME LifeInv, NEW p \in Processes, Begin(p)
  PROVE  LifeInv'
<1> USE TypeParts DEF LifeInv
<1>1. PICK opts \in Options :
        Step(p, [NoRun EXCEPT !.pc = "page", !.opts = opts, !.n = 1])
  BY DEF Begin
<1>2. PICK s : s = [NoRun EXCEPT !.pc = "page", !.opts = opts, !.n = 1, !.cached = 0]
  OBVIOUS
<1>3. 1 \in N /\ 0 \in 0 .. 1
  BY ConstantsAssumption DEF N
<1>4. Fresh(s)
  BY <1>2, <1>3, PageFresh
<1>5. s = [NoRun EXCEPT !.pc = "page", !.opts = opts, !.n = 1]
  BY <1>2, NoRunFacts DEF IsRun, Fields
<1>6. CountType'
  BY ConstantsAssumption DEF Begin, CountType
<1>7. run[p].pc = "idle" /\ UNCHANGED <<page, saved, lit, last, dark>>
  BY DEF Begin, At
<1>8. LedsType' /\ DOMAIN lit' = N /\ DOMAIN dark' = N
  BY <1>7 DEF LedsType, Functional
<1> QED
  BY <1>1, <1>4, <1>5, <1>6, <1>7, <1>8, FreshLife

LEMMA SkipLife ==
  ASSUME LifeInv, NEW p \in Processes, SkipEnclosure(p)
  PROVE  LifeInv'
<1> USE TypeParts DEF LifeInv
<1>1. run[p].pc = "page" /\ Step(p, NextEnclosure(run[p])) /\ Fails
      /\ UNCHANGED <<page, saved, lit, changes, runs, last, dark>>
  BY DEF SkipEnclosure, At
<1>2. Fresh(NextEnclosure(run[p]))
  BY <1>1, NextFresh DEF RunsType
<1>3. CountType' /\ LedsType' /\ DOMAIN lit' = N /\ DOMAIN dark' = N
  BY <1>1, FaultCount DEF CountType, LedsType, Functional
<1> QED
  BY <1>1, <1>2, <1>3, FreshLife

LEMMA KillLife ==
  ASSUME LifeInv, NEW p \in Processes, Kill(p)
  PROVE  LifeInv'
<1> USE TypeParts DEF LifeInv
<1>1. /\ run[p].pc # "idle" /\ Fails /\ Step(p, NoRun)
      /\ dark' = [dark EXCEPT ![run[p].n] = IF run[p].pc = "leds" THEN Leds[Enclosures[run[p].n]]
                                            ELSE dark[run[p].n]]
      /\ UNCHANGED <<page, saved, lit, changes, runs, last>>
  BY DEF Kill, At, Enclosure
<1>2. run[p].n \in N /\ DOMAIN dark = N
  BY <1>1 DEF RunsType, RunType, Functional
<1>3. CountType' /\ DOMAIN lit' = N /\ DOMAIN dark' = N
  BY <1>1, FaultCount DEF CountType, Functional
<1>4. \A n \in N : dark[n] \subseteq dark'[n] /\ dark'[n] \subseteq Leds[Enclosures[n]]
  BY <1>1, <1>2 DEF LedsType
<1>5. LedsType'
  BY <1>1, <1>4 DEF LedsType
<1>6. run[p].pc = "leds" => dark'[run[p].n] = Leds[Enclosures[run[p].n]]
  BY <1>1, <1>2
<1> QED
  BY <1>1, <1>3, <1>4, <1>5, <1>6, NoRunFresh, FreshLife

LEMMA SetLedsLife ==
  ASSUME LifeInv, NEW p \in Processes, SetLeds(p)
  PROVE  LifeInv'
<1> USE TypeParts DEF LifeInv
<1>1. /\ run[p].pc = "leds" /\ Step(p, NextEnclosure(run[p]))
      /\ \/ /\ lit' = [lit EXCEPT ![run[p].n] = lit[run[p].n] \union FaultLeds(run[p])]
            /\ UNCHANGED <<faults, dark>>
         \/ /\ Fails /\ UNCHANGED lit
            /\ dark' = [dark EXCEPT ![run[p].n] = dark[run[p].n] \union Leds[Enclosures[run[p].n]]]
      /\ UNCHANGED <<page, saved, changes, runs, last>>
  BY DEF SetLeds, At, Enclosure
<1>2. run[p].n \in N /\ DOMAIN dark = N /\ DOMAIN lit = N /\ Fresh(NextEnclosure(run[p]))
  BY <1>1, NextFresh DEF RunsType, RunType, Functional
<1>3. CountType' /\ DOMAIN lit' = N /\ DOMAIN dark' = N
  BY <1>1, <1>2, FaultCount DEF CountType
<1>4. FaultLeds(run[p]) \subseteq Leds[Enclosures[run[p].n]]
  BY DEF FaultLeds
<1>5. \A n \in N : /\ dark[n] \subseteq dark'[n] /\ dark'[n] \subseteq Leds[Enclosures[n]]
                   /\ lit[n] \subseteq lit'[n] /\ lit'[n] \subseteq Leds[Enclosures[n]]
  BY <1>1, <1>2, <1>4 DEF LedsType
<1>6. LedsType'
  BY <1>5 DEF LedsType
<1>7. ASSUME NEW e \in Leds[Enclosures[run[p].n]],
             Badness(run[p].dp[e]) > 0, run[p].dp[e] <= Unrecoverable
      PROVE  e \in lit'[run[p].n] \union dark'[run[p].n]
  <2>1. PICK v : v = run[p].dp[e]
    OBVIOUS
  <2>2. run[p].dp \in Pages(run[p].n) /\ e \in Elements(Enclosures[run[p].n])
    BY <1>1, <1>2, PageFacts, LedElements DEF RunsType, RunType
  <2>3. v \in 0 .. 8
    BY <2>1, <2>2, ConstantsAssumption DEF Pages, Unsupported, NoAccess
  <2>4. v \in {Critical, NonCritical, Unrecoverable}
    BY <1>7, <2>1, <2>3 DEF Badness, OK, NotInstalled, Unsupported, Critical, NonCritical, Unrecoverable
  <2>5. e \in FaultLeds(run[p])
    BY <2>1, <2>4 DEF FaultLeds
  <2> QED
    BY <1>1, <1>2, <2>5
<1> QED
  BY <1>1, <1>2, <1>3, <1>5, <1>6, <1>7, FreshLife

LEMMA ReadPageLife ==
  ASSUME LifeInv, NEW p \in Processes, ReadPage(p)
  PROVE  LifeInv'
<1> USE TypeParts DEF LifeInv
<1> PICK n : n = run[p].n
  OBVIOUS
<1>1. /\ run[p].pc = "page" /\ last' = [last EXCEPT ![n] = NoPage]
      /\ UNCHANGED <<page, saved, lit, changes, runs, faults, dark>>
  BY DEF ReadPage, At
<1>2. n \in N /\ DOMAIN last = N /\ page[n] \in Pages(n) /\ last[n] \in PageOrNone(n)
  BY <1>1 DEF RunsType, RunType, Functional, PageType, FilesType
<1>3. /\ IsRun(run'[p]) /\ run'[p].opts = run[p].opts /\ run'[p].n = n
      /\ run'[p].pc = IF "c" \in run[p].opts THEN "previous" ELSE "report"
      /\ run'[p].dp = page[n] /\ run'[p].prev = run[p].prev /\ run'[p].said = run[p].said
      /\ run'[p].cached = run[p].cached /\ run'[p].missed = run[p].missed
      /\ run'[p].since = last[n]
  <2>1. PICK a : run'[p] = [run[p] EXCEPT !.pc = IF "c" \in run[p].opts THEN "previous" ELSE "report",
                                          !.dp = page[n], !.since = last[n], !.alone = a]
    BY DEF ReadPage
  <2> QED
    BY <2>1 DEF Functional, IsRun, Fields
<1>4. /\ run'[p].alone \in BOOLEAN
      /\ run'[p].alone => \A q \in Processes : q # p /\ run[q].n = n => run[q].pc = "page"
  <2>1. PICK a : a = ~\E x \in Processes : x # p /\ run[x].n = n /\ ~At(x, "page")
    OBVIOUS
  <2>2. run'[p] = [run[p] EXCEPT !.pc = IF "c" \in run[p].opts THEN "previous" ELSE "report",
                                 !.dp = page[n], !.since = last[n], !.alone = a]
    BY <2>1 DEF ReadPage
  <2>3. run'[p].alone = a
    BY <2>2 DEF Functional, IsRun, Fields
  <2> QED
    BY <2>1, <2>3 DEF At
<1>5. ASSUME NEW q \in Processes, q # p
      PROVE  /\ IsRun(run'[q]) /\ run'[q].opts = run[q].opts /\ run'[q].n = run[q].n
             /\ run'[q].pc = run[q].pc /\ run'[q].dp = run[q].dp /\ run'[q].prev = run[q].prev
             /\ run'[q].said = run[q].said /\ run'[q].cached = run[q].cached
             /\ run'[q].missed = run[q].missed /\ run'[q].since = run[q].since
  <2>1. PICK a : run'[q] = [run[q] EXCEPT !.alone = a]
    BY <1>5 DEF ReadPage
  <2> QED
    BY <2>1 DEF Functional, IsRun, Fields
<1>6. ASSUME NEW q \in Processes, q # p
      PROVE  /\ run'[q].alone \in BOOLEAN
             /\ run'[q].alone => run[q].alone /\ (run[q].n = n => run[q].pc = "page")
  <2>1. PICK a : a = (run[q].alone /\ ~(q # p /\ run[q].n = n /\ ~At(q, "page")))
    OBVIOUS
  <2>2. run'[q] = [run[q] EXCEPT !.alone = a]
    BY <1>6, <2>1 DEF ReadPage
  <2>3. run'[q].alone = a
    BY <2>2 DEF Functional, IsRun, Fields
  <2> QED
    BY <1>6, <2>1, <2>3 DEF At
<1>7. RunType(run'[p])
  <2>1. RunType(run[p])
    BY <1>1 DEF RunsType, RunType
  <2> QED
    BY <1>1, <1>2, <1>3, <1>4, <2>1 DEF RunType
<1>8. ASSUME NEW q \in Processes, q # p
      PROVE  RunType(run'[q])
  <2>1. CASE run[q].pc = "idle"
    <3>1. run[q] = NoRun
      BY <2>1 DEF RunsType, RunType
    <3>2. ~run'[q].alone /\ run'[q].alone \in BOOLEAN
      BY <1>6, <1>8, <3>1, NoRunFacts
    <3>3. run'[q].alone = NoRun.alone
      BY <3>2, NoRunFacts
    <3>4. \A f \in Fields : run'[q][f] = NoRun[f]
      BY <1>5, <1>8, <3>1, <3>3 DEF Fields
    <3>5. run'[q] = NoRun
      BY <1>5, <1>8, <3>4, NoRunFacts DEF IsRun
    <3> QED
      BY <3>5, NoRunType
  <2>2. CASE run[q].pc # "idle"
    <3>1. RunType(run[q])
      BY DEF RunsType
    <3> QED
      BY <1>5, <1>6, <1>8, <2>2, <3>1 DEF RunType
  <2> QED
    BY <2>1, <2>2
<1>9. DOMAIN run' = Processes
  BY DEF ReadPage
<1>10. RunsType' /\ Functional'
  <2>1. DOMAIN last' = N
    BY <1>1, <1>2
  <2> QED
    BY <1>1, <1>3, <1>5, <1>7, <1>8, <1>9, <2>1 DEF RunsType, Functional
<1>11. PageType' /\ FilesType' /\ LedsType' /\ CountType'
  <2>1. \A m \in N : last'[m] \in PageOrNone(m)
    BY <1>1, <1>2 DEF FilesType, PageOrNone
  <2> QED
    BY <1>1, <2>1 DEF PageType, FilesType, LedsType, CountType
<1>12. Alone'
  <2>1. SUFFICES ASSUME NEW q \in Processes, NEW o \in Processes, q # o,
                        Past(run'[q]), run'[q].alone, run'[o].n = run'[q].n, Past(run'[o])
                 PROVE  FALSE
    BY DEF Alone, Past
  <2>2. CASE q = p
    BY <1>3, <1>4, <1>5, <2>1, <2>2 DEF Past
  <2>3. CASE o = p
    BY <1>3, <1>5, <1>6, <2>1, <2>3 DEF Past
  <2>4. CASE q # p /\ o # p
    BY <1>5, <1>6, <2>1, <2>4 DEF Past, SingleInv, Alone
  <2> QED
    BY <2>2, <2>3, <2>4
<1>13. LastKept'
  <2>1. SUFFICES ASSUME NEW m \in N, last'[m] # NoPage
                 PROVE  /\ saved'[m].page = last'[m]
                        /\ \A q \in Processes : run'[q].n = m /\ Past(run'[q]) => run'[q].pc = "leds"
    BY DEF LastKept, Past
  <2>2. m # n /\ last'[m] = last[m]
    BY <1>1, <1>2, <2>1
  <2>3. /\ saved[m].page = last[m]
        /\ \A q \in Processes : run[q].n = m /\ Past(run[q]) => run[q].pc = "leds"
    BY <2>1, <2>2 DEF SingleInv, LastKept
  <2> QED
    BY <1>1, <1>3, <1>5, <2>2, <2>3 DEF Past
<1>14. Compared'
  <2>1. ComparedRun(run[p])'
    <3>1. last[n] # NoPage => saved[n].page = last[n]
      BY <1>2 DEF SingleInv, LastKept
    <3> QED
      BY <1>1, <1>3, <3>1 DEF ComparedRun
  <2>2. ASSUME NEW q \in Processes, q # p
        PROVE  ComparedRun(run[q])'
    <3>1. ComparedRun(run[q])
      BY DEF SingleInv, Compared
    <3> QED
      BY <1>1, <1>5, <1>6, <2>2, <3>1 DEF ComparedRun
  <2> QED
    BY <2>1, <2>2 DEF Compared, ComparedRun
<1>15. NothingTwice'
  <2>1. run[p].said = {}
    BY <1>1 DEF RunsType, RunType
  <2>2. TwiceRun(run'[p])
    BY <1>3, <2>1 DEF TwiceRun
  <2>3. ASSUME NEW q \in Processes, q # p
        PROVE  TwiceRun(run'[q])
    <3>1. TwiceRun(run[q])
      BY DEF SingleInv, NothingTwice, TwiceRun
    <3> QED
      BY <1>5, <1>6, <2>3, <3>1 DEF TwiceRun
  <2>4. \A q \in Processes : TwiceRun(run'[q])
    BY <2>2, <2>3
  <2> QED
    BY <2>4 DEF NothingTwice, TwiceRun
<1>16. LightsComing'
  <2>1. \A q \in Processes : run[q].pc = "leds" =>
          run'[q].pc = "leds" /\ run'[q].n = run[q].n /\ run'[q].dp = run[q].dp
    BY <1>1, <1>5
  <2> QED
    BY <1>1, <2>1 DEF LightsComing, Lightable
<1> QED
  BY <1>10, <1>11, <1>12, <1>13, <1>14, <1>15, <1>16, PartsNext, Zenon DEF SingleInv

(* Steps after which the run is where it was, and the file no other page.  *)
LEMMA StayLife ==
  ASSUME LifeInv, NEW p \in Processes, NEW s, Step(p, s), RunType(s), IsRun(s),
         Past(run[p]), run[p].pc # "leds", s.n = run[p].n, s.alone = run[p].alone, TwiceRun(s),
         ComparedRun(s)', FilesType', CountType', DOMAIN saved' = N,
         \A n \in N : saved'[n] = saved[n] \/ (n = run[p].n /\ saved'[n] = NoFile),
         UNCHANGED saved \/ \A n : n # run[p].n => saved'[n] = saved[n],
         UNCHANGED <<page, lit, dark, last>>
  PROVE  LifeInv'
<1> USE TypeParts DEF LifeInv
<1>1. /\ RunsType' /\ DOMAIN run' = Processes /\ \A q \in Processes : IsRun(run'[q])
      /\ run'[p] = s /\ \A q \in Processes : q # p => run'[q] = run[q]
  BY OneRunSteps
<1>2. \A n \in N : last[n] # NoPage => saved'[n].page = saved[n].page
  <2>1. \A n \in N : last[n] # NoPage => n # run[p].n
    BY DEF SingleInv, LastKept
  <2> QED
    BY <2>1
<1>3. Alone' /\ LastKept'
  BY <1>1, <1>2, RunMoves DEF SingleInv
<1>4. Compared'
  BY <1>1, OthersCompare DEF Compared, SingleInv, ComparedRun
<1>5. NothingTwice'
  BY <1>1, OthersTwice DEF SingleInv
<1>6. LightsComing'
  <2>1. \A n \in N : saved'[n].leds => saved'[n] = saved[n]
    BY NoFileType
  <2> QED
    BY <1>1, <2>1, LightsStay
<1>7. PageType' /\ LedsType' /\ Functional'
  BY <1>1 DEF PageType, LedsType, Functional
<1> QED
  BY <1>1, <1>3, <1>4, <1>5, <1>6, <1>7, PartsNext, Zenon DEF SingleInv

LEMMA ReadPreviousLife ==
  ASSUME LifeInv, NEW p \in Processes, ReadPrevious(p)
  PROVE  LifeInv'
<1> USE TypeParts DEF LifeInv
<1> PICK r : r = run[p]
  OBVIOUS
<1> PICK s : s = [r EXCEPT !.pc = "report", !.prev = saved[r.n]]
  OBVIOUS
<1>1. r.pc = "previous" /\ Step(p, s)
      /\ UNCHANGED <<page, saved, lit, changes, runs, faults, last, dark>>
  BY DEF ReadPrevious, At
<1>2. RunType(r) /\ IsRun(r) /\ ComparedRun(r)
  BY DEF RunsType, Functional, SingleInv, Compared
<1>3. /\ IsRun(s) /\ s.pc = "report" /\ s.n = r.n /\ s.opts = r.opts /\ s.dp = r.dp
      /\ s.prev = saved[r.n] /\ s.said = r.said /\ s.cached = r.cached /\ s.missed = r.missed
      /\ s.since = r.since /\ s.alone = r.alone
  BY <1>2 DEF IsRun, Fields
<1>4. r.n \in N /\ r.said = {} /\ FileType(saved[r.n], r.n)
  BY <1>1, <1>2 DEF RunType, FilesType
<1>5. RunType(s)
  BY <1>1, <1>2, <1>3, <1>4 DEF RunType
<1>6. TwiceRun(s)
  BY <1>3, <1>4 DEF TwiceRun
<1>7. ComparedRun(s)'
  BY <1>1, <1>2, <1>3 DEF ComparedRun
<1>8. FilesType' /\ CountType' /\ DOMAIN saved' = N
  BY <1>1 DEF FilesType, CountType, Functional
<1>9. Past(run[p])
  BY <1>1 DEF Past
<1> QED
  BY <1>1, <1>3, <1>5, <1>6, <1>7, <1>8, <1>9, StayLife

(* An entry that an undisturbed run still has to report has become worse.  *)
LEMMA RemainingWorse ==
  ASSUME NEW r, NEW n \in N, r.n = n, r.dp \in Pages(n), r.since \in Pages(n),
         r.prev.page = r.since, NEW i \in Remaining(r)
  PROVE  \E e \in Range(Reports[Enclosures[n]][i]) : Badness(r.dp[e]) > Badness(r.since[e])
<1> DEFINE els == Reports[Enclosures[n]][i]
<1>1. i \in DOMAIN Reports[Enclosures[n]] /\ Reportable(els, r.dp, r.since)
  BY DEF Remaining
<1>2. PICK e \in Range(els) : status_worsened(r.since[e], r.dp[e])
  BY <1>1, PageFacts DEF Reportable
<1>3. e \in Elements(Enclosures[n])
  BY <1>1 DEF Elements, Reported
<1>4. r.since[e] \in Statuses /\ r.dp[e] \in Statuses
  BY <1>3 DEF Pages
<1> QED
  BY <1>2, <1>4, Worsened

LEMMA ReportLife ==
  ASSUME LifeInv, NEW p \in Processes, Report(p)
  PROVE  LifeInv'
<1> USE TypeParts DEF LifeInv
<1> PICK r : r = run[p]
  OBVIOUS
<1> PICK i : i = Min(Remaining(r))
  OBVIOUS
<1>1. r.pc = "report" /\ Remaining(r) # {} /\ UNCHANGED <<page, saved, lit, changes, runs, last, dark>>
  BY DEF Report, At
<1>2. RunType(r) /\ IsRun(r) /\ ComparedRun(r) /\ TwiceRun(r)
  BY DEF RunsType, Functional, SingleInv, Compared, NothingTwice, TwiceRun
<1>3. r.n \in N /\ r.dp \in Pages(r.n) /\ Enclosures[r.n] \in Models
  BY <1>1, <1>2, PageFacts DEF RunType
<1>4. Remaining(r) \subseteq DOMAIN Reports[Enclosures[r.n]] /\ i \in Remaining(r)
  <2>1. Remaining(r) \subseteq DOMAIN Reports[Enclosures[r.n]]
    BY DEF Remaining
  <2>2. Remaining(r) \in SUBSET Nat
    BY <1>3, <2>1, ReportsNumbered
  <2> QED
    BY <1>1, <2>1, <2>2, MinIn
<1>5. PICK cached, missed :
        /\ Step(p, [r EXCEPT !.said = r.said \union {i}, !.cached = cached, !.missed = missed])
        /\ cached \in {r.cached, r.n}
        /\ missed \subseteq r.missed \union Range(Reports[Enclosures[r.n]][i])
        /\ Fails \/ UNCHANGED faults
  <2> PICK c : c = IF Enclosures[r.n] = "slider" /\ r.cached = 0 THEN r.n ELSE r.cached
    OBVIOUS
  <2>1. CASE Step(p, [r EXCEPT !.said = r.said \union {i}, !.cached = c]) /\ UNCHANGED faults
    <3>1. [r EXCEPT !.said = r.said \union {i}, !.cached = c, !.missed = r.missed]
          = [r EXCEPT !.said = r.said \union {i}, !.cached = c]
      BY <1>2 DEF IsRun, Fields
    <3> QED
      BY <2>1, <3>1
  <2>2. CASE /\ Fails
             /\ Step(p, [r EXCEPT !.said = r.said \union {i}, !.cached = c,
                                  !.missed = r.missed \union Range(Reports[Enclosures[r.n]][i])])
    BY <2>2, ZenonT(60)
  <2> QED
    BY <1>2, <2>1, <2>2 DEF Report, Enclosure, IsRun, Fields
<1> PICK s : s = [r EXCEPT !.said = r.said \union {i}, !.cached = cached, !.missed = missed]
  OBVIOUS
<1>6. /\ IsRun(s) /\ s.pc = "report" /\ s.n = r.n /\ s.opts = r.opts /\ s.dp = r.dp
      /\ s.prev = r.prev /\ s.said = r.said \union {i} /\ s.cached = cached /\ s.missed = missed
      /\ s.since = r.since /\ s.alone = r.alone
  BY <1>1, <1>2 DEF IsRun, Fields
<1>7. RunType(s)
  <2>1. Range(Reports[Enclosures[r.n]][i]) \subseteq Reported(Enclosures[r.n])
    BY <1>4 DEF Reported
  <2>2. s.cached \in 0 .. s.n /\ s.said \subseteq DOMAIN Reports[Enclosures[s.n]]
    BY <1>1, <1>2, <1>3, <1>4, <1>5, <1>6, ConstantsAssumption DEF RunType, N
  <2>3. s.missed \subseteq Reported(Enclosures[s.n])
    BY <1>1, <1>2, <1>5, <1>6, <2>1 DEF RunType
  <2> QED
    BY <1>1, <1>2, <1>6, <2>2, <2>3 DEF RunType
<1>8. TwiceRun(s)
  <2>1. SUFFICES ASSUME "c" \in r.opts, r.alone, r.since # NoPage, NEW j \in r.said \union {i}
                 PROVE  \E e \in Range(Reports[Enclosures[r.n]][j]) :
                          Badness(r.dp[e]) > Badness(r.since[e])
    BY <1>6 DEF TwiceRun
  <2>2. CASE j \in r.said
    BY <1>2, <2>1, <2>2 DEF TwiceRun
  <2>3. CASE j = i
    <3>1. r.since \in Pages(r.n)
      BY <1>1, <1>2, <2>1 DEF RunType, PageOrNone
    <3>2. r.prev.page = r.since
      BY <1>1, <1>2, <2>1 DEF ComparedRun
    <3> QED
      BY <1>3, <1>4, <2>3, <3>1, <3>2, RemainingWorse
  <2> QED
    BY <2>2, <2>3
<1>9. ComparedRun(s)'
  BY <1>1, <1>2, <1>6 DEF ComparedRun
<1>10. FilesType' /\ CountType' /\ DOMAIN saved' = N
  BY <1>1, <1>5, FaultCount DEF FilesType, CountType, Functional
<1>11. Past(run[p])
  BY <1>1 DEF Past
<1> QED
  BY <1>1, <1>5, <1>6, <1>7, <1>8, <1>9, <1>10, <1>11, StayLife

LEMMA OpenFileLife ==
  ASSUME LifeInv, NEW p \in Processes, OpenFile(p)
  PROVE  LifeInv'
<1> USE TypeParts DEF LifeInv
<1> PICK r : r = run[p]
  OBVIOUS
<1>1. r.pc = "report" /\ UNCHANGED <<page, lit, changes, runs, last, dark>>
  BY DEF OpenFile, At
<1>2. RunType(r) /\ IsRun(r) /\ TwiceRun(r) /\ r.n \in N /\ DOMAIN saved = N
  BY <1>1 DEF RunsType, RunType, Functional, SingleInv, NothingTwice, TwiceRun
<1>3. CountType'
  BY <1>1, FaultCount DEF OpenFile, CountType
<1>4. CASE /\ Step(p, [r EXCEPT !.pc = "write"])
           /\ saved' = [saved EXCEPT ![r.n] = NoFile] /\ UNCHANGED faults
  <2> PICK s : s = [r EXCEPT !.pc = "write"]
    OBVIOUS
  <2>1. /\ IsRun(s) /\ s.pc = "write" /\ s.n = r.n /\ s.opts = r.opts /\ s.dp = r.dp
        /\ s.prev = r.prev /\ s.said = r.said /\ s.cached = r.cached /\ s.missed = r.missed
        /\ s.since = r.since /\ s.alone = r.alone
    BY <1>2 DEF IsRun, Fields
  <2>2. RunType(s)
    BY <1>1, <1>2, <2>1 DEF RunType
  <2>3. TwiceRun(s) /\ ComparedRun(s)'
    BY <1>2, <2>1 DEF TwiceRun, ComparedRun
  <2>4. /\ DOMAIN saved' = N /\ saved'[r.n] = NoFile /\ \A n : n # r.n => saved'[n] = saved[n]
    BY <1>2, <1>4
  <2>5. FilesType'
    BY <1>1, <2>4, NoFileType DEF FilesType
  <2>6. \A n \in N : saved'[n] = saved[n] \/ (n = run[p].n /\ saved'[n] = NoFile)
    BY <2>4
  <2>7. Past(run[p]) /\ run[p].pc # "leds" /\ s.n = run[p].n /\ s.alone = run[p].alone
    BY <1>1, <2>1 DEF Past
  <2>8. Step(p, s) /\ UNCHANGED <<page, lit, dark, last>>
    BY <1>1, <1>4
  <2>9. UNCHANGED saved \/ \A n : n # run[p].n => saved'[n] = saved[n]
    BY <2>4
  <2>10. IsRun(s) /\ DOMAIN saved' = N
    BY <2>1, <2>4
  <2> QED
    BY <1>3, <2>2, <2>3, <2>5, <2>6, <2>7, <2>8, <2>9, <2>10, StayLife
<1>5. CASE Fails /\ Step(p, NextEnclosure(r)) /\ UNCHANGED saved
  <2>1. Fresh(NextEnclosure(r))
    BY <1>1, <1>2, NextFresh
  <2>2. LedsType' /\ DOMAIN lit' = N /\ DOMAIN dark' = N
    BY <1>1 DEF LedsType, Functional
  <2> QED
    BY <1>1, <1>3, <1>5, <2>1, <2>2, FreshLife
<1> QED
  BY <1>4, <1>5 DEF OpenFile

(* The run goes on to the LEDs, or to the next enclosure.                  *)
LEMMA AfterFileRun ==
  ASSUME NEW r, RunType(r), IsRun(r), TwiceRun(r), r.pc = "write"
  PROVE  LET s == AfterFile(r)
         IN  /\ RunType(s) /\ IsRun(s) /\ TwiceRun(s)
             /\ Past(s) <=> "l" \in r.opts
             /\ Past(s) => s.pc = "leds" /\ s.n = r.n /\ s.dp = r.dp /\ s.alone = r.alone
             /\ Past(s) \/ Fresh(s)
             /\ s.pc \notin {"previous", "report"}
<1> PICK s : s = AfterFile(r)
  OBVIOUS
<1>1. CASE "l" \in r.opts
  <2>1. s = [r EXCEPT !.pc = "leds"]
    BY <1>1 DEF AfterFile
  <2>2. /\ IsRun(s) /\ s.pc = "leds" /\ s.n = r.n /\ s.opts = r.opts /\ s.dp = r.dp
        /\ s.prev = r.prev /\ s.said = r.said /\ s.cached = r.cached /\ s.missed = r.missed
        /\ s.since = r.since /\ s.alone = r.alone
    BY <2>1 DEF IsRun, Fields
  <2>3. RunType(s)
    BY <1>1, <2>2 DEF RunType
  <2>4. TwiceRun(s)
    BY <2>2 DEF TwiceRun
  <2> QED
    BY <1>1, <2>2, <2>3, <2>4 DEF Past
<1>2. CASE "l" \notin r.opts
  <2>1. Fresh(s)
    BY <1>2, NextFresh DEF AfterFile
  <2>2. TwiceRun(s) /\ ~Past(s) /\ RunType(s) /\ IsRun(s)
    BY <2>1 DEF Fresh, TwiceRun
  <2> QED
    BY <1>2, <2>1, <2>2 DEF Past
<1> QED
  BY <1>1, <1>2

LEMMA WritePageLife ==
  ASSUME LifeInv, NEW p \in Processes, WritePage(p)
  PROVE  LifeInv'
<1> USE TypeParts DEF LifeInv
<1> PICK r : r = run[p]
  OBVIOUS
<1> PICK s : s = AfterFile(r)
  OBVIOUS
<1>1. r.pc = "write" /\ Step(p, s) /\ UNCHANGED <<page, lit, changes, runs, dark>>
  BY DEF WritePage, At
<1>2. /\ RunType(r) /\ IsRun(r) /\ TwiceRun(r) /\ r.n \in N /\ r.dp \in Pages(r.n)
      /\ FileType(r.prev, r.n) /\ DOMAIN saved = N /\ DOMAIN last = N /\ r.alone \in BOOLEAN
  BY <1>1 DEF RunsType, RunType, Functional, SingleInv, NothingTwice, TwiceRun
<1>3. /\ RunType(s) /\ IsRun(s) /\ TwiceRun(s) /\ (Past(s) <=> "l" \in r.opts)
      /\ Past(s) => s.pc = "leds" /\ s.n = r.n /\ s.dp = r.dp /\ s.alone = r.alone
      /\ Past(s) \/ Fresh(s)
      /\ s.pc \notin {"previous", "report"}
  BY <1>1, <1>2, AfterFileRun
<1>4. CountType' /\ LedsType' /\ DOMAIN lit' = N /\ DOMAIN dark' = N /\ PageType' /\ Past(run[p])
  BY <1>1, FaultCount DEF WritePage, CountType, LedsType, PageType, Functional, Past
<1>5. ComparedRun(s)'
  BY <1>3 DEF ComparedRun
<1>6. /\ RunsType' /\ DOMAIN run' = Processes /\ \A q \in Processes : IsRun(run'[q])
      /\ run'[p] = s /\ \A q \in Processes : q # p => run'[q] = run[q]
  BY <1>1, <1>3, OneRunSteps
<1>7. CASE Fails /\ UNCHANGED <<saved, last>>
  <2>1. CASE Fresh(s)
    BY <1>1, <1>4, <1>7, <2>1, FreshLife
  <2>2. CASE Past(s)
    <3>1. FilesType' /\ DOMAIN saved' = N
      BY <1>7 DEF FilesType, Functional
    <3> QED
      BY <1>1, <1>3, <1>4, <1>5, <1>7, <2>2, <3>1, StayLife
  <2> QED
    BY <1>3, <2>1, <2>2
<1>8. CASE /\ saved' = [saved EXCEPT ![r.n] = File(r)]
           /\ last' = [last EXCEPT ![r.n] = IF r.alone THEN r.dp ELSE NoPage]
           /\ UNCHANGED faults
  <2>1. FileType(File(r), r.n) /\ File(r).page = r.dp /\ (File(r).leds <=> "l" \in r.opts)
    BY <1>2, WrittenFile
  <2>2. /\ DOMAIN saved' = N /\ saved'[r.n] = File(r) /\ \A n : n # r.n => saved'[n] = saved[n]
        /\ DOMAIN last' = N /\ \A n : n # r.n => last'[n] = last[n]
        /\ last'[r.n] \in {r.dp, NoPage} /\ (last'[r.n] # NoPage => r.alone /\ last'[r.n] = r.dp)
    BY <1>2, <1>8
  <2>3. FilesType'
    BY <1>2, <2>1, <2>2 DEF FilesType, PageOrNone
  <2>4. Alone'
    <3>1. SUFFICES ASSUME NEW q \in Processes, NEW o \in Processes, q # o,
                          Past(run'[q]), run'[q].alone, run'[o].n = run'[q].n, Past(run'[o])
                   PROVE  FALSE
      BY DEF Alone, Past
    <3>2. /\ Past(run[q]) /\ run'[q].n = run[q].n /\ run[q].alone
          /\ Past(run[o]) /\ run'[o].n = run[o].n
      BY <1>3, <1>4, <1>6, <3>1
    <3> QED
      BY <3>1, <3>2 DEF SingleInv, Alone
  <2>5. LastKept'
    <3>1. SUFFICES ASSUME NEW n \in N, last'[n] # NoPage
                   PROVE  /\ saved'[n].page = last'[n]
                          /\ \A q \in Processes :
                               run'[q].n = n /\ Past(run'[q]) => run'[q].pc = "leds"
      BY DEF LastKept, Past
    <3>2. CASE n = r.n
      <4>1. \A q \in Processes : q # p /\ run[q].n = n => ~Past(run[q])
        BY <1>4, <2>2, <3>1, <3>2 DEF SingleInv, Alone
      <4> QED
        BY <1>3, <1>6, <2>1, <2>2, <3>1, <3>2, <4>1
    <3>3. CASE n # r.n
      <4>1. /\ saved[n].page = last[n]
            /\ \A q \in Processes : run[q].n = n /\ Past(run[q]) => run[q].pc = "leds"
        BY <2>2, <3>1, <3>3 DEF SingleInv, LastKept
      <4> QED
        BY <1>3, <1>6, <2>2, <3>3, <4>1
    <3> QED
      BY <3>2, <3>3
  <2>6. Compared'
    BY <1>4, <1>5, <1>6, <2>2, OthersCompare DEF Compared, SingleInv, ComparedRun
  <2>7. NothingTwice'
    BY <1>3, <1>6, OthersTwice DEF SingleInv
  <2>8. LightsComing'
    <3>1. \A n \in N : saved'[n].leds =>
            \/ saved'[n] = saved[n]
            \/ n = run'[p].n /\ run'[p].pc = "leds" /\ run'[p].dp = saved'[n].page
      BY <1>3, <1>6, <2>1, <2>2
    <3> QED
      BY <1>1, <1>6, <3>1, LightsStay
  <2>9. Functional'
    BY <1>4, <1>6, <2>2 DEF Functional
  <2> QED
    BY <1>4, <1>6, <2>3, <2>4, <2>5, <2>6, <2>7, <2>8, <2>9, PartsNext, Zenon DEF SingleInv
<1> QED
  BY <1>7, <1>8 DEF WritePage

LEMMA NextLife == LifeInv /\ [Next]_vars => LifeInv'
<1> SUFFICES ASSUME LifeInv, [Next]_vars PROVE LifeInv'
  OBVIOUS
<1>1. CASE UNCHANGED vars
  <2>1. /\ PageType' /\ FilesType' /\ LedsType' /\ RunsType' /\ CountType' /\ Functional'
    BY <1>1, TypeParts DEF vars, LifeInv, PageType, FilesType, LedsType, RunsType, CountType, Functional
  <2>2. SingleInv'
    BY <1>1 DEF vars, LifeInv, SingleInv, Alone, LastKept, Compared, ComparedRun, NothingTwice
  <2>3. LightsComing'
    BY <1>1 DEF vars, LifeInv, LightsComing, Lightable
  <2> QED
    BY <2>1, <2>2, <2>3, PartsNext
<1>2. CASE Next
  BY <1>2, ChangeLife, BeginLife, SkipLife, ReadPageLife, ReadPreviousLife, ReportLife,
     OpenFileLife, WritePageLife, SetLedsLife, KillLife DEF Next
<1> QED
  BY <1>1, <1>2

LEMMA LifeAlways == Spec => []LifeInv
  BY LifeInit, NextLife, PTL DEF Spec

(* For any enclosures and options, any overlap of runs and any failures: a *)
(* run with -c that follows an undisturbed run, and is not disturbed       *)
(* itself, reports an entry only if an element of it has become worse.     *)
THEOREM FaultsSaidOnce == Spec => []NothingTwice
<1>1. LifeInv => NothingTwice
  BY DEF LifeInv, SingleInv
<1> QED
  BY <1>1, LifeAlways, PTL

(* Likewise, whenever no run is under way every LED is lit that the page   *)
(* asks for which a run with -l has saved, unless the enclosure refused or *)
(* the run was killed; and every variable has its type.                    *)
THEOREM SavedFaultsLit == Spec => []FaultsLit
<1>1. LifeInv => FaultsLit
  <2>1. SUFFICES ASSUME LifeInv, \A p \in Processes : At(p, "idle"), NEW n \in N, saved[n].leds,
                        NEW e \in Leds[Enclosures[n]],
                        Badness(saved[n].page[e]) > 0, saved[n].page[e] <= Unrecoverable
                 PROVE  e \in lit[n] \union dark[n]
    BY DEF FaultsLit, LifeInv
  <2>2. \A p \in Processes : run[p].pc # "leds"
    BY <2>1 DEF At
  <2> QED
    BY <2>1, <2>2 DEF LifeInv, LightsComing, Lightable
<1> QED
  BY <1>1, LifeAlways, PTL
=============================================================================

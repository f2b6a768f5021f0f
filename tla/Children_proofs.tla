-------------------------- MODULE Children_proofs --------------------------
(***************************************************************************)
(* Proofs about the processes that rtas_errd starts.                       *)
(*                                                                         *)
(* Guard: whatever processors, servers, memory blocks and device tree      *)
(* there are, and however many requests arrive, the partition keeps its    *)
(* minimum, the log says what has been taken, the resource taken is the    *)
(* one the event was about, and no child that is waited for is lost.       *)
(* PlatDump: what the platform has let go of is whole in its file, and so  *)
(* is what an event names, whatever dumps there are, however their names   *)
(* coincide and in however many pieces they come.                          *)
(* Prrn: whatever nodes, properties and notifications there are, the       *)
(* device tree has whole properties only, and a notification has its       *)
(* effect in full and in order, or is known to be excused.                 *)
(***************************************************************************)
EXTENDS Guard, PlatDump, Prrn, WellFoundedInduction, FiniteSetTheorems, SequenceTheorems, TLAPS

-----------------------------------------------------------------------------
(* The converter: a name it prints is that of the resource asked for, and  *)
(* a resource that is there has a name.                                    *)

(* Search for the first place of a sequence: one where the test holds, if  *)
(* there is any.                                                           *)
LEMMA FirstPlace ==
  ASSUME NEW I \in SUBSET Nat, I # {}
  PROVE  Min(I) \in I
<1>1. \E x \in I : \A y \in I : ~(<<y, x>> \in OpToRel(<, Nat))
  BY NatLessThanWellFounded, WFMin
<1>2. PICK x \in I : \A y \in I : ~(y < x)
  BY <1>1 DEF OpToRel
<1>3. \A y \in I : x <= y
  BY <1>2
<1> QED
  BY <1>3 DEF Min

LEMMA Products ==
  ASSUME NEW n \in Nat, NEW incr \in Nat, NEW k \in 0..n
  PROVE  k * incr \in Nat /\ n * incr \in Nat /\ k * incr <= n * incr
  OBVIOUS

LEMMA NameOfIndexInLists ==
  ASSUME NEW lists, NEW type, NEW resources \in SUBSET Nat, Describes(lists, type, resources),
         NEW x \in resources, lists.version = 1
  PROVE  /\ search_drcindex_to_drcname(lists, type, x) # {}
         /\ \A n \in search_drcindex_to_drcname(lists, type, x) :
              [index |-> x, name |-> n] \in Elements(lists, type)
<1> DEFINE I == {i \in 1..Len(lists.indexes) : lists.indexes[i] = x}
           places == First(lists.indexes, LAMBDA y : y = x)
<1>1. /\ lists.indexes \in Seq(Nat) /\ lists.names \in Seq(STRING \X Nat)
      /\ Len(lists.indexes) = Len(lists.names)
  BY DEF Describes
<1>2. DOMAIN lists.indexes = 1..Len(lists.indexes) /\ DOMAIN lists.names = DOMAIN lists.indexes
  BY <1>1
<1>3. Elements(lists, type) =
        {[index |-> lists.indexes[i], name |-> lists.names[i]] : i \in DOMAIN lists.indexes}
  BY DEF Elements
<1>4. PICK k \in DOMAIN lists.indexes : lists.indexes[k] = x
  BY <1>3 DEF Describes
<1>5. k \in I
  BY <1>2, <1>4
<1>6. places = {Min(I)}
  BY <1>4, <1>5 DEF First, SelectInSeq
<1>7. I \in SUBSET Nat
  BY <1>1
<1>8. PICK first : first = Min(I)
  OBVIOUS
<1>9. first \in I
  <2> HIDE DEF I
  <2> QED
    BY <1>5, <1>7, <1>8, FirstPlace
<1>10. first \in DOMAIN lists.indexes /\ lists.indexes[first] = x
  BY <1>2, <1>9
<1>11. places \cap DOMAIN lists.names = {first}
  BY <1>2, <1>6, <1>8, <1>10
<1>12. search_drcindex_to_drcname(lists, type, x) = {lists.names[i] : i \in places \cap DOMAIN lists.names}
  BY DEF search_drcindex_to_drcname, search_drcindex_to_drcname_v1
<1> HIDE DEF places
<1> QED
  BY <1>3, <1>10, <1>11, <1>12

RangeType == [type : STRING, prefix : STRING, index : Nat, number : Nat,
              count : Nat \ {0}, incr : Nat \ {0}]

LEMMA NameOfIndexInRanges ==
  ASSUME NEW lists, NEW type, NEW resources \in SUBSET Nat, Describes(lists, type, resources),
         NEW x \in resources, lists.version = 2
  PROVE  /\ search_drcindex_to_drcname(lists, type, x) # {}
         /\ \A n \in search_drcindex_to_drcname(lists, type, x) :
              [index |-> x, name |-> n] \in Elements(lists, type)
<1> DEFINE info == lists.info
           Spans(range) == range.type = type /\ x \in range.index..LastIndex(range)
           I == {i \in 1..Len(info) : Spans(info[i])}
           places == First(lists.info, Spans)
           name(i) == <<info[i].prefix, info[i].number + (x - info[i].index)>>
<1>1. info \in Seq(RangeType)
  BY DEF Describes, RangeType
<1>2. \A r \in ToSet(info) :
        r.type = type /\ x \in r.index..LastIndex(r) =>
          \E k \in 0..r.count - 1 : x = r.index + k * r.incr
  BY DEF Describes
<1>3. Elements(lists, type) =
        UNION {{[index |-> r.index + k * r.incr, name |-> <<r.prefix, r.number + k * r.incr>>] :
               k \in 0..r.count - 1} : r \in {s \in ToSet(info) : s.type = type}}
  BY DEF Elements
<1>4. DOMAIN info = 1..Len(info) /\ \A i \in DOMAIN info : info[i] \in RangeType
  BY <1>1
<1>5. PICK r \in ToSet(info) : r.type = type /\ \E k \in 0..r.count - 1 : x = r.index + k * r.incr
  <2>1. x \in {e.index : e \in Elements(lists, type)}
    BY DEF Describes
  <2> QED
    BY <1>3, <2>1
<1>6. PICK j \in DOMAIN info : info[j] = r
  BY DEF ToSet
<1>7. x \in r.index..LastIndex(r)
  <2>1. r \in RangeType
    BY <1>4, <1>6
  <2>2. r.index \in Nat /\ r.count \in Nat \ {0} /\ r.incr \in Nat \ {0}
    BY <2>1 DEF RangeType
  <2>3. PICK k \in 0..r.count - 1 : x = r.index + k * r.incr
    BY <1>5
  <2>4. k * r.incr \in Nat /\ (r.count - 1) * r.incr \in Nat /\ k * r.incr <= (r.count - 1) * r.incr
    <3>1. r.count - 1 \in Nat
      BY <2>2
    <3> QED
      BY <2>2, <2>3, <3>1, Products
  <2> QED
    BY <2>2, <2>3, <2>4 DEF LastIndex
<1>8. j \in I
  BY <1>4, <1>5, <1>6, <1>7
<1>9. PICK first : first = Min(I)
  OBVIOUS
<1>10. first \in I
  <2>1. I \in SUBSET Nat
    OBVIOUS
  <2> HIDE DEF I
  <2> QED
    BY <1>8, <1>9, <2>1, FirstPlace
<1>11. places = {first}
  <2>1. \E i \in DOMAIN lists.info : Spans(lists.info[i])
    BY <1>4, <1>8
  <2> QED
    BY <1>8, <1>9, <2>1 DEF First, SelectInSeq
<1>12. search_drcindex_to_drcname(lists, type, x) = {name(first)}
  <2>1. search_drcindex_to_drcname(lists, type, x) = {name(i) : i \in places}
    BY DEF search_drcindex_to_drcname
  <2> HIDE DEF places
  <2> QED
    BY <1>11, <2>1
<1>13. [index |-> x, name |-> name(first)] \in Elements(lists, type)
  <2>1. first \in DOMAIN info /\ info[first].type = type /\ x \in info[first].index..LastIndex(info[first])
    BY <1>4, <1>10
  <2>2. PICK q : q = info[first]
    OBVIOUS
  <2>3. q \in RangeType /\ q \in ToSet(info)
    BY <1>4, <2>1, <2>2 DEF ToSet
  <2>4. q.index \in Nat /\ q.number \in Nat /\ q.incr \in Nat /\ q.count \in Nat
    BY <2>3 DEF RangeType
  <2>5. PICK m \in 0..q.count - 1 : x = q.index + m * q.incr
    BY <1>2, <2>1, <2>2, <2>3
  <2>6. m * q.incr \in Int
    BY <2>4, <2>5
  <2>7. name(first) = <<q.prefix, q.number + m * q.incr>>
    BY <2>2, <2>4, <2>5, <2>6
  <2>8. [index |-> q.index + m * q.incr, name |-> <<q.prefix, q.number + m * q.incr>>]
          \in Elements(lists, type)
    BY <1>3, <2>1, <2>2, <2>3, <2>5
  <2> QED
    BY <2>5, <2>7, <2>8
<1> QED
  BY <1>12, <1>13

LEMMA NameOfIndex ==
  ASSUME NEW lists, NEW type, NEW resources \in SUBSET Nat, Describes(lists, type, resources),
         NEW x \in resources
  PROVE  /\ search_drcindex_to_drcname(lists, type, x) # {}
         /\ \A n \in search_drcindex_to_drcname(lists, type, x) :
              [index |-> x, name |-> n] \in Elements(lists, type)
<1>1. lists.version = 1 \/ lists.version = 2
  BY DEF Describes
<1>2. CASE lists.version = 1
  BY <1>2, NameOfIndexInLists
<1>3. CASE lists.version = 2
  BY <1>3, NameOfIndexInRanges
<1> QED
  BY <1>1, <1>2, <1>3

(* The name of one resource is not that of another.                        *)
LEMMA NameIsOwn ==
  ASSUME NEW lists, NEW type, NEW resources, Describes(lists, type, resources),
         NEW x, NEW n, [index |-> x, name |-> n] \in Elements(lists, type)
  PROVE  {e.index : e \in {f \in Elements(lists, type) : f.name = n}} = {x}
<1> DEFINE e == [index |-> x, name |-> n]
<1>1. e.index = x /\ e.name = n
  OBVIOUS
<1>2. \A f \in Elements(lists, type) : f.index = x <=> f.name = n
  BY <1>1 DEF Describes
<1> QED
  BY <1>1, <1>2

(* Every name is one that a search may print.                              *)
LEMMA NoNameMissing ==
  ASSUME NEW lists, NEW type, NEW resources, Describes(lists, type, resources)
  PROVE  \A e \in Elements(lists, type) : e.name # NoName
<1>1. CASE lists.version = 1
  <2>1. Elements(lists, type) =
          {[index |-> lists.indexes[i], name |-> lists.names[i]] : i \in DOMAIN lists.indexes}
    BY <1>1 DEF Elements
  <2>2. \A i \in DOMAIN lists.indexes : lists.names[i] \in STRING \X Nat
    BY <1>1 DEF Describes
  <2> QED
    BY <2>1, <2>2 DEF NoName
<1>2. CASE lists.version = 2
  <2>1. Elements(lists, type) =
          UNION {{[index |-> r.index + k * r.incr, name |-> <<r.prefix, r.number + k * r.incr>>] :
                 k \in 0..r.count - 1} : r \in {s \in ToSet(lists.info) : s.type = type}}
    BY <1>2 DEF Elements
  <2>2. \A e \in Elements(lists, type) : \E prefix, number : e.name = <<prefix, number>>
    BY <2>1
  <2>3. \A prefix, number : <<prefix, number>> # <<>>
    OBVIOUS
  <2> QED
    BY <2>2, <2>3 DEF NoName
<1> QED
  BY <1>1, <1>2 DEF Describes

Servers == UNION {ToSet(ServersOf[c]) : c \in Cpus}
IdOf(kind, id) ==
  /\ kind = "cpu" => id \in Servers
  /\ kind = "lmb" => id \in Lmbs
  /\ kind = "capacity" => id \in Nat /\ id <= 65535

(* An interrupt server tells the processor.                                *)
LEMMA ServerTells ==
  ASSUME NEW c \in Cpus, NEW id \in ToSet(ServersOf[c])
  PROVE  Resource("cpu", id) = c
<1>1. \A d \in Cpus : id \in ToSet(ServersOf[d]) => d = c
  BY ServersAssumption
<1> QED
  BY <1>1 DEF Resource

LEMMA ResourceKnown ==
  ASSUME NEW kind, NEW id, kind \in {"cpu", "lmb"}, IdOf(kind, id)
  PROVE  /\ kind = "cpu" => Resource(kind, id) \in Cpus /\ id \in ToSet(ServersOf[Resource(kind, id)])
         /\ kind = "lmb" => Resource(kind, id) = id /\ id \in Lmbs
<1>1. CASE kind = "cpu"
  <2>1. PICK c \in Cpus : id \in ToSet(ServersOf[c])
    BY <1>1 DEF IdOf, Servers
  <2> QED
    BY <1>1, <2>1, ServerTells
<1>2. CASE kind = "lmb"
  BY <1>2 DEF Resource, IdOf
<1> QED
  BY <1>1, <1>2

(* The three conversions that are used.                                    *)
LEMMA CpuNamePrinted ==
  ASSUME NEW t, NEW id
  PROVE  Convert(t, "cpu", "interrupt-server", "drc-name", id).printed =
           UNION {search_drcindex_to_drcname(t.cpu, "CPU", x) : x \in IndexesOf(t, "interrupt-server", id)}
<1> DEFINE printed == UNION {search_drcindex_to_drcname(t.cpu, "CPU", x) :
                               x \in IndexesOf(t, "interrupt-server", id)}
<1>1. ConvertCpu(t, "interrupt-server", "drc-name", id) = Prints(printed)
  BY DEF ConvertCpu, Forms, DrcType
<1>2. Convert(t, "cpu", "interrupt-server", "drc-name", id) = Prints(printed)
  BY <1>1 DEF Convert
<1> HIDE DEF printed
<1>3. Prints(printed).printed = printed
  BY DEF Prints
<1> QED
  BY <1>2, <1>3 DEF printed

LEMMA CpuIndexPrinted ==
  ASSUME NEW t, NEW name
  PROVE  Convert(t, "cpu", "drc-name", "drc-index", name).printed = IndexesOf(t, "drc-name", name)
<1> DEFINE printed == UNION {{x} : x \in IndexesOf(t, "drc-name", name)}
<1>1. ConvertCpu(t, "drc-name", "drc-index", name) = Prints(printed)
  BY DEF ConvertCpu, Forms
<1>2. Convert(t, "cpu", "drc-name", "drc-index", name) = Prints(printed)
  BY <1>1 DEF Convert
<1>3. printed = IndexesOf(t, "drc-name", name)
  OBVIOUS
<1> HIDE DEF printed
<1>4. Prints(printed).printed = printed
  BY DEF Prints
<1> QED
  BY <1>2, <1>3, <1>4

LEMMA CpuServersPrinted ==
  ASSUME NEW t, NEW name
  PROVE  Convert(t, "cpu", "drc-name", "interrupt-server", name).printed =
           UNION {cpu_drcindex_to_interruptserver(t, x) : x \in IndexesOf(t, "drc-name", name)}
<1> DEFINE printed == UNION {cpu_drcindex_to_interruptserver(t, x) : x \in IndexesOf(t, "drc-name", name)}
<1>1. ConvertCpu(t, "drc-name", "interrupt-server", name) = Prints(printed)
  BY DEF ConvertCpu, Forms
<1>2. Convert(t, "cpu", "drc-name", "interrupt-server", name) = Prints(printed)
  BY <1>1 DEF Convert
<1> HIDE DEF printed
<1>3. Prints(printed).printed = printed
  BY DEF Prints
<1> QED
  BY <1>2, <1>3 DEF printed

(* A processor taken from the partition has no node, and no name is found. *)
LEMMA CpuNames ==
  ASSUME tree \in Trees, cpus \subseteq Cpus, NEW id \in Servers
  PROVE  Names("cpu", id) =
           IF Resource("cpu", id) \in cpus
           THEN search_drcindex_to_drcname(tree.cpu, "CPU", Resource("cpu", id)) ELSE {}
<1> DEFINE c == Resource("cpu", id)
           found(x) == search_drcindex_to_drcname(tree.cpu, "CPU", x)
<1>1. c \in Cpus /\ id \in ToSet(ServersOf[c])
  <2>1. IdOf("cpu", id)
    BY DEF IdOf
  <2> QED
    BY <2>1, ResourceKnown
<1>2. \A d \in Cpus : id \in ToSet(ServersOf[d]) => d = c
  BY ServerTells
<1> DEFINE indexes == IndexesOf(DeviceTree, "interrupt-server", id)
<1>3. indexes = {x \in cpus : id \in ToSet(ServersOf[x])}
  <2>1. indexes = {n.index : n \in {m \in DeviceTree.nodes : id \in ToSet(m.servers)}}
    BY DEF IndexesOf, cpu_interruptserver_to_drcindex
  <2> DEFINE node(x) == [index |-> x, servers |-> ServersOf[x]]
  <2>2. DeviceTree.nodes = {node(x) : x \in cpus}
    BY DEF DeviceTree
  <2>3. \A x : node(x).index = x /\ node(x).servers = ServersOf[x]
    OBVIOUS
  <2> HIDE DEF indexes, node
  <2> QED
    BY <2>1, <2>2, <2>3
<1>4. indexes = IF c \in cpus THEN {c} ELSE {}
  <2> HIDE DEF c
  <2> QED
    BY <1>1, <1>2, <1>3
<1>5. Names("cpu", id) = UNION {found(x) : x \in indexes}
  <2> HIDE DEF indexes
  <2>1. DeviceTree.cpu = tree.cpu
    BY DEF DeviceTree
  <2>2. Names("cpu", id) = Convert(DeviceTree, "cpu", "interrupt-server", "drc-name", id).printed
    BY DEF Names
  <2> QED
    BY <2>1, <2>2, CpuNamePrinted DEF indexes
<1>6. Names("cpu", id) = IF c \in cpus THEN found(c) ELSE {}
  <2> HIDE DEF found, c, indexes
  <2> QED
    BY <1>4, <1>5
<1> QED
  BY <1>6

LEMMA LmbNames ==
  ASSUME NEW id
  PROVE  Names("lmb", id) = search_drcindex_to_drcname(tree.mem, "MEM", id)
<1> DEFINE printed == search_drcindex_to_drcname(tree.mem, "MEM", id)
<1>1. DeviceTree.mem = tree.mem
  BY DEF DeviceTree
<1>2. ConvertMem(DeviceTree, "drc-index", "drc-name", id) = Prints(printed)
  BY <1>1 DEF ConvertMem, DrcType
<1>3. Convert(DeviceTree, "mem", "drc-index", "drc-name", id) = Prints(printed)
  BY <1>2 DEF Convert
<1> HIDE DEF printed
<1>4. Prints(printed).printed = printed
  BY DEF Prints
<1> QED
  BY <1>3, <1>4 DEF Names, printed

(* What retrieve_drc_name is told: the name of the resource, unless the    *)
(* resource is gone.                                                       *)
LEMMA NamesRight ==
  ASSUME tree \in Trees, cpus \subseteq Cpus,
         NEW kind, NEW id, kind \in {"cpu", "lmb"}, IdOf(kind, id)
  PROVE  /\ \A n \in Names(kind, id) : n # NoName /\ Named(kind, n) = {Resource(kind, id)}
         /\ Names(kind, id) = {} => kind = "cpu" /\ Resource(kind, id) \notin cpus
<1> DEFINE r == Resource(kind, id)
<1>0. Cpus \in SUBSET Nat /\ Lmbs \in SUBSET Nat
  BY ResourcesAssumption
<1>1. CASE kind = "cpu"
  <2>1. r \in Cpus /\ id \in Servers
    BY <1>1, ResourceKnown DEF IdOf
  <2>2. Describes(tree.cpu, "CPU", Cpus)
    BY ResourcesAssumption DEF DrcType
  <2> DEFINE found == search_drcindex_to_drcname(tree.cpu, "CPU", r)
  <2>3. found # {} /\ \A n \in found : [index |-> r, name |-> n] \in Elements(tree.cpu, "CPU")
    BY <1>0, <2>1, <2>2, NameOfIndex
  <2>4. \A n : Named("cpu", n) = {e.index : e \in {f \in Elements(tree.cpu, "CPU") : f.name = n}}
    BY DEF Named, DrcType
  <2>5. \A n \in found : n # NoName
    <3>1. \A n \in found : [index |-> r, name |-> n].name = n
      OBVIOUS
    <3> HIDE DEF found
    <3> QED
      BY <2>2, <2>3, <3>1, NoNameMissing
  <2>6. ASSUME NEW n \in found
        PROVE  Named("cpu", n) = {r}
    <3> HIDE DEF found, r
    <3>1. [index |-> r, name |-> n] \in Elements(tree.cpu, "CPU")
      BY <2>3
    <3>2. {e.index : e \in {f \in Elements(tree.cpu, "CPU") : f.name = n}} = {r}
      BY <2>2, <3>1, NameIsOwn
    <3> QED
      BY <2>4, <3>2
  <2>7. Names("cpu", id) = IF r \in cpus THEN found ELSE {}
    BY <1>1, <2>1, CpuNames
  <2> HIDE DEF r, found
  <2> QED
    BY <1>1, <2>3, <2>5, <2>6, <2>7 DEF r
<1>2. CASE kind = "lmb"
  <2>1. r = id /\ id \in Lmbs
    BY <1>2, ResourceKnown
  <2>2. Describes(tree.mem, "MEM", Lmbs)
    BY ResourcesAssumption DEF DrcType
  <2> DEFINE found == search_drcindex_to_drcname(tree.mem, "MEM", id)
  <2>3. found # {} /\ \A n \in found : [index |-> id, name |-> n] \in Elements(tree.mem, "MEM")
    BY <1>0, <2>1, <2>2, NameOfIndex
  <2>4. \A n : Named("lmb", n) = {e.index : e \in {f \in Elements(tree.mem, "MEM") : f.name = n}}
    BY DEF Named, DrcType
  <2>5. \A n \in found : n # NoName
    <3>1. \A n \in found : [index |-> id, name |-> n].name = n
      OBVIOUS
    <3> HIDE DEF found
    <3> QED
      BY <2>2, <2>3, <3>1, NoNameMissing
  <2>6. ASSUME NEW n \in found
        PROVE  Named("lmb", n) = {id}
    <3> HIDE DEF found
    <3>1. [index |-> id, name |-> n] \in Elements(tree.mem, "MEM")
      BY <2>3
    <3>2. {e.index : e \in {f \in Elements(tree.mem, "MEM") : f.name = n}} = {id}
      BY <2>2, <3>1, NameIsOwn
    <3> QED
      BY <2>4, <3>2
  <2>7. Names("lmb", id) = found
    BY LmbNames
  <2> HIDE DEF r, found
  <2> QED
    BY <1>2, <2>1, <2>3, <2>5, <2>6, <2>7 DEF r
<1> QED
  BY <1>1, <1>2

(* The other way round: what is converted from a name is that resource's.  *)
LEMMA BackRight ==
  ASSUME tree \in Trees, cpus \subseteq Cpus, NEW c \in Cpus, NEW name, Named("cpu", name) = {c}
  PROVE  /\ Convert(DeviceTree, "cpu", "drc-name", "drc-index", name).printed \subseteq {c}
         /\ tree.big => Convert(DeviceTree, "cpu", "drc-name", "interrupt-server", name).printed
                           \subseteq {ServersOf[c]}
<1> DEFINE indexes == IndexesOf(DeviceTree, "drc-name", name)
<1>1. indexes \subseteq {c}
  <2>1. indexes = search_drcname_to_drcindex(tree.cpu, name)
    BY DEF IndexesOf, DeviceTree
  <2>2. CASE tree.cpu.version = 1
    <3> DEFINE lists == tree.cpu
               I == {i \in 1..Len(lists.names) : lists.names[i] = name}
               places == First(lists.names, LAMBDA x : x = name)
    <3>1. /\ lists.indexes \in Seq(Nat) /\ lists.names \in Seq(STRING \X Nat)
          /\ Len(lists.indexes) = Len(lists.names)
      BY <2>2, ResourcesAssumption DEF Describes
    <3>2. indexes = {lists.indexes[i] : i \in places \cap DOMAIN lists.indexes}
      BY <2>1, <2>2 DEF search_drcname_to_drcindex, search_drcname_to_drcindex_v1
    <3>3. ASSUME NEW i \in places
          PROVE  i \in DOMAIN lists.indexes /\ lists.names[i] = name
      <4>1. \E k \in DOMAIN lists.names : lists.names[k] = name
        BY DEF First
      <4>2. PICK k : k \in I
        <5>1. DOMAIN lists.names = 1..Len(lists.names)
          BY <3>1
        <5> QED
          BY <4>1, <5>1
      <4>3. i = Min(I)
        BY <4>1, <4>2 DEF First, SelectInSeq
      <4>4. I \in SUBSET Nat
        OBVIOUS
      <4>5. i \in I
        <5> HIDE DEF I
        <5> QED
          BY <4>2, <4>3, <4>4, FirstPlace
      <4> QED
        BY <3>1, <4>5
    <3>4. \A i \in DOMAIN lists.indexes : lists.names[i] = name => lists.indexes[i] \in Named("cpu", name)
      <4>1. Elements(lists, "CPU") =
              {[index |-> lists.indexes[i], name |-> lists.names[i]] : i \in DOMAIN lists.indexes}
        BY <2>2 DEF Elements
      <4>2. Named("cpu", name) = {e.index : e \in {f \in Elements(lists, "CPU") : f.name = name}}
        BY DEF Named, DrcType
      <4> DEFINE entry(i) == [index |-> lists.indexes[i], name |-> lists.names[i]]
      <4>3. \A i : entry(i).index = lists.indexes[i] /\ entry(i).name = lists.names[i]
        OBVIOUS
      <4>4. \A i \in DOMAIN lists.indexes : entry(i) \in Elements(lists, "CPU")
        BY <4>1
      <4> HIDE DEF entry
      <4> QED
        BY <4>2, <4>3, <4>4
    <3> HIDE DEF places
    <3> QED
      BY <3>2, <3>3, <3>4
  <2>3. CASE tree.cpu.version # 1
    BY <2>1, <2>3 DEF search_drcname_to_drcindex
  <2> QED
    BY <2>2, <2>3
<1>2. Convert(DeviceTree, "cpu", "drc-name", "drc-index", name).printed = indexes
  BY CpuIndexPrinted
<1> DEFINE servers(x) == cpu_drcindex_to_interruptserver(DeviceTree, x)
<1>3. Convert(DeviceTree, "cpu", "drc-name", "interrupt-server", name).printed =
        UNION {servers(x) : x \in indexes}
  BY CpuServersPrinted
<1>4. tree.big => servers(c) \subseteq {ServersOf[c]}
  <2> SUFFICES ASSUME tree.big, NEW list \in servers(c)
               PROVE  list = ServersOf[c]
    OBVIOUS
  <2>1. DeviceTree.nodes = {[index |-> x, servers |-> ServersOf[x]] : x \in cpus} /\ DeviceTree.big = tree.big
    BY DEF DeviceTree
  <2>2. PICK n \in DeviceTree.nodes :
          /\ n.index = c
          /\ list = [i \in DOMAIN n.servers \cap 1..MAX_IRQ_SERVERS_PER_CPU |->
                      AsRead(DeviceTree, n.servers[i])]
    BY DEF cpu_drcindex_to_interruptserver
  <2>3. n.servers = ServersOf[c]
    BY <2>1, <2>2
  <2>4. \A m : AsRead(DeviceTree, m) = m
    BY <2>1 DEF AsRead
  <2>5. ServersOf[c] \in Seq(Nat) /\ Len(ServersOf[c]) \in 1..MAX_IRQ_SERVERS_PER_CPU
    BY ServersAssumption
  <2>6. DOMAIN ServersOf[c] \cap 1..MAX_IRQ_SERVERS_PER_CPU = DOMAIN ServersOf[c]
    <3>1. DOMAIN ServersOf[c] = 1..Len(ServersOf[c])
      BY <2>5
    <3>2. PICK len : len = Len(ServersOf[c])
      OBVIOUS
    <3>3. len \in 1..16
      BY ServersAssumption, <3>2 DEF MAX_IRQ_SERVERS_PER_CPU
    <3>4. 1..len \cap 1..MAX_IRQ_SERVERS_PER_CPU = 1..len
      BY <3>3 DEF MAX_IRQ_SERVERS_PER_CPU
    <3> QED
      BY <3>1, <3>2, <3>4
  <2>7. list = [i \in DOMAIN ServersOf[c] |-> ServersOf[c][i]]
    BY <2>2, <2>3, <2>4, <2>6
  <2> QED
    BY <2>5, <2>7
<1> HIDE DEF indexes, servers
<1> QED
  BY <1>1, <1>2, <1>3, <1>4

-----------------------------------------------------------------------------
(* The inductive invariant.                                                *)

Kinds == {"cpu", "lmb", "capacity"}
Places == {"policy", "asking", "update", "updating", "idle", "name", "naming", "check",
           "blocks", "entitlement", "count", "shrinking", "spawn", "tell"}
Jobs == {"none", "read_policy", "write_policy", "converter", "shrink"}
MainFields == {"at", "kind", "id", "name", "value"}
OwnFields == {"job", "state", "out", "name"}
KidFields == {"no", "kind", "name", "state", "id"}

(* A name that is not empty is that of the resource, in the device tree t. *)
NamedIn(t, kind, name) ==
  {e.index : e \in {f \in Elements(IF kind = "cpu" THEN t.cpu ELSE t.mem, DrcType(kind)) : f.name = name}}
Calls(t, kind, id, name) ==
  name # NoName => kind \in {"cpu", "lmb"} /\ NamedIn(t, kind, name) = {Resource(kind, id)}

(* The partition, and what the daemon does.                                *)
PartInv ==
  /\ tree \in Trees /\ cpus \subseteq Cpus /\ lmbs \subseteq Lmbs /\ capacity \in Int
  /\ events \in 0..MaxEvents /\ crossed \subseteq Kinds

MainInv ==
  /\ main = [f \in MainFields |-> main[f]]
  /\ main.at \in Places /\ main.kind \in Kinds \union {"none"} /\ main.value \in Int
  /\ IdOf(main.kind, main.id)
  /\ main.at \in {"name", "naming"} => main.kind \in {"cpu", "lmb"}
  /\ At("check") => main.kind = "cpu"
  /\ At("blocks") => main.kind = "lmb"
  /\ main.at \in {"entitlement", "count", "shrinking"} => main.kind = "capacity"
  /\ main.at \in {"spawn", "tell"} => main.kind \in Kinds
  /\ At("count") => main.value > MinCapacity
  /\ Calls(tree, main.kind, main.id, main.name)

(* The child it waits for: there is one exactly at these places, and the   *)
(* exit of the converter is never lost.                                    *)
JobInv ==
  /\ own.job \in Jobs
  /\ own.job = "read_policy" <=> At("asking")
  /\ own.job = "write_policy" <=> At("updating")
  /\ own.job = "converter" <=> At("naming")
  /\ own.job = "shrink" <=> At("shrinking")

OwnInv ==
  /\ own = [f \in OwnFields |-> own[f]]
  /\ own.state \in {"none", "running", "zombie", "reaped"}
  /\ own.state = "none" <=> own.job = "none"
  /\ own.state \in {"none", "running"} => own.out = "none"
  /\ own.state \in Ended => own.out \in Outcomes(own.job)
  /\ own.out = "printed" => own.name # NoName /\ Calls(tree, main.kind, main.id, own.name)
  /\ own.out # "printed" => own.name = NoName
  /\ own.out \in {"not_executed", "too_long"} => faulty

CatcherInv ==
  /\ catcher \in {"reap", "default"} /\ pending \in BOOLEAN
  /\ catcher = "default" <=> At("naming")
  /\ own.job = "converter" => own.state # "reaped"
  /\ "converter" \notin stolen

(* The start of the daemon.                                                *)
StartInv ==
  /\ policy \in {"requested", "sysparm", "nvram", "given_up"}
  /\ main.at \notin {"policy", "asking", "update", "updating"} =>
       \/ faulty \/ policy \in {"sysparm", "nvram"}
       \/ {"read_policy", "write_policy"} \cap stolen # {}

(* The children it does not wait for.                                      *)
KidsInv ==
  \A k \in kids :
    /\ k = [f \in KidFields |-> k[f]]
    /\ k.kind \in Kinds /\ k.state \in {"running", "zombie"}
    /\ IdOf(k.kind, k.id) /\ Calls(tree, k.kind, k.id, k.name)

Running(kind) == {k \in kids : k.kind = kind /\ k.state = "running"}
Alone(kind) == \A k, l \in Running(kind) : k = l
Under(kind, places) == main.kind = kind /\ main.at \in places

(* Unless a request was checked too early, one drmgr at a time takes from  *)
(* what the check has found to be enough.                                  *)
CpuInv ==
  "cpu" \notin crossed =>
    /\ Alone("cpu")
    /\ Under("cpu", {"spawn"}) => Running("cpu") = {}
    /\ shrunk = {} =>
         /\ Cardinality(cpus) >= MinProcessors
         /\ Under("cpu", {"spawn"}) \/ Running("cpu") # {} => Cardinality(cpus) > MinProcessors

LmbInv ==
  "lmb" \notin crossed =>
    /\ Alone("lmb") /\ lmbs # {}
    /\ Under("lmb", {"name", "naming", "spawn"}) => Running("lmb") = {}
    /\ Under("lmb", {"name", "naming", "spawn"}) \/ Running("lmb") # {} => Cardinality(lmbs) >= 2

CapacityInv ==
  "capacity" \notin crossed =>
    /\ Alone("capacity") /\ capacity >= MinCapacity
    /\ Under("capacity", {"count", "shrinking", "spawn"}) => Running("capacity") = {}
    /\ At("count") => main.value = capacity
    /\ Under("capacity", {"shrinking", "spawn"}) => capacity - main.id >= MinCapacity
    /\ \A k \in Running("capacity") : capacity - k.id >= MinCapacity

(* What is said to be offlined, or will be by the next step, and what is.  *)
Said == told \union (IF At("tell") /\ main.kind # "capacity" THEN {Resource(main.kind, main.id)} ELSE {})
Gone(r) == r \notin cpus \union lmbs

SaidInv ==
  /\ Said \subseteq Cpus \union Lmbs
  /\ \A k \in kids : k.kind # "capacity" => Resource(k.kind, k.id) \in Said
  /\ (Cpus \ cpus) \union (Lmbs \ lmbs) \subseteq Said \union shrunk

Takes(k, r) ==
  k.kind # "capacity" /\ k.state = "running" /\ k.name # NoName /\ Resource(k.kind, k.id) = r

DoneInv ==
  ~faulty =>
    /\ own.job = "converter" /\ own.state = "zombie" /\ own.out # "printed" =>
         Gone(Resource(main.kind, main.id))
    /\ main.at \in {"check", "spawn"} /\ main.kind # "capacity" /\ main.name = NoName =>
         Gone(Resource(main.kind, main.id))
    /\ \A r \in Said : Gone(r) \/ \E k \in kids : Takes(k, r)

IInv ==
  /\ PartInv /\ MainInv /\ JobInv /\ OwnInv /\ CatcherInv /\ StartInv /\ KidsInv
  /\ CpuInv /\ LmbInv /\ CapacityInv /\ SaidInv /\ DoneInv

(* How the daemon moves.                                                   *)
Moves(p) ==
  /\ main' = [f \in MainFields |-> main'[f]]
  /\ main'.at = p /\ main'.kind = main.kind /\ main'.id = main.id
  /\ main'.name = main.name /\ main'.value = main.value
Rests(p) ==
  /\ main' = [f \in MainFields |-> main'[f]]
  /\ main'.at = p /\ main'.kind = "none" /\ main'.id = 0
  /\ main'.name = NoName /\ main'.value = 0

LEMMA GoMoves ==
  ASSUME MainInv, NEW p, Go(p)
  PROVE  Moves(p)
  BY DEF MainInv, MainFields, Go, Moves

LEMMA IdleRests ==
  ASSUME main' = Idle
  PROVE  Rests("idle")
  BY DEF Idle, MainFields, Rests

LEMMA PolicyRests ==
  ASSUME main' = [Idle EXCEPT !.at = "policy"]
  PROVE  Rests("policy")
  BY DEF Idle, MainFields, Rests

(* How the child it waits for comes and goes.                              *)
Forks(job) ==
  /\ own' = [f \in OwnFields |-> own'[f]]
  /\ own'.job = job /\ own'.state = "running" /\ own'.out = "none" /\ own'.name = NoName
  /\ kids' = kids
Ends ==
  /\ own' = [f \in OwnFields |-> own'[f]]
  /\ own'.job = "none" /\ own'.state = "none" /\ own'.out = "none" /\ own'.name = NoName
  /\ kids' = kids

LEMMA ForkForks ==
  ASSUME NEW job, Fork(job)
  PROVE  Forks(job)
  BY DEF Fork, OwnFields, Forks

LEMMA WaitEnds ==
  ASSUME NEW job, Wait(job)
  PROVE  Ends
  BY DEF Wait, NoChild, OwnFields, Ends

LEMMA NothingAsked ==
  /\ IdOf("none", 0)
  /\ \A t, kind, id : Calls(t, kind, id, NoName)
  BY DEF IdOf, Calls

LEMMA Counted ==
  ASSUME PartInv, events < MaxEvents, events' = events + 1
  PROVE  events' \in 0..MaxEvents
<1>1. MaxEvents \in Nat
  BY AmountsAssumption
<1>2. events \in 0..MaxEvents
  BY DEF PartInv
<1> QED
  BY <1>1, <1>2

StartPlaces == {"policy", "asking", "update", "updating", "idle"}
Starts ==
  /\ UNCHANGED <<tree, cpus, lmbs, capacity, kids, told, shrunk, crossed>> /\ (faulty => faulty')
  /\ main.at \in StartPlaces /\ main'.at \in StartPlaces /\ own'.job # "converter"

(* The start of the daemon.                                                *)
LEMMA StartupStep ==
  ASSUME IInv, Startup
  PROVE  /\ PartInv' /\ MainInv' /\ JobInv' /\ OwnInv' /\ CatcherInv' /\ StartInv'
         /\ Starts
<1> USE DEF At
<1>1. CASE SetSysparm
  <2>1. /\ UNCHANGED <<tree, cpus, lmbs, capacity, catcher, pending, told, shrunk, crossed>>
        /\ At("policy")
        /\ Moves("idle")
        /\ policy' = "sysparm"
        /\ UNCHANGED <<own, kids, events, stolen, faulty>>
    BY <1>1, GoMoves DEF IInv, SetSysparm, part, children, history
  <2>2. PartInv'
    BY <2>1 DEF IInv, PartInv
  <2>3. MainInv'
    BY <2>1, NothingAsked DEF IInv, MainInv, Moves, Places, Kinds
  <2>4. JobInv'
    BY <2>1 DEF IInv, JobInv, Jobs, Moves
  <2>5. OwnInv'
    BY <2>1 DEF IInv, OwnInv, JobInv, Jobs, Moves, Ended
  <2>6. CatcherInv'
    BY <2>1 DEF IInv, CatcherInv, JobInv, Moves
  <2>7. StartInv'
    BY <2>1 DEF IInv, StartInv, OwnInv, Moves, Ended
  <2>8. Starts
    BY <2>1 DEF IInv, JobInv, Starts, StartPlaces, Moves
  <2> QED
    BY <2>2, <2>3, <2>4, <2>5, <2>6, <2>7, <2>8
<1>2. CASE AskNvram
  <2>1. /\ UNCHANGED <<tree, cpus, lmbs, capacity, catcher, pending, told, shrunk, crossed>>
        /\ At("policy")
        /\ Moves("asking")
        /\ Forks("read_policy")
        /\ UNCHANGED <<policy, events, stolen, faulty>>
    BY <1>2, GoMoves, ForkForks DEF IInv, AskNvram, part, children, history
  <2>2. PartInv'
    BY <2>1 DEF IInv, PartInv
  <2>3. MainInv'
    BY <2>1, NothingAsked DEF IInv, MainInv, Moves, Places, Kinds
  <2>4. JobInv'
    BY <2>1 DEF IInv, JobInv, Jobs, Moves, Forks
  <2>5. OwnInv'
    BY <2>1 DEF IInv, OwnInv, JobInv, Jobs, Moves, Forks, Ended
  <2>6. CatcherInv'
    BY <2>1 DEF IInv, CatcherInv, JobInv, Moves, Forks
  <2>7. StartInv'
    BY <2>1 DEF IInv, StartInv, OwnInv, Moves, Ended
  <2>8. Starts
    BY <2>1 DEF IInv, JobInv, Starts, StartPlaces, Moves, Forks
  <2> QED
    BY <2>2, <2>3, <2>4, <2>5, <2>6, <2>7, <2>8
<1>3. CASE UpdateNvram
  <2>1. /\ UNCHANGED <<tree, cpus, lmbs, capacity, catcher, pending, told, shrunk, crossed>>
        /\ At("update")
        /\ Moves("updating")
        /\ Forks("write_policy")
        /\ UNCHANGED <<policy, events, stolen, faulty>>
    BY <1>3, GoMoves, ForkForks DEF IInv, UpdateNvram, part, children, history
  <2>2. PartInv'
    BY <2>1 DEF IInv, PartInv
  <2>3. MainInv'
    BY <2>1, NothingAsked DEF IInv, MainInv, Moves, Places, Kinds
  <2>4. JobInv'
    BY <2>1 DEF IInv, JobInv, Jobs, Moves, Forks
  <2>5. OwnInv'
    BY <2>1 DEF IInv, OwnInv, JobInv, Jobs, Moves, Forks, Ended
  <2>6. CatcherInv'
    BY <2>1 DEF IInv, CatcherInv, JobInv, Moves, Forks
  <2>7. StartInv'
    BY <2>1 DEF IInv, StartInv, OwnInv, Moves, Ended
  <2>8. Starts
    BY <2>1 DEF IInv, JobInv, Starts, StartPlaces, Moves, Forks
  <2> QED
    BY <2>2, <2>3, <2>4, <2>5, <2>6, <2>7, <2>8
<1>4. CASE PolicyFails
  <2>1. /\ UNCHANGED <<tree, cpus, lmbs, capacity, catcher, pending, told, shrunk, crossed>>
        /\ main.at \in {"policy", "update"}
        /\ Moves("idle")
        /\ policy' = "given_up"
        /\ faulty' = TRUE
        /\ UNCHANGED <<own, kids, events, stolen>>
    BY <1>4, GoMoves DEF IInv, PolicyFails, part, children, GiveUpPolicy, Fault
  <2>2. PartInv'
    BY <2>1 DEF IInv, PartInv
  <2>3. MainInv'
    BY <2>1, NothingAsked DEF IInv, MainInv, Moves, Places, Kinds
  <2>4. JobInv'
    BY <2>1 DEF IInv, JobInv, Jobs, Moves
  <2>5. OwnInv'
    BY <2>1 DEF IInv, OwnInv, JobInv, Jobs, Moves, Ended
  <2>6. CatcherInv'
    BY <2>1 DEF IInv, CatcherInv, JobInv, Moves
  <2>7. StartInv'
    BY <2>1 DEF IInv, StartInv, OwnInv, Moves, Ended
  <2>8. Starts
    BY <2>1 DEF IInv, JobInv, Starts, StartPlaces, Moves
  <2> QED
    BY <2>2, <2>3, <2>4, <2>5, <2>6, <2>7, <2>8
<1>5. CASE PolicyRead
  <2>1. /\ UNCHANGED <<tree, cpus, lmbs, capacity, catcher, pending, told, shrunk, crossed>>
        /\ At("asking")
        /\ Ends /\ own.job = "read_policy" /\ own.state \in Ended
        /\ stolen' = IF own.state = "reaped" THEN stolen \union {"read_policy"} ELSE stolen
        /\ Moves("idle") \/ Moves("update")
        /\ \/ policy' = "given_up" /\ own.state = "reaped"
           \/ policy' = policy /\ (own.out = "not_executed" \/ Moves("update"))
        /\ UNCHANGED <<events, faulty>>
    BY <1>5, GoMoves, WaitEnds DEF IInv, PolicyRead, part, children, Wait, Reaped,
       NotExecuted, GiveUpPolicy
  <2>2. PartInv'
    BY <2>1 DEF IInv, PartInv
  <2>3. MainInv'
    BY <2>1, NothingAsked DEF IInv, MainInv, Moves, Places, Kinds
  <2>4. JobInv'
    BY <2>1 DEF IInv, JobInv, Jobs, Moves, Ends
  <2>5. OwnInv'
    BY <2>1 DEF IInv, OwnInv, JobInv, Jobs, Moves, Ends, Ended
  <2>6. CatcherInv'
    BY <2>1 DEF IInv, CatcherInv, JobInv, Moves, Ends
  <2>7. StartInv'
    BY <2>1 DEF IInv, StartInv, OwnInv, Moves, Ended
  <2>8. Starts
    BY <2>1 DEF IInv, JobInv, Starts, StartPlaces, Moves, Ends
  <2> QED
    BY <2>2, <2>3, <2>4, <2>5, <2>6, <2>7, <2>8
<1>6. CASE PolicyWritten
  <2>1. /\ UNCHANGED <<tree, cpus, lmbs, capacity, catcher, pending, told, shrunk, crossed>>
        /\ At("updating")
        /\ Ends /\ own.job = "write_policy" /\ own.state \in Ended
        /\ stolen' = IF own.state = "reaped" THEN stolen \union {"write_policy"} ELSE stolen
        /\ Moves("idle")
        /\ \/ policy' = "given_up" /\ own.state = "reaped"
           \/ policy' = policy /\ own.out = "not_executed"
           \/ policy' = "nvram"
        /\ UNCHANGED <<events, faulty>>
    BY <1>6, GoMoves, WaitEnds DEF IInv, PolicyWritten, part, children, Wait,
       Reaped, NotExecuted, GiveUpPolicy
  <2>2. PartInv'
    BY <2>1 DEF IInv, PartInv
  <2>3. MainInv'
    BY <2>1, NothingAsked DEF IInv, MainInv, Moves, Places, Kinds
  <2>4. JobInv'
    BY <2>1 DEF IInv, JobInv, Jobs, Moves, Ends
  <2>5. OwnInv'
    BY <2>1 DEF IInv, OwnInv, JobInv, Jobs, Moves, Ends, Ended
  <2>6. CatcherInv'
    BY <2>1 DEF IInv, CatcherInv, JobInv, Moves, Ends
  <2>7. StartInv'
    BY <2>1 DEF IInv, StartInv, OwnInv, Moves, Ended
  <2>8. Starts
    BY <2>1 DEF IInv, JobInv, Starts, StartPlaces, Moves, Ends
  <2> QED
    BY <2>2, <2>3, <2>4, <2>5, <2>6, <2>7, <2>8
<1>7. CASE Sighup
  <2>1. /\ UNCHANGED <<tree, cpus, lmbs, capacity, catcher, pending, told, shrunk, crossed>>
        /\ At("idle")
        /\ Rests("policy")
        /\ policy' = "requested"
        /\ events < MaxEvents /\ events' = events + 1
        /\ UNCHANGED <<own, kids, stolen, faulty>>
    BY <1>7, PolicyRests DEF IInv, Sighup, part, children, history
  <2>2. PartInv'
    <3>1. events' \in 0..MaxEvents
      BY <2>1, Counted DEF IInv
    <3> QED
      BY <2>1, <3>1 DEF IInv, PartInv
  <2>3. MainInv'
    BY <2>1, NothingAsked DEF IInv, MainInv, Rests, Places, Kinds
  <2>4. JobInv'
    BY <2>1 DEF IInv, JobInv, Jobs, Rests
  <2>5. OwnInv'
    BY <2>1 DEF IInv, OwnInv, JobInv, Jobs, Rests, Ended
  <2>6. CatcherInv'
    BY <2>1 DEF IInv, CatcherInv, JobInv, Rests
  <2>7. StartInv'
    BY <2>1 DEF IInv, StartInv, OwnInv, Rests, Ended
  <2>8. Starts
    BY <2>1 DEF IInv, JobInv, Starts, StartPlaces, Rests
  <2> QED
    BY <2>2, <2>3, <2>4, <2>5, <2>6, <2>7, <2>8
<1> QED
  BY <1>1, <1>2, <1>3, <1>4, <1>5, <1>6, <1>7 DEF Startup

(* What has been taken, is being taken and is said to be does not change   *)
(* when the daemon starts, or leaves a request alone.                      *)
Aside ==
  /\ UNCHANGED <<tree, cpus, lmbs, capacity, kids, told, shrunk>>
  /\ crossed \subseteq crossed' /\ (faulty => faulty')
  /\ main.at # "tell" /\ own'.job # "converter"
  /\ \/ main'.at \in StartPlaces \union {"blocks", "entitlement"}
     \/ main'.at = "name" /\ main'.kind = "cpu"

LEMMA AsideKeeps ==
  ASSUME IInv, Aside
  PROVE  KidsInv' /\ CpuInv' /\ LmbInv' /\ CapacityInv' /\ SaidInv' /\ DoneInv'
<1> USE DEF At
<1>1. /\ UNCHANGED <<tree, cpus, lmbs, capacity, kids, told, shrunk>>
      /\ \A kind : kind \notin crossed' => kind \notin crossed
      /\ main.at # "tell" /\ own'.job # "converter"
      /\ main'.at # "tell" /\ main'.at \notin {"count", "shrinking", "spawn", "check", "naming"}
      /\ main'.at = "name" => main'.kind = "cpu"
  BY DEF Aside, StartPlaces
<1>2. faulty => faulty'
  BY DEF Aside
<1>3. KidsInv'
  BY <1>1 DEF IInv, KidsInv
<1>4. CpuInv'
  BY <1>1 DEF IInv, CpuInv, Alone, Running, Under
<1>5. LmbInv'
  BY <1>1 DEF IInv, LmbInv, Alone, Running, Under
<1>6. CapacityInv'
  BY <1>1 DEF IInv, CapacityInv, Alone, Running, Under
<1>7. Said' = Said
  BY <1>1 DEF Said
<1>8. SaidInv'
  BY <1>1, <1>7 DEF IInv, SaidInv
<1>9. DoneInv'
  <2>1. DoneInv
    BY DEF IInv
  <2>2. \A r : Gone(r)' = Gone(r)
    BY <1>1 DEF Gone
  <2>3. \A k, r : Takes(k, r)' = Takes(k, r)
    BY DEF Takes
  <2> QED
    BY <1>1, <1>2, <1>7, <2>1, <2>2, <2>3 DEF DoneInv
<1> QED
  BY <1>3, <1>4, <1>5, <1>6, <1>8, <1>9

LEMMA StartupSteps ==
  ASSUME IInv, Startup
  PROVE  IInv'
<1>1. Aside
  BY StartupStep DEF Starts, Aside, StartPlaces
<1> QED
  BY <1>1, AsideKeeps, StartupStep DEF IInv

(* A request arrives.                                                      *)
LEMMA IdTaken ==
  /\ \A s \in UNION {ToSet(ServersOf[c]) : c \in Cpus} : IdOf("cpu", s)
  /\ \A b \in Lmbs : IdOf("lmb", b)
  /\ \A n \in Losses : IdOf("capacity", n)
  BY AmountsAssumption DEF IdOf, Servers

TakePlaces == {"name", "blocks", "entitlement"}
LEMMA TakeMoves ==
  ASSUME NEW kind \in Kinds, NEW id, Take(kind, id)
  PROVE  /\ main' = [f \in MainFields |-> main'[f]]
         /\ main'.kind = kind /\ main'.id = id /\ main'.name = NoName /\ main'.value = 0
         /\ main'.at = CASE kind = "cpu" -> "name" [] kind = "lmb" -> "blocks"
                           [] kind = "capacity" -> "entitlement"
  BY DEF Take, Idle, MainFields, Kinds

LEMMA TakeStep ==
  ASSUME IInv, NEW kind \in Kinds, NEW id, IdOf(kind, id), Take(kind, id)
  PROVE  IInv'
<1> USE DEF At
<1>1. /\ UNCHANGED <<tree, cpus, lmbs, capacity, catcher, pending, told, shrunk, crossed>>
      /\ UNCHANGED <<own, kids, policy, stolen, faulty>>
      /\ At("idle") /\ events < MaxEvents /\ events' = events + 1
  BY DEF Take, part, children, history
<1>2. /\ main' = [f \in MainFields |-> main'[f]]
      /\ main'.kind = kind /\ main'.id = id /\ main'.name = NoName /\ main'.value = 0
      /\ \/ kind = "cpu" /\ main'.at = "name"
         \/ kind = "lmb" /\ main'.at = "blocks"
         \/ kind = "capacity" /\ main'.at = "entitlement"
  BY TakeMoves DEF Kinds
<1>3. PartInv'
  <2>1. events' \in 0..MaxEvents
    BY <1>1, Counted DEF IInv
  <2> QED
    BY <1>1, <2>1 DEF IInv, PartInv
<1>4. MainInv'
  BY <1>1, <1>2, NothingAsked DEF IInv, MainInv, Places, Kinds
<1>5. JobInv'
  BY <1>1, <1>2 DEF IInv, JobInv, Jobs
<1>6. OwnInv'
  BY <1>1, <1>2 DEF IInv, OwnInv, JobInv, Jobs, Ended
<1>7. CatcherInv'
  BY <1>1, <1>2 DEF IInv, CatcherInv, JobInv
<1>8. StartInv'
  BY <1>1, <1>2 DEF IInv, StartInv
<1>9. Aside
  BY <1>1, <1>2 DEF IInv, JobInv, Aside
<1> QED
  BY <1>3, <1>4, <1>5, <1>6, <1>7, <1>8, <1>9, AsideKeeps DEF IInv

LEMMA RequestStep ==
  ASSUME IInv, Request
  PROVE  IInv'
  BY IdTaken, TakeStep DEF Request, Kinds

(* A request is handled.                                                   *)
HandlePlaces == {"name", "naming", "check", "blocks", "entitlement", "count", "shrinking", "spawn", "tell"}

LEMMA StartKept ==
  ASSUME IInv, UNCHANGED policy, stolen \subseteq stolen', faulty => faulty',
         main.at \in HandlePlaces, main'.at \in HandlePlaces \union {"idle"}
  PROVE  StartInv'
<1>1. /\ main.at \notin {"policy", "asking", "update", "updating"}
      /\ main'.at \notin {"policy", "asking", "update", "updating"}
  BY DEF HandlePlaces
<1>2. StartInv
  BY DEF IInv
<1>3. \/ faulty' \/ policy' \in {"sysparm", "nvram"}
      \/ {"read_policy", "write_policy"} \cap stolen' # {}
  BY <1>1, <1>2 DEF StartInv
<1> QED
  BY <1>1, <1>2, <1>3 DEF StartInv

LEMMA LossCut ==
  ASSUME MainInv, At("count")
  PROVE  Loss \in Nat /\ Loss <= 65535 /\ main.value - Loss \in Int /\ main.value - Loss >= MinCapacity
<1>1. main.id \in Nat /\ main.id <= 65535 /\ main.value \in Int /\ main.value > MinCapacity
  BY DEF MainInv, IdOf, At
<1>2. MinCapacity \in Nat
  BY AmountsAssumption
<1> QED
  BY <1>1, <1>2 DEF Loss

LEMMA PrintedBound ==
  ASSUME NEW n \in Nat, n <= 65535
  PROVE  Printed(n) \in Nat /\ Printed(n) <= n
<1> DEFINE Fits(m) == m <= 9999 /\ \A k \in {n, n \div 10, n \div 100} : k <= 9999 => k <= m
<1>1. /\ n \div 10 \in Nat /\ n \div 10 <= n /\ n \div 10 <= 9999
      /\ n \div 100 \in Nat /\ n \div 100 <= n \div 10
  OBVIOUS
<1>2. \E m \in {n, n \div 10, n \div 100} : Fits(m)
  <2>1. CASE n <= 9999
    BY <1>1, <2>1
  <2>2. CASE ~(n <= 9999)
    BY <1>1, <2>2
  <2> QED
    BY <2>1, <2>2
<1>3. Printed(n) \in {n, n \div 10, n \div 100}
  <2>1. Printed(n) = CHOOSE m \in {n, n \div 10, n \div 100} : Fits(m)
    BY DEF Printed
  <2> QED
    BY <1>2, <2>1
<1> QED
  BY <1>1, <1>3

LEMMA StartConverterStep ==
  ASSUME IInv, StartConverter
  PROVE  IInv'
<1> USE DEF At
<1>1. /\ At("name") /\ Moves("naming") /\ Forks("converter")
      /\ kids' = kids
      /\ catcher' = "default" /\ pending' = FALSE
      /\ UNCHANGED <<tree, cpus, lmbs, capacity, policy, events>>
      /\ UNCHANGED <<told, shrunk, crossed, stolen, faulty>>
  BY GoMoves, ForkForks DEF IInv, StartConverter, part, restore_sigchld_default, history,
     Fork
<1>2. PartInv'
  BY <1>1 DEF IInv, PartInv, Kinds
<1>3. MainInv'
  BY <1>1, NothingAsked DEF IInv, MainInv, Moves, Places, Kinds
<1>4. JobInv'
  BY <1>1 DEF IInv, JobInv, Jobs, Moves, Forks
<1>5. OwnInv'
  BY <1>1 DEF IInv, OwnInv, JobInv, Jobs, Moves, Forks, Ended
<1>6. CatcherInv'
  BY <1>1 DEF IInv, CatcherInv, JobInv, Moves, Forks
<1>7. StartInv'
  <2>1. stolen \subseteq stolen' /\ (faulty => faulty')
    BY <1>1
  <2> QED
    BY <1>1, <2>1, StartKept DEF HandlePlaces, Moves
<1>8. KidsInv'
  BY <1>1 DEF IInv, KidsInv
<1>9. CpuInv'
  BY <1>1 DEF IInv, CpuInv, Alone, Running, Under, Moves
<1>10. LmbInv'
  BY <1>1 DEF IInv, LmbInv, Alone, Running, Under, Moves
<1>11. CapacityInv'
  BY <1>1 DEF IInv, CapacityInv, Alone, Running, Under, Moves
<1>12. SaidInv'
  <2>1. Said' = Said
    BY <1>1 DEF Said, Moves
  <2> QED
    BY <1>1, <2>1 DEF IInv, SaidInv
<1>13. DoneInv'
  <2>1. Said' = Said
    BY <1>1 DEF Said, Moves
  <2>2. DoneInv
    BY DEF IInv
  <2>3. \A r : Gone(r)' = Gone(r)
    BY <1>1 DEF Gone
  <2>4. \A k, r : Takes(k, r)' = Takes(k, r)
    BY DEF Takes
  <2> QED
    BY <1>1, <2>1, <2>2, <2>3, <2>4 DEF DoneInv, IInv, OwnInv, CatcherInv, JobInv, Moves, Forks,
       Ended
<1> QED
  BY <1>2, <1>3, <1>4, <1>5, <1>6, <1>7, <1>8, <1>9, <1>10, <1>11, <1>12, <1>13 DEF IInv

LEMMA ConverterFailsStep ==
  ASSUME IInv, ConverterFails
  PROVE  IInv'
<1> USE DEF At
<1>1. /\ At("name") /\ Rests("idle")
      /\ faulty' = TRUE /\ UNCHANGED <<own, kids, catcher, pending>>
      /\ UNCHANGED <<tree, cpus, lmbs, capacity, policy, events>>
      /\ UNCHANGED <<told, shrunk, crossed, stolen>>
  BY IdleRests DEF IInv, ConverterFails, part, children, Fault
<1>2. PartInv'
  BY <1>1 DEF IInv, PartInv, Kinds
<1>3. MainInv'
  BY <1>1, NothingAsked DEF IInv, MainInv, Rests, Places, Kinds
<1>4. JobInv'
  BY <1>1 DEF IInv, JobInv, Jobs, Rests
<1>5. OwnInv'
  BY <1>1 DEF IInv, OwnInv, JobInv, Jobs, Rests, Ended
<1>6. CatcherInv'
  BY <1>1 DEF IInv, CatcherInv, JobInv, Rests
<1>7. StartInv'
  <2>1. stolen \subseteq stolen' /\ (faulty => faulty')
    BY <1>1
  <2> QED
    BY <1>1, <2>1, StartKept DEF HandlePlaces, Rests
<1>8. Aside
  BY <1>1 DEF IInv, JobInv, Aside, StartPlaces, Rests
<1> QED
  BY <1>2, <1>3, <1>4, <1>5, <1>6, <1>7, <1>8, AsideKeeps DEF IInv

LEMMA CheckFailsStep ==
  ASSUME IInv, CheckFails
  PROVE  IInv'
<1> USE DEF At
<1>1. /\ main.at \in {"check", "blocks", "entitlement"} /\ Rests("idle")
      /\ faulty' = TRUE /\ UNCHANGED <<own, kids, catcher, pending>>
      /\ UNCHANGED <<tree, cpus, lmbs, capacity, policy, events>>
      /\ UNCHANGED <<told, shrunk, crossed, stolen>>
  BY IdleRests DEF IInv, CheckFails, part, children, Fault
<1>2. PartInv'
  BY <1>1 DEF IInv, PartInv, Kinds
<1>3. MainInv'
  BY <1>1, NothingAsked DEF IInv, MainInv, Rests, Places, Kinds
<1>4. JobInv'
  BY <1>1 DEF IInv, JobInv, Jobs, Rests
<1>5. OwnInv'
  BY <1>1 DEF IInv, OwnInv, JobInv, Jobs, Rests, Ended
<1>6. CatcherInv'
  BY <1>1 DEF IInv, CatcherInv, JobInv, Rests
<1>7. StartInv'
  <2>1. stolen \subseteq stolen' /\ (faulty => faulty')
    BY <1>1
  <2> QED
    BY <1>1, <2>1, StartKept DEF HandlePlaces, Rests
<1>8. Aside
  BY <1>1 DEF IInv, JobInv, Aside, StartPlaces, Rests
<1> QED
  BY <1>2, <1>3, <1>4, <1>5, <1>6, <1>7, <1>8, AsideKeeps DEF IInv

Reads ==
  /\ main' = [f \in MainFields |-> main'[f]]
  /\ main'.kind = main.kind /\ main'.id = main.id /\ main'.name = own.name /\ main'.value = main.value
  /\ main'.at = IF main.kind = "cpu" THEN "check" ELSE "spawn"

LEMMA ReadNameStep ==
  ASSUME IInv, ReadName
  PROVE  IInv'
<1> USE DEF At
<1>1. /\ At("naming") /\ Ends /\ own.job = "converter" /\ own.state \in Ended
      /\ kids' = kids
      /\ \/ Rests("idle")
         \/ Reads
      /\ catcher' = "reap" /\ pending' = pending
      /\ UNCHANGED <<tree, cpus, lmbs, capacity, policy, events>>
      /\ stolen' = (IF own.state = "reaped" THEN stolen \union {"converter"} ELSE stolen)
      /\ UNCHANGED <<told, shrunk, crossed, faulty>>
  BY WaitEnds, IdleRests DEF IInv, ReadName, part, MainInv, MainFields, Reads, Wait, 
     setup_sigchld_handler
<1>2. PartInv'
  BY <1>1 DEF IInv, PartInv, Kinds, Reads
<1>3. MainInv'
  <2>1. CASE Rests("idle")
    BY <1>1, <2>1, NothingAsked DEF IInv, MainInv, Rests, Places, Kinds, Reads
  <2>2. CASE Reads
    <3>1. Calls(tree, main.kind, main.id, own.name)
      BY NothingAsked DEF IInv, OwnInv
    <3> QED
      BY <1>1, <2>2, <3>1 DEF IInv, MainInv, Reads, Places, Kinds
  <2> QED
    BY <1>1, <2>1, <2>2
<1>4. JobInv'
  BY <1>1 DEF IInv, JobInv, Jobs, Rests, Ends, Reads
<1>5. OwnInv'
  BY <1>1 DEF IInv, OwnInv, JobInv, Jobs, Rests, Ends, Ended, Reads
<1>6. CatcherInv'
  BY <1>1 DEF IInv, CatcherInv, JobInv, Rests, Ends, Reads
<1>7. StartInv'
  <2>1. stolen \subseteq stolen' /\ (faulty => faulty')
    BY <1>1 DEF Reads
  <2> QED
    BY <1>1, <2>1, StartKept DEF HandlePlaces, Rests, Reads
<1>8. CASE Rests("idle")
  <2>1. Aside
    BY <1>1, <1>8 DEF IInv, JobInv, Aside, StartPlaces, Rests, Ends, Reads
  <2> QED
    BY <2>1, AsideKeeps, <1>2, <1>3, <1>4, <1>5, <1>6, <1>7 DEF IInv
<1>9. CASE Reads
  <2>1. KidsInv'
    BY <1>1, <1>9 DEF IInv, KidsInv, Reads
  <2>2. CpuInv'
    BY <1>1, <1>9 DEF IInv, MainInv, CpuInv, Alone, Running, Under, Reads
  <2>3. LmbInv'
    BY <1>1, <1>9 DEF IInv, MainInv, LmbInv, Alone, Running, Under, Reads
  <2>4. CapacityInv'
    BY <1>1, <1>9 DEF IInv, MainInv, CapacityInv, Alone, Running, Under, Reads
  <2>5. SaidInv'
    <3>1. Said' = Said
      BY <1>1, <1>9 DEF Said, Rests, Reads
    <3> QED
      BY <1>1, <1>9, <3>1 DEF IInv, SaidInv, Reads
  <2>6. DoneInv'
    <3>1. Said' = Said
      BY <1>1, <1>9 DEF Said, Rests, Reads
    <3>2. DoneInv
      BY DEF IInv
    <3>3. \A r : Gone(r)' = Gone(r)
      BY <1>1, <1>9 DEF Gone
    <3>4. \A k, r : Takes(k, r)' = Takes(k, r)
      BY DEF Takes
    <3> QED
      BY <1>1, <1>9, <3>1, <3>2, <3>3, <3>4 DEF DoneInv, IInv, OwnInv, CatcherInv, JobInv,
         Rests, Ends, Ended, Reads
  <2> QED
    BY <1>2, <1>3, <1>4, <1>5, <1>6, <1>7, <2>1, <2>2, <2>3, <2>4, <2>5, <2>6 DEF IInv
<1> QED
  BY <1>1, <1>8, <1>9

(* A check notes that a drmgr is still running.                            *)
Notes(kind) ==
  /\ crossed \subseteq crossed' /\ crossed' \subseteq crossed \union {kind}
  /\ kind \notin crossed' => Running(kind) = {}
  /\ UNCHANGED <<told, shrunk, stolen, faulty>>

LEMMA CrossingNotes ==
  ASSUME NEW kind, NoteCrossing(kind)
  PROVE  Notes(kind)
<1>1. CASE BeingTaken(kind)
  BY <1>1 DEF NoteCrossing, Notes
<1>2. CASE ~BeingTaken(kind)
  <2>1. Running(kind) = {}
    BY <1>2 DEF BeingTaken, Running
  <2> QED
    BY <1>2, <2>1 DEF NoteCrossing, Notes
<1> QED
  BY <1>1, <1>2

LEMMA CheckCpuStep ==
  ASSUME IInv, CheckCpu
  PROVE  IInv'
<1> USE DEF At
<1>1. /\ At("check") /\ Notes("cpu")
      /\ \/ Rests("idle")
         \/ Moves("spawn") /\ Cardinality(cpus) > MinProcessors
      /\ UNCHANGED <<own, kids, catcher, pending>>
      /\ UNCHANGED <<tree, cpus, lmbs, capacity, policy, events>>
      /\ UNCHANGED <<told, shrunk, stolen, faulty>>
  BY GoMoves, IdleRests, CrossingNotes DEF IInv, CheckCpu, part, children, MayTake,
     NoteCrossing
<1>2. PartInv'
  BY <1>1 DEF IInv, PartInv, Kinds, Notes
<1>3. MainInv'
  <2>1. CASE Rests("idle")
    BY <1>1, <2>1, NothingAsked DEF IInv, MainInv, Moves, Rests, Places, Kinds, Notes
  <2>2. CASE Moves("spawn") /\ Cardinality(cpus) > MinProcessors
    BY <1>1, <2>2, NothingAsked DEF IInv, MainInv, Moves, Rests, Places, Kinds, Notes
  <2> QED
    BY <1>1, <2>1, <2>2
<1>4. JobInv'
  BY <1>1 DEF IInv, JobInv, Jobs, Moves, Rests, Notes
<1>5. OwnInv'
  BY <1>1 DEF IInv, OwnInv, JobInv, Jobs, Moves, Rests, Ended, Notes
<1>6. CatcherInv'
  BY <1>1 DEF IInv, CatcherInv, JobInv, Moves, Rests, Notes
<1>7. StartInv'
  <2>1. stolen \subseteq stolen' /\ (faulty => faulty')
    BY <1>1 DEF Notes
  <2> QED
    BY <1>1, <2>1, StartKept DEF HandlePlaces, Moves, Rests, Notes
<1>8. CASE Rests("idle")
  <2>1. Aside
    BY <1>1, <1>8 DEF IInv, JobInv, Aside, StartPlaces, Moves, Rests, Notes
  <2> QED
    BY <2>1, AsideKeeps, <1>2, <1>3, <1>4, <1>5, <1>6, <1>7 DEF IInv
<1>9. CASE Moves("spawn") /\ Cardinality(cpus) > MinProcessors
  <2>1. KidsInv'
    BY <1>1, <1>9 DEF IInv, KidsInv, Notes
  <2>2. CpuInv'
    <3>1. Running("cpu")' = Running("cpu")
      BY <1>1 DEF Running
    <3> QED
      BY <1>1, <1>9, <3>1 DEF IInv, MainInv, CpuInv, Alone, Under, Moves, Notes
  <2>3. LmbInv'
    <3>1. Running("lmb")' = Running("lmb")
      BY <1>1 DEF Running
    <3> QED
      BY <1>1, <1>9, <3>1 DEF IInv, MainInv, LmbInv, Alone, Under, Moves, Notes
  <2>4. CapacityInv'
    <3>1. Running("capacity")' = Running("capacity")
      BY <1>1 DEF Running
    <3> QED
      BY <1>1, <1>9, <3>1 DEF IInv, MainInv, CapacityInv, Alone, Under, Moves, Notes
  <2>5. SaidInv'
    <3>1. Said' = Said
      BY <1>1, <1>9 DEF Said, Moves, Rests, Notes
    <3> QED
      BY <1>1, <1>9, <3>1 DEF IInv, SaidInv, Notes
  <2>6. DoneInv'
    <3>1. Said' = Said
      BY <1>1, <1>9 DEF Said, Moves, Rests, Notes
    <3>2. DoneInv
      BY DEF IInv
    <3>3. \A r : Gone(r)' = Gone(r)
      BY <1>1, <1>9 DEF Gone
    <3>4. \A k, r : Takes(k, r)' = Takes(k, r)
      BY DEF Takes
    <3> QED
      BY <1>1, <1>9, <3>1, <3>2, <3>3, <3>4 DEF DoneInv, IInv, OwnInv, CatcherInv, JobInv,
         Moves, Rests, Ended, Notes
  <2> QED
    BY <1>2, <1>3, <1>4, <1>5, <1>6, <1>7, <2>1, <2>2, <2>3, <2>4, <2>5, <2>6 DEF IInv
<1> QED
  BY <1>1, <1>8, <1>9

LEMMA CheckLmbStep ==
  ASSUME IInv, CheckLmb
  PROVE  IInv'
<1> USE DEF At
<1>1. /\ At("blocks") /\ Notes("lmb")
      /\ \/ Rests("idle")
         \/ Moves("name") /\ Cardinality(lmbs) >= 2
      /\ UNCHANGED <<own, kids, catcher, pending>>
      /\ UNCHANGED <<tree, cpus, lmbs, capacity, policy, events>>
      /\ UNCHANGED <<told, shrunk, stolen, faulty>>
  BY GoMoves, IdleRests, CrossingNotes DEF IInv, CheckLmb, part, children, 
     can_delete_lmb, NoteCrossing
<1>2. PartInv'
  BY <1>1 DEF IInv, PartInv, Kinds, Notes
<1>3. MainInv'
  <2>1. CASE Rests("idle")
    BY <1>1, <2>1, NothingAsked DEF IInv, MainInv, Moves, Rests, Places, Kinds, Notes
  <2>2. CASE Moves("name") /\ Cardinality(lmbs) >= 2
    BY <1>1, <2>2, NothingAsked DEF IInv, MainInv, Moves, Rests, Places, Kinds, Notes
  <2> QED
    BY <1>1, <2>1, <2>2
<1>4. JobInv'
  BY <1>1 DEF IInv, JobInv, Jobs, Moves, Rests, Notes
<1>5. OwnInv'
  BY <1>1 DEF IInv, OwnInv, JobInv, Jobs, Moves, Rests, Ended, Notes
<1>6. CatcherInv'
  BY <1>1 DEF IInv, CatcherInv, JobInv, Moves, Rests, Notes
<1>7. StartInv'
  <2>1. stolen \subseteq stolen' /\ (faulty => faulty')
    BY <1>1 DEF Notes
  <2> QED
    BY <1>1, <2>1, StartKept DEF HandlePlaces, Moves, Rests, Notes
<1>8. CASE Rests("idle")
  <2>1. Aside
    BY <1>1, <1>8 DEF IInv, JobInv, Aside, StartPlaces, Moves, Rests, Notes
  <2> QED
    BY <2>1, AsideKeeps, <1>2, <1>3, <1>4, <1>5, <1>6, <1>7 DEF IInv
<1>9. CASE Moves("name") /\ Cardinality(lmbs) >= 2
  <2>1. KidsInv'
    BY <1>1, <1>9 DEF IInv, KidsInv, Notes
  <2>2. CpuInv'
    <3>1. Running("cpu")' = Running("cpu")
      BY <1>1 DEF Running
    <3> QED
      BY <1>1, <1>9, <3>1 DEF IInv, MainInv, CpuInv, Alone, Under, Moves, Notes
  <2>3. LmbInv'
    <3>1. Running("lmb")' = Running("lmb")
      BY <1>1 DEF Running
    <3> QED
      BY <1>1, <1>9, <3>1 DEF IInv, MainInv, LmbInv, Alone, Under, Moves, Notes
  <2>4. CapacityInv'
    <3>1. Running("capacity")' = Running("capacity")
      BY <1>1 DEF Running
    <3> QED
      BY <1>1, <1>9, <3>1 DEF IInv, MainInv, CapacityInv, Alone, Under, Moves, Notes
  <2>5. SaidInv'
    <3>1. Said' = Said
      BY <1>1, <1>9 DEF Said, Moves, Rests, Notes
    <3> QED
      BY <1>1, <1>9, <3>1 DEF IInv, SaidInv, Notes
  <2>6. DoneInv'
    <3>1. Said' = Said
      BY <1>1, <1>9 DEF Said, Moves, Rests, Notes
    <3>2. DoneInv
      BY DEF IInv
    <3>3. \A r : Gone(r)' = Gone(r)
      BY <1>1, <1>9 DEF Gone
    <3>4. \A k, r : Takes(k, r)' = Takes(k, r)
      BY DEF Takes
    <3> QED
      BY <1>1, <1>9, <3>1, <3>2, <3>3, <3>4 DEF DoneInv, IInv, OwnInv, CatcherInv, JobInv,
         Moves, Rests, Ended, Notes
  <2> QED
    BY <1>2, <1>3, <1>4, <1>5, <1>6, <1>7, <2>1, <2>2, <2>3, <2>4, <2>5, <2>6 DEF IInv
<1> QED
  BY <1>1, <1>8, <1>9

Counts ==
  /\ main' = [f \in MainFields |-> main'[f]]
  /\ main'.kind = main.kind /\ main'.id = main.id /\ main'.name = main.name
  /\ main'.at = "count" /\ main'.value = capacity

LEMMA ReadEntitlementStep ==
  ASSUME IInv, ReadEntitlement
  PROVE  IInv'
<1> USE DEF At
<1>1. /\ At("entitlement") /\ Notes("capacity")
      /\ \/ Rests("idle")
         \/ Counts /\ capacity > MinCapacity
      /\ UNCHANGED <<own, kids, catcher, pending>>
      /\ UNCHANGED <<tree, cpus, lmbs, capacity, policy, events>>
      /\ UNCHANGED <<told, shrunk, stolen, faulty>>
  <2>1. capacity \in Int /\ MinCapacity \in Nat
    BY AmountsAssumption DEF IInv, PartInv
  <2>2. main' = IF capacity <= MinCapacity THEN Idle ELSE [main EXCEPT !.at = "count", !.value = capacity]
    BY DEF ReadEntitlement
  <2>3. \/ Rests("idle")
        \/ Counts /\ capacity > MinCapacity
    <3>1. CASE capacity <= MinCapacity
      BY <2>2, <3>1, IdleRests
    <3>2. CASE ~(capacity <= MinCapacity)
      <4>1. capacity > MinCapacity
        BY <2>1, <3>2
      <4>2. main' = [main EXCEPT !.at = "count", !.value = capacity]
        BY <2>2, <3>2
      <4>3. Counts
        BY <4>2 DEF IInv, MainInv, MainFields, Counts
      <4> QED
        BY <4>1, <4>3
    <3> QED
      BY <3>1, <3>2
  <2> QED
    BY <2>3, CrossingNotes DEF ReadEntitlement, part, children, Notes
<1>2. PartInv'
  BY <1>1 DEF IInv, PartInv, Kinds, Notes, Counts
<1>3. MainInv'
  <2>1. CASE Rests("idle")
    BY <1>1, <2>1, NothingAsked DEF IInv, MainInv, Rests, Places, Kinds, Notes, Counts
  <2>2. CASE Counts /\ capacity > MinCapacity
    BY <1>1, <2>2, NothingAsked DEF IInv, PartInv, MainInv, Counts, Places, Kinds
  <2> QED
    BY <1>1, <2>1, <2>2
<1>4. JobInv'
  BY <1>1 DEF IInv, JobInv, Jobs, Rests, Notes, Counts
<1>5. OwnInv'
  BY <1>1 DEF IInv, OwnInv, JobInv, Jobs, Rests, Ended, Notes, Counts
<1>6. CatcherInv'
  BY <1>1 DEF IInv, CatcherInv, JobInv, Rests, Notes, Counts
<1>7. StartInv'
  <2>1. stolen \subseteq stolen' /\ (faulty => faulty')
    BY <1>1 DEF Notes, Counts
  <2> QED
    BY <1>1, <2>1, StartKept DEF HandlePlaces, Rests, Notes, Counts
<1>8. CASE Rests("idle")
  <2>1. Aside
    BY <1>1, <1>8 DEF IInv, JobInv, Aside, StartPlaces, Rests, Notes, Counts
  <2> QED
    BY <2>1, AsideKeeps, <1>2, <1>3, <1>4, <1>5, <1>6, <1>7 DEF IInv
<1>9. CASE Counts /\ capacity > MinCapacity
  <2>1. KidsInv'
    BY <1>1, <1>9 DEF IInv, KidsInv, Notes, Counts
  <2>2. CpuInv'
    <3>1. Running("cpu")' = Running("cpu")
      BY <1>1 DEF Running
    <3> QED
      BY <1>1, <1>9, <3>1 DEF IInv, MainInv, CpuInv, Alone, Under, Counts, Notes
  <2>3. LmbInv'
    <3>1. Running("lmb")' = Running("lmb")
      BY <1>1 DEF Running
    <3> QED
      BY <1>1, <1>9, <3>1 DEF IInv, MainInv, LmbInv, Alone, Under, Counts, Notes
  <2>4. CapacityInv'
    <3>1. Running("capacity")' = Running("capacity")
      BY <1>1 DEF Running
    <3> QED
      BY <1>1, <1>9, <3>1 DEF IInv, MainInv, CapacityInv, Alone, Under, Counts, Notes
  <2>5. SaidInv'
    <3>1. Said' = Said
      BY <1>1, <1>9 DEF Said, Rests, Notes, Counts
    <3> QED
      BY <1>1, <1>9, <3>1 DEF IInv, SaidInv, Notes, Counts
  <2>6. DoneInv'
    <3>1. Said' = Said
      BY <1>1, <1>9 DEF Said, Rests, Notes, Counts
    <3>2. DoneInv
      BY DEF IInv
    <3>3. \A r : Gone(r)' = Gone(r)
      BY <1>1, <1>9 DEF Gone
    <3>4. \A k, r : Takes(k, r)' = Takes(k, r)
      BY DEF Takes
    <3> QED
      BY <1>1, <1>9, <3>1, <3>2, <3>3, <3>4 DEF DoneInv, IInv, OwnInv, CatcherInv, JobInv,
         Rests, Ended, Notes, Counts
  <2> QED
    BY <1>2, <1>3, <1>4, <1>5, <1>6, <1>7, <2>1, <2>2, <2>3, <2>4, <2>5, <2>6 DEF IInv
<1> QED
  BY <1>1, <1>8, <1>9

Cuts(place) ==
  /\ main' = [f \in MainFields |-> main'[f]]
  /\ main'.kind = main.kind /\ main'.id = Loss /\ main'.name = main.name
  /\ main'.at = place /\ main'.value \in Int

LEMMA CountCpusStep ==
  ASSUME IInv, CountCpus
  PROVE  IInv'
<1> USE DEF At
<1>1. /\ At("count")
      /\ kids' = kids
      /\ \/ Cuts("shrinking") /\ Forks("shrink")
         \/ Cuts("spawn") /\ own' = own
      /\ UNCHANGED <<catcher, pending>>
      /\ UNCHANGED <<tree, cpus, lmbs, capacity, policy, events>>
      /\ UNCHANGED <<told, shrunk, crossed, stolen, faulty>>
  <2>1. main.value \in Int /\ main = [f \in MainFields |-> main[f]]
    BY DEF IInv, MainInv
  <2>2. main.value - Loss \in Int
    BY LossCut DEF IInv, CountCpus
  <2>3. \/ Cuts("shrinking") /\ Forks("shrink")
        \/ Cuts("spawn") /\ own' = own
    BY <2>1, <2>2, ForkForks DEF CountCpus, MainFields, Cuts
  <2> QED
    BY <2>3 DEF CountCpus, part, history, Fork, Forks
<1>2. PartInv'
  BY <1>1 DEF IInv, PartInv, Kinds, Cuts
<1>3. MainInv'
  <2>1. CASE Cuts("shrinking") /\ Forks("shrink")
    <3>1. Loss \in Nat /\ Loss <= 65535
      BY <1>1, LossCut DEF IInv
    <3>2. IdOf("capacity", Loss) /\ main.name = NoName
      BY <1>1, <3>1 DEF IInv, MainInv, IdOf, Calls
    <3> QED
      BY <1>1, <2>1, <3>2, NothingAsked DEF IInv, MainInv, Cuts, Places, Kinds
  <2>2. CASE Cuts("spawn") /\ own' = own
    <3>1. Loss \in Nat /\ Loss <= 65535
      BY <1>1, LossCut DEF IInv
    <3>2. IdOf("capacity", Loss) /\ main.name = NoName
      BY <1>1, <3>1 DEF IInv, MainInv, IdOf, Calls
    <3> QED
      BY <1>1, <2>2, <3>2, NothingAsked DEF IInv, MainInv, Cuts, Places, Kinds
  <2> QED
    BY <1>1, <2>1, <2>2
<1>4. JobInv'
  <2>1. CASE Cuts("shrinking") /\ Forks("shrink")
    BY <1>1, <2>1 DEF IInv, JobInv, Jobs, Forks, Cuts
  <2>2. CASE Cuts("spawn") /\ own' = own
    BY <1>1, <2>2 DEF IInv, JobInv, Jobs, Forks, Cuts
  <2> QED
    BY <1>1, <2>1, <2>2
<1>5. OwnInv'
  <2>1. CASE Cuts("shrinking") /\ Forks("shrink")
    BY <1>1, <2>1 DEF IInv, OwnInv, JobInv, Jobs, Forks, Ended, Cuts
  <2>2. CASE Cuts("spawn") /\ own' = own
    BY <1>1, <2>2 DEF IInv, OwnInv, JobInv, Jobs, Forks, Ended, Cuts
  <2> QED
    BY <1>1, <2>1, <2>2
<1>6. CatcherInv'
  <2>1. CASE Cuts("shrinking") /\ Forks("shrink")
    BY <1>1, <2>1 DEF IInv, CatcherInv, JobInv, Forks, Cuts
  <2>2. CASE Cuts("spawn") /\ own' = own
    BY <1>1, <2>2 DEF IInv, CatcherInv, JobInv, Forks, Cuts
  <2> QED
    BY <1>1, <2>1, <2>2
<1>7. StartInv'
  <2>1. stolen \subseteq stolen' /\ (faulty => faulty')
    BY <1>1 DEF Cuts
  <2> QED
    BY <1>1, <2>1, StartKept DEF HandlePlaces, Cuts
<1>8. CASE Cuts("shrinking") /\ Forks("shrink")
  <2>1. KidsInv'
    BY <1>1, <1>8 DEF IInv, KidsInv, Cuts
  <2>2. CpuInv'
    BY <1>1, <1>8 DEF IInv, MainInv, CpuInv, Alone, Running, Under, Cuts
  <2>3. LmbInv'
    BY <1>1, <1>8 DEF IInv, MainInv, LmbInv, Alone, Running, Under, Cuts
  <2>4. CapacityInv'
    <3>1. "capacity" \notin crossed => capacity - main'.id >= MinCapacity
      BY <1>1, <1>8, LossCut DEF IInv, CapacityInv, Cuts
    <3> QED
      BY <1>1, <1>8, <3>1 DEF IInv, MainInv, CapacityInv, Alone, Running, Under, Cuts
  <2>5. SaidInv'
    <3>1. Said' = Said
      BY <1>1, <1>8 DEF Said, Cuts
    <3> QED
      BY <1>1, <1>8, <3>1 DEF IInv, SaidInv, Cuts
  <2>6. DoneInv'
    <3>1. Said' = Said
      BY <1>1, <1>8 DEF Said, Cuts
    <3>2. DoneInv
      BY DEF IInv
    <3>3. \A r : Gone(r)' = Gone(r)
      BY <1>1, <1>8 DEF Gone
    <3>4. \A k, r : Takes(k, r)' = Takes(k, r)
      BY DEF Takes
    <3>5. main.kind = "capacity" /\ (At("count") => own.job = "none")
      BY <1>1 DEF IInv, MainInv, JobInv, Jobs
    <3> QED
      BY <1>1, <1>8, <3>1, <3>2, <3>3, <3>4, <3>5 DEF DoneInv, Forks, Cuts
  <2> QED
    BY <1>2, <1>3, <1>4, <1>5, <1>6, <1>7, <2>1, <2>2, <2>3, <2>4, <2>5, <2>6 DEF IInv
<1>9. CASE Cuts("spawn") /\ own' = own
  <2>1. KidsInv'
    BY <1>1, <1>9 DEF IInv, KidsInv, Cuts
  <2>2. CpuInv'
    BY <1>1, <1>9 DEF IInv, MainInv, CpuInv, Alone, Running, Under, Cuts
  <2>3. LmbInv'
    BY <1>1, <1>9 DEF IInv, MainInv, LmbInv, Alone, Running, Under, Cuts
  <2>4. CapacityInv'
    <3>1. "capacity" \notin crossed => capacity - main'.id >= MinCapacity
      BY <1>1, <1>9, LossCut DEF IInv, CapacityInv, Cuts
    <3> QED
      BY <1>1, <1>9, <3>1 DEF IInv, MainInv, CapacityInv, Alone, Running, Under, Cuts
  <2>5. SaidInv'
    <3>1. Said' = Said
      BY <1>1, <1>9 DEF Said, Cuts
    <3> QED
      BY <1>1, <1>9, <3>1 DEF IInv, SaidInv, Cuts
  <2>6. DoneInv'
    <3>1. Said' = Said
      BY <1>1, <1>9 DEF Said, Cuts
    <3>2. DoneInv
      BY DEF IInv
    <3>3. \A r : Gone(r)' = Gone(r)
      BY <1>1, <1>9 DEF Gone
    <3>4. \A k, r : Takes(k, r)' = Takes(k, r)
      BY DEF Takes
    <3>5. main.kind = "capacity" /\ (At("count") => own.job = "none")
      BY <1>1 DEF IInv, MainInv, JobInv, Jobs
    <3> QED
      BY <1>1, <1>9, <3>1, <3>2, <3>3, <3>4, <3>5 DEF DoneInv, Forks, Cuts
  <2> QED
    BY <1>2, <1>3, <1>4, <1>5, <1>6, <1>7, <2>1, <2>2, <2>3, <2>4, <2>5, <2>6 DEF IInv
<1> QED
  BY <1>1, <1>8, <1>9

LEMMA CountFailsStep ==
  ASSUME IInv, CountFails
  PROVE  IInv'
<1> USE DEF At
<1>1. /\ At("count") /\ Cuts("spawn")
      /\ faulty' = TRUE
      /\ UNCHANGED <<own, kids, catcher, pending>>
      /\ UNCHANGED <<tree, cpus, lmbs, capacity, policy, events>>
      /\ UNCHANGED <<told, shrunk, crossed, stolen>>
  <2>1. main.value \in Int /\ main = [f \in MainFields |-> main[f]]
    BY DEF IInv, MainInv
  <2>2. main.value - Loss \in Int
    BY LossCut DEF IInv, CountFails
  <2>3. Cuts("spawn")
    BY <2>1, <2>2, ForkForks DEF CountFails, MainFields, Cuts
  <2> QED
    BY <2>3 DEF CountFails, part, children, Fault
<1>2. PartInv'
  BY <1>1 DEF IInv, PartInv, Kinds, Cuts
<1>3. MainInv'
  <2>1. Loss \in Nat /\ Loss <= 65535
    BY <1>1, LossCut DEF IInv
  <2>2. IdOf("capacity", Loss) /\ main.name = NoName
    BY <1>1, <2>1 DEF IInv, MainInv, IdOf, Calls
  <2> QED
    BY <1>1, <2>2, NothingAsked DEF IInv, MainInv, Cuts, Places, Kinds
<1>4. JobInv'
  BY <1>1 DEF IInv, JobInv, Jobs, Cuts
<1>5. OwnInv'
  BY <1>1 DEF IInv, OwnInv, JobInv, Jobs, Ended, Cuts
<1>6. CatcherInv'
  BY <1>1 DEF IInv, CatcherInv, JobInv, Cuts
<1>7. StartInv'
  <2>1. stolen \subseteq stolen' /\ (faulty => faulty')
    BY <1>1 DEF Cuts
  <2> QED
    BY <1>1, <2>1, StartKept DEF HandlePlaces, Cuts
<1>8. KidsInv'
  BY <1>1 DEF IInv, KidsInv, Cuts
<1>9. CpuInv'
  BY <1>1 DEF IInv, MainInv, CpuInv, Alone, Running, Under, Cuts
<1>10. LmbInv'
  BY <1>1 DEF IInv, MainInv, LmbInv, Alone, Running, Under, Cuts
<1>11. CapacityInv'
  <2>1. "capacity" \notin crossed => capacity - main'.id >= MinCapacity
    BY <1>1, LossCut DEF IInv, CapacityInv, Cuts
  <2> QED
    BY <1>1, <2>1 DEF IInv, MainInv, CapacityInv, Alone, Running, Under, Cuts
<1>12. SaidInv'
  <2>1. Said' = Said
    BY <1>1 DEF Said, Cuts
  <2> QED
    BY <1>1, <2>1 DEF IInv, SaidInv, Cuts
<1>13. DoneInv'
  <2>1. Said' = Said
    BY <1>1 DEF Said, Cuts
  <2>2. DoneInv
    BY DEF IInv
  <2>3. \A r : Gone(r)' = Gone(r)
    BY <1>1 DEF Gone
  <2>4. \A k, r : Takes(k, r)' = Takes(k, r)
    BY DEF Takes
  <2> QED
    BY <1>1, <2>1, <2>2, <2>3, <2>4 DEF DoneInv, IInv, OwnInv, CatcherInv, JobInv, Ended, Cuts
<1> QED
  BY <1>2, <1>3, <1>4, <1>5, <1>6, <1>7, <1>8, <1>9, <1>10, <1>11, <1>12, <1>13 DEF IInv

LEMMA CpusTakenStep ==
  ASSUME IInv, CpusTaken
  PROVE  IInv'
<1> USE DEF At
<1>1. /\ At("shrinking") /\ Moves("spawn") /\ Ends
      /\ kids' = kids /\ stolen' \in {stolen, stolen \union {"shrink"}}
      /\ UNCHANGED <<catcher, pending>>
      /\ UNCHANGED <<tree, cpus, lmbs, capacity, policy, events>>
      /\ UNCHANGED <<told, shrunk, crossed, faulty>>
  BY GoMoves, WaitEnds DEF IInv, CpusTaken, part, Wait
<1>2. PartInv'
  BY <1>1 DEF IInv, PartInv, Kinds
<1>3. MainInv'
  BY <1>1, NothingAsked DEF IInv, MainInv, Moves, Places, Kinds
<1>4. JobInv'
  BY <1>1 DEF IInv, JobInv, Jobs, Moves, Ends
<1>5. OwnInv'
  BY <1>1 DEF IInv, OwnInv, JobInv, Jobs, Moves, Ends, Ended
<1>6. CatcherInv'
  BY <1>1 DEF IInv, CatcherInv, JobInv, Moves, Ends
<1>7. StartInv'
  <2>1. stolen \subseteq stolen' /\ (faulty => faulty')
    BY <1>1
  <2> QED
    BY <1>1, <2>1, StartKept DEF HandlePlaces, Moves
<1>8. KidsInv'
  BY <1>1 DEF IInv, KidsInv
<1>9. CpuInv'
  BY <1>1 DEF IInv, MainInv, CpuInv, Alone, Running, Under, Moves
<1>10. LmbInv'
  BY <1>1 DEF IInv, MainInv, LmbInv, Alone, Running, Under, Moves
<1>11. CapacityInv'
  BY <1>1 DEF IInv, MainInv, CapacityInv, Alone, Running, Under, Moves
<1>12. SaidInv'
  <2>1. Said' = Said
    BY <1>1 DEF Said, Moves
  <2> QED
    BY <1>1, <2>1 DEF IInv, SaidInv
<1>13. DoneInv'
  <2>1. Said' = Said
    BY <1>1 DEF Said, Moves
  <2>2. DoneInv
    BY DEF IInv
  <2>3. \A r : Gone(r)' = Gone(r)
    BY <1>1 DEF Gone
  <2>4. \A k, r : Takes(k, r)' = Takes(k, r)
    BY DEF Takes
  <2>5. main.kind = "capacity" /\ (At("count") => own.job = "none")
    BY <1>1 DEF IInv, MainInv, JobInv, Jobs
  <2> QED
    BY <1>1, <2>1, <2>2, <2>3, <2>4, <2>5 DEF DoneInv, Moves, Ends
<1> QED
  BY <1>2, <1>3, <1>4, <1>5, <1>6, <1>7, <1>8, <1>9, <1>10, <1>11, <1>12, <1>13 DEF IInv

LEMMA SpawnStep ==
  ASSUME IInv, Spawn
  PROVE  IInv'
<1> USE DEF At
<1>1. /\ At("spawn") /\ Moves("tell")
      /\ \/ kids' = kids \union {Drmgr} /\ UNCHANGED <<own, told, shrunk, crossed, stolen, faulty>>
         \/ faulty' = TRUE /\ UNCHANGED <<own, kids, told, shrunk, crossed, stolen>>
      /\ UNCHANGED <<catcher, pending>>
      /\ UNCHANGED <<tree, cpus, lmbs, capacity, policy, events>>
  BY GoMoves DEF IInv, Spawn, part, Fault, history
<1>2. PartInv'
  <2>1. CASE kids' = kids \union {Drmgr} /\ UNCHANGED <<own, told, shrunk, crossed, stolen, faulty>>
    BY <1>1, <2>1 DEF IInv, PartInv, Kinds
  <2>2. CASE faulty' = TRUE /\ UNCHANGED <<own, kids, told, shrunk, crossed, stolen>>
    BY <1>1, <2>2 DEF IInv, PartInv, Kinds
  <2> QED
    BY <1>1, <2>1, <2>2
<1>3. MainInv'
  BY <1>1, NothingAsked DEF IInv, MainInv, Moves, Places, Kinds
<1>4. JobInv'
  <2>1. CASE kids' = kids \union {Drmgr} /\ UNCHANGED <<own, told, shrunk, crossed, stolen, faulty>>
    BY <1>1, <2>1 DEF IInv, JobInv, Jobs, Moves
  <2>2. CASE faulty' = TRUE /\ UNCHANGED <<own, kids, told, shrunk, crossed, stolen>>
    BY <1>1, <2>2 DEF IInv, JobInv, Jobs, Moves
  <2> QED
    BY <1>1, <2>1, <2>2
<1>5. OwnInv'
  <2>1. CASE kids' = kids \union {Drmgr} /\ UNCHANGED <<own, told, shrunk, crossed, stolen, faulty>>
    BY <1>1, <2>1 DEF IInv, OwnInv, JobInv, Jobs, Moves, Ended
  <2>2. CASE faulty' = TRUE /\ UNCHANGED <<own, kids, told, shrunk, crossed, stolen>>
    BY <1>1, <2>2 DEF IInv, OwnInv, JobInv, Jobs, Moves, Ended
  <2> QED
    BY <1>1, <2>1, <2>2
<1>6. CatcherInv'
  <2>1. CASE kids' = kids \union {Drmgr} /\ UNCHANGED <<own, told, shrunk, crossed, stolen, faulty>>
    BY <1>1, <2>1 DEF IInv, CatcherInv, JobInv, Moves
  <2>2. CASE faulty' = TRUE /\ UNCHANGED <<own, kids, told, shrunk, crossed, stolen>>
    BY <1>1, <2>2 DEF IInv, CatcherInv, JobInv, Moves
  <2> QED
    BY <1>1, <2>1, <2>2
<1>7. StartInv'
  <2>1. stolen \subseteq stolen' /\ (faulty => faulty')
    BY <1>1
  <2> QED
    BY <1>1, <2>1, StartKept DEF HandlePlaces, Moves
<1>8. CASE kids' = kids \union {Drmgr} /\ UNCHANGED <<own, told, shrunk, crossed, stolen, faulty>>
  <2>1. PICK d : d = Drmgr
    OBVIOUS
  <2>2. /\ d = [f \in KidFields |-> d[f]]
        /\ d.kind = main.kind /\ d.name = main.name /\ d.state = "running"
        /\ d.id = IF main.kind = "capacity" THEN Printed(main.id) ELSE main.id
    BY <2>1 DEF Drmgr, KidFields
  <2>3. kids' = kids \union {d}
    BY <1>8, <2>1
  <2>4. main.kind \in Kinds /\ IdOf(main.kind, main.id) /\ Calls(tree, main.kind, main.id, main.name)
    BY <1>1 DEF IInv, MainInv
  <2>5. main.kind = "capacity" => d.id \in Nat /\ d.id <= main.id /\ main.id \in Nat /\ main.id <= 65535
    BY <2>2, <2>4, PrintedBound DEF IdOf
  <2>6. IdOf(d.kind, d.id) /\ Calls(tree, d.kind, d.id, d.name)
    <3>1. CASE main.kind = "capacity"
      <4>1. d.id \in Nat /\ d.id <= 65535
        BY <2>5, <3>1
      <4>2. d.name = NoName
        BY <2>2, <2>4, <3>1 DEF Calls
      <4> QED
        BY <2>2, <3>1, <4>1, <4>2, NothingAsked DEF IdOf
    <3>2. CASE main.kind # "capacity"
      BY <2>2, <2>4, <3>2
    <3> QED
      BY <3>1, <3>2
  <2>7. KidsInv'
    <3> SUFFICES ASSUME NEW k \in kids'
                 PROVE  /\ k = [f \in KidFields |-> k[f]]
                        /\ k.kind \in Kinds /\ k.state \in {"running", "zombie"}
                        /\ IdOf(k.kind, k.id) /\ Calls(tree', k.kind, k.id, k.name)
      BY DEF KidsInv
    <3>1. CASE k \in kids
      BY <1>1, <3>1 DEF IInv, KidsInv
    <3>2. CASE k = d
      BY <1>1, <2>2, <2>4, <2>6, <3>2
    <3> QED
      BY <2>3, <3>1, <3>2
  <2>8. \A kind : Running(kind)' = IF kind = main.kind THEN Running(kind) \union {d} ELSE Running(kind)
    BY <2>2, <2>3 DEF Running
  <2>9. CpuInv'
    <3>1. CASE main.kind = "cpu"
      BY <1>1, <1>8, <2>8, <3>1 DEF IInv, CpuInv, Alone, Under, Moves
    <3>2. CASE main.kind # "cpu"
      <4>1. Running("cpu")' = Running("cpu")
        BY <2>8, <3>2
      <4> QED
        BY <1>1, <1>8, <3>2, <4>1 DEF IInv, CpuInv, Alone, Under, Moves
    <3> QED
      BY <3>1, <3>2
  <2>10. LmbInv'
    <3>1. CASE main.kind = "lmb"
      BY <1>1, <1>8, <2>8, <3>1 DEF IInv, LmbInv, Alone, Under, Moves
    <3>2. CASE main.kind # "lmb"
      <4>1. Running("lmb")' = Running("lmb")
        BY <2>8, <3>2
      <4> QED
        BY <1>1, <1>8, <3>2, <4>1 DEF IInv, LmbInv, Alone, Under, Moves
    <3> QED
      BY <3>1, <3>2
  <2>11. CapacityInv'
    <3>1. CASE main.kind = "capacity"
      <4>1. capacity \in Int /\ MinCapacity \in Nat
        BY AmountsAssumption DEF IInv, PartInv
      <4>2. capacity - main.id >= MinCapacity => capacity - d.id >= MinCapacity
        BY <2>5, <3>1, <4>1
      <4>3. "capacity" \notin crossed =>
              Running("capacity")' = {d} /\ capacity >= MinCapacity /\ capacity - d.id >= MinCapacity
        BY <1>1, <2>8, <3>1, <4>2 DEF IInv, CapacityInv, Under
      <4> QED
        BY <1>1, <1>8, <3>1, <4>3 DEF CapacityInv, Alone, Under, Moves
    <3>2. CASE main.kind # "capacity"
      <4>1. Running("capacity")' = Running("capacity")
        BY <2>8, <3>2
      <4> QED
        BY <1>1, <1>8, <3>2, <4>1 DEF IInv, CapacityInv, Alone, Under, Moves
    <3> QED
      BY <3>1, <3>2
  <2>12. /\ Said = told
         /\ Said' = told \union (IF main.kind # "capacity" THEN {Resource(main.kind, main.id)} ELSE {})
    BY <1>1, <1>8 DEF Said, Moves
  <2>13. SaidInv'
    <3>1. main.kind # "capacity" => Resource(main.kind, main.id) \in Cpus \union Lmbs
      BY <2>4, ResourceKnown DEF Kinds
    <3>2. \A k \in kids' : k.kind # "capacity" => Resource(k.kind, k.id) \in Said'
      BY <2>2, <2>3, <2>12 DEF IInv, SaidInv
    <3> QED
      BY <1>1, <1>8, <2>12, <3>1, <3>2 DEF IInv, SaidInv
  <2>14. DoneInv'
    <3> SUFFICES ASSUME ~faulty'
                 PROVE  DoneInv'
      BY DEF DoneInv
    <3>1. ~faulty /\ DoneInv
      BY <1>8 DEF IInv
    <3>2. \A r : Gone(r)' = Gone(r)
      BY <1>1 DEF Gone
    <3>3. \A k, r : Takes(k, r)' = Takes(k, r)
      BY DEF Takes
    <3>4. \A r \in Said' : Gone(r)' \/ \E k \in kids' : Takes(k, r)'
      <4> SUFFICES ASSUME NEW r \in Said'
                   PROVE  Gone(r) \/ \E k \in kids' : Takes(k, r)
        BY <3>2, <3>3
      <4>1. CASE r \in Said
        BY <2>3, <3>1, <4>1 DEF DoneInv
      <4>2. CASE main.kind # "capacity" /\ r = Resource(main.kind, main.id)
        <5>1. CASE main.name = NoName
          BY <1>1, <3>1, <4>2, <5>1 DEF DoneInv
        <5>2. CASE main.name # NoName
          BY <2>2, <2>3, <4>2, <5>2 DEF Takes
        <5> QED
          BY <5>1, <5>2
      <4> QED
        BY <2>12, <4>1, <4>2
    <3>5. own'.job # "converter" /\ main'.at = "tell"
      BY <1>1, <1>8 DEF IInv, JobInv, Moves
    <3> QED
      BY <3>4, <3>5 DEF DoneInv
  <2> QED
    BY <1>2, <1>3, <1>4, <1>5, <1>6, <1>7, <2>7, <2>9, <2>10, <2>11, <2>13, <2>14 DEF IInv
<1>9. CASE faulty' = TRUE /\ UNCHANGED <<own, kids, told, shrunk, crossed, stolen>>
  <2>1. KidsInv'
    BY <1>1, <1>9 DEF IInv, KidsInv
  <2>2. CpuInv'
    BY <1>1, <1>9 DEF IInv, MainInv, CpuInv, Alone, Running, Under, Moves
  <2>3. LmbInv'
    BY <1>1, <1>9 DEF IInv, MainInv, LmbInv, Alone, Running, Under, Moves
  <2>4. CapacityInv'
    BY <1>1, <1>9 DEF IInv, MainInv, CapacityInv, Alone, Running, Under, Moves
  <2>5. SaidInv'
    <3>1. told' = told /\ Said = told
      BY <1>1 DEF Said
    <3>2. Said' = told \union (IF main.kind # "capacity" THEN {Resource(main.kind, main.id)} ELSE {})
      BY <1>1, <3>1 DEF Said, Moves
    <3>3. main.kind \in Kinds /\ IdOf(main.kind, main.id)
      BY <1>1 DEF IInv, MainInv
    <3>4. main.kind # "capacity" => Resource(main.kind, main.id) \in Cpus \union Lmbs
      BY <3>3, ResourceKnown DEF Kinds
    <3> QED
      BY <1>1, <1>9, <3>1, <3>2, <3>4 DEF IInv, SaidInv
  <2>6. DoneInv'
    BY <1>1, <1>9 DEF DoneInv
  <2> QED
    BY <1>2, <1>3, <1>4, <1>5, <1>6, <1>7, <2>1, <2>2, <2>3, <2>4, <2>5, <2>6 DEF IInv
<1> QED
  BY <1>1, <1>8, <1>9

LEMMA TellStep ==
  ASSUME IInv, Tell
  PROVE  IInv'
<1> USE DEF At
<1>1. /\ At("tell") /\ Rests("idle")
      /\ told' = told \union (IF main.kind = "capacity" THEN {} ELSE {Resource(main.kind, main.id)})
      /\ UNCHANGED <<own, kids, catcher, pending>>
      /\ UNCHANGED <<tree, cpus, lmbs, capacity, policy, events>>
      /\ UNCHANGED <<shrunk, crossed, stolen, faulty>>
  BY IdleRests DEF IInv, Tell, part, children
<1>2. PartInv'
  BY <1>1 DEF IInv, PartInv, Kinds
<1>3. MainInv'
  BY <1>1, NothingAsked DEF IInv, MainInv, Rests, Places, Kinds
<1>4. JobInv'
  BY <1>1 DEF IInv, JobInv, Jobs, Rests
<1>5. OwnInv'
  BY <1>1 DEF IInv, OwnInv, JobInv, Jobs, Rests, Ended
<1>6. CatcherInv'
  BY <1>1 DEF IInv, CatcherInv, JobInv, Rests
<1>7. StartInv'
  <2>1. stolen \subseteq stolen' /\ (faulty => faulty')
    BY <1>1
  <2> QED
    BY <1>1, <2>1, StartKept DEF HandlePlaces, Rests
<1>8. KidsInv'
  BY <1>1 DEF IInv, KidsInv
<1>9. CpuInv'
  BY <1>1 DEF IInv, CpuInv, Alone, Running, Under, Rests
<1>10. LmbInv'
  BY <1>1 DEF IInv, LmbInv, Alone, Running, Under, Rests
<1>11. CapacityInv'
  BY <1>1 DEF IInv, CapacityInv, Alone, Running, Under, Rests
<1>12. SaidInv'
  <2>1. Said' = Said
    BY <1>1 DEF Said, Rests
  <2> QED
    BY <1>1, <2>1 DEF IInv, SaidInv
<1>13. DoneInv'
  <2>1. Said' = Said
    BY <1>1 DEF Said, Rests
  <2>2. DoneInv
    BY DEF IInv
  <2>3. \A r : Gone(r)' = Gone(r)
    BY <1>1 DEF Gone
  <2>4. \A k, r : Takes(k, r)' = Takes(k, r)
    BY DEF Takes
  <2> QED
    BY <1>1, <2>1, <2>2, <2>3, <2>4 DEF DoneInv, IInv, OwnInv, CatcherInv, JobInv, Rests, Ended
<1> QED
  BY <1>2, <1>3, <1>4, <1>5, <1>6, <1>7, <1>8, <1>9, <1>10, <1>11, <1>12, <1>13 DEF IInv

LEMMA HandlingStep ==
  ASSUME IInv, Handling
  PROVE  IInv'
  BY StartConverterStep, ConverterFailsStep, ReadNameStep, CheckCpuStep, CheckLmbStep,
     CheckFailsStep, CountFailsStep, ReadEntitlementStep, CountCpusStep, CpusTakenStep,
     SpawnStep, TellStep DEF Handling

(* The children end, and are reaped.                                       *)
LEMMA NamedOne ==
  ASSUME PartInv, NEW kind, NEW id, NEW name,
         kind \in {"cpu", "lmb"}, IdOf(kind, id), Calls(tree, kind, id, name)
  PROVE  Named(kind, name) = IF name = NoName THEN {} ELSE {Resource(kind, id)}
<1>1. NamedIn(tree, kind, name) = Named(kind, name)
  BY DEF NamedIn, Named
<1>2. CASE name # NoName
  BY <1>1, <1>2 DEF Calls
<1>3. CASE name = NoName
  <2>1. tree \in Trees
    BY DEF PartInv
  <2>2. /\ Describes(tree.cpu, DrcType("cpu"), Cpus)
        /\ Describes(tree.mem, DrcType("lmb"), Lmbs)
    BY <2>1, ResourcesAssumption
  <2>3. /\ \A e \in Elements(tree.cpu, DrcType("cpu")) : e.name # NoName
        /\ \A e \in Elements(tree.mem, DrcType("lmb")) : e.name # NoName
    BY <2>2, NoNameMissing
  <2> QED
    BY <1>3, <2>3 DEF Named
<1> QED
  BY <1>2, <1>3

LEMMA CpusFinite ==
  ASSUME PartInv
  PROVE  IsFiniteSet(cpus) /\ Cardinality(cpus) \in Nat /\ IsFiniteSet(lmbs) /\ Cardinality(lmbs) \in Nat
  BY ResourcesAssumption, FS_Subset, FS_CardinalityType DEF PartInv

(* Taking one of a set takes one from its size, at most.                   *)
LEMMA OneLess ==
  ASSUME NEW S, IsFiniteSet(S), NEW x
  PROVE  Cardinality(S \ {x}) \in Nat /\ Cardinality(S \ {x}) >= Cardinality(S) - 1
<1>1. CASE x \in S
  BY <1>1, FS_RemoveElement, FS_CardinalityType
<1>2. CASE x \notin S
  <2>1. S \ {x} = S
    BY <1>2
  <2>2. Cardinality(S) \in Nat
    BY FS_CardinalityType
  <2> QED
    BY <2>1, <2>2
<1> QED
  BY <1>1, <1>2

LEMMA OwnEndsStep ==
  ASSUME IInv, OwnEnds
  PROVE  IInv'
<1> USE DEF At
<1>1. /\ own.state = "running"
      /\ UNCHANGED <<tree, lmbs, capacity, main, kids, catcher, policy, events>>
      /\ UNCHANGED <<told, crossed, stolen>>
      /\ pending' \in BOOLEAN
  <2>1. pending \in BOOLEAN
    BY DEF IInv, CatcherInv
  <2> QED
    BY <2>1 DEF OwnEnds, Raise
<1>2. PICK out \in Outcomes(own.job) :
        /\ out = "printed" => Names(main.kind, main.id) # {}
        /\ own' = [own EXCEPT !.state = "zombie", !.out = out,
                    !.name = IF out = "printed" THEN CHOOSE n \in Names(main.kind, main.id) : TRUE ELSE @]
        /\ faulty' = (faulty \/ out \in {"not_executed", "too_long"}
                       \/ (out = "nothing" /\ Names(main.kind, main.id) # {}))
  BY DEF OwnEnds
<1>3. /\ own' = [f \in OwnFields |-> own'[f]]
      /\ own'.job = own.job /\ own'.state = "zombie" /\ own'.out = out
      /\ own'.name = IF out = "printed" THEN CHOOSE n \in Names(main.kind, main.id) : TRUE ELSE own.name
  BY <1>2 DEF IInv, OwnInv, OwnFields
<1>4. PICK gone : cpus' = cpus \ gone /\ shrunk' = shrunk \union gone /\ (own.job # "shrink" => gone = {})
  <2>1. CASE own.job = "shrink"
    BY <2>1 DEF OwnEnds
  <2>2. CASE own.job # "shrink"
    <3>1. cpus' = cpus \ {} /\ shrunk' = shrunk \union {}
      BY <2>2 DEF OwnEnds
    <3> QED
      BY <3>1
  <2> QED
    BY <2>1, <2>2
<1>5. /\ out = "printed" => At("naming") /\ own'.name \in Names(main.kind, main.id)
      /\ out # "printed" => own'.name = NoName
  <2>1. out = "printed" => own.job = "converter"
    BY <1>2 DEF Outcomes
  <2>2. own.name = NoName
    BY <1>1 DEF IInv, OwnInv
  <2> QED
    BY <1>2, <1>3, <2>1, <2>2 DEF IInv, JobInv
<1>6. At("naming") =>
        /\ main.kind \in {"cpu", "lmb"}
        /\ \A n \in Names(main.kind, main.id) :
             n # NoName /\ Named(main.kind, n) = {Resource(main.kind, main.id)}
        /\ Names(main.kind, main.id) = {} =>
             main.kind = "cpu" /\ Resource(main.kind, main.id) \notin cpus
  <2>1. SUFFICES ASSUME At("naming")
                 PROVE  /\ main.kind \in {"cpu", "lmb"}
                        /\ \A n \in Names(main.kind, main.id) :
                             n # NoName /\ Named(main.kind, n) = {Resource(main.kind, main.id)}
                        /\ Names(main.kind, main.id) = {} =>
                             main.kind = "cpu" /\ Resource(main.kind, main.id) \notin cpus
    OBVIOUS
  <2>2. main.kind \in {"cpu", "lmb"} /\ IdOf(main.kind, main.id) /\ tree \in Trees /\ cpus \subseteq Cpus
    BY <2>1 DEF IInv, MainInv, PartInv
  <2> QED
    BY <2>2, NamesRight
<1>7. faulty => faulty'
  BY <1>2
<1>8. PartInv'
  BY <1>1, <1>4 DEF IInv, PartInv
<1>9. MainInv'
  BY <1>1 DEF IInv, MainInv
<1>10. JobInv'
  BY <1>1, <1>3 DEF IInv, JobInv
<1>11. OwnInv'
  <2>1. out = "printed" => own'.name # NoName /\ Calls(tree, main.kind, main.id, own'.name)
    <3>1. SUFFICES ASSUME out = "printed"
                   PROVE  own'.name # NoName /\ Calls(tree, main.kind, main.id, own'.name)
      OBVIOUS
    <3>2. /\ own'.name # NoName /\ Named(main.kind, own'.name) = {Resource(main.kind, main.id)}
          /\ main.kind \in {"cpu", "lmb"}
      BY <1>5, <1>6, <3>1
    <3>3. NamedIn(tree, main.kind, own'.name) = Named(main.kind, own'.name)
      BY DEF NamedIn, Named
    <3> QED
      BY <3>2, <3>3 DEF Calls
  <2>2. out \in {"not_executed", "too_long"} => faulty'
    BY <1>2
  <2>3. own.job # "none"
    BY <1>1 DEF IInv, OwnInv
  <2> QED
    BY <1>1, <1>2, <1>3, <1>5, <2>1, <2>2, <2>3 DEF OwnInv, Ended
<1>12. CatcherInv'
  BY <1>1, <1>3 DEF IInv, CatcherInv
<1>13. StartInv'
  BY <1>1, <1>7 DEF IInv, StartInv
<1>14. KidsInv'
  BY <1>1 DEF IInv, KidsInv
<1>15. CpuInv'
  <2>1. shrunk' = {} => shrunk = {} /\ cpus' = cpus
    BY <1>4
  <2> QED
    BY <1>1, <2>1 DEF IInv, CpuInv, Alone, Running, Under
<1>16. LmbInv'
  BY <1>1 DEF IInv, LmbInv, Alone, Running, Under
<1>17. CapacityInv'
  BY <1>1 DEF IInv, CapacityInv, Alone, Running, Under
<1>18. Said' = Said
  BY <1>1 DEF Said
<1>19. SaidInv'
  BY <1>1, <1>4, <1>18 DEF IInv, SaidInv
<1>20. DoneInv'
  <2> SUFFICES ASSUME ~faulty'
               PROVE  DoneInv'
    BY DEF DoneInv
  <2>1. ~faulty /\ DoneInv
    BY <1>7 DEF IInv
  <2>2. \A r : Gone(r) => Gone(r)'
    BY <1>1, <1>4 DEF Gone
  <2>3. \A k, r : Takes(k, r)' = Takes(k, r)
    BY DEF Takes
  <2>4. own.job = "converter" /\ out # "printed" => Gone(Resource(main.kind, main.id))'
    <3> SUFFICES ASSUME own.job = "converter", out # "printed"
                 PROVE  Gone(Resource(main.kind, main.id))'
      OBVIOUS
    <3>1. Names(main.kind, main.id) = {}
      BY <1>2 DEF Outcomes
    <3>2. main.kind = "cpu" /\ Resource(main.kind, main.id) \notin cpus /\ IdOf(main.kind, main.id)
      BY <1>6, <3>1 DEF IInv, JobInv, MainInv
    <3>3. Resource(main.kind, main.id) \in Cpus
      BY <3>2, ResourceKnown
    <3>4. Resource(main.kind, main.id) \notin lmbs
      BY <3>3, ResourcesAssumption DEF IInv, PartInv
    <3>5. Gone(Resource(main.kind, main.id))
      BY <3>2, <3>4 DEF Gone
    <3>6. Resource(main.kind, main.id)' = Resource(main.kind, main.id)
      BY <1>1 DEF Resource
    <3> QED
      BY <1>1, <1>4, <3>5, <3>6 DEF Gone
  <2>5. Resource(main.kind, main.id)' = Resource(main.kind, main.id)
    BY <1>1 DEF Resource
  <2>6. main.at \in {"check", "spawn"} /\ main.kind # "capacity" /\ main.name = NoName =>
          Gone(Resource(main.kind, main.id))'
    BY <1>1, <2>1, <2>2, <2>5 DEF DoneInv
  <2>7. \A r \in Said' : Gone(r)' \/ \E k \in kids' : Takes(k, r)'
    BY <1>1, <1>18, <2>1, <2>2, <2>3 DEF DoneInv
  <2> QED
    BY <1>1, <1>3, <2>4, <2>6, <2>7 DEF DoneInv
<1> QED
  BY <1>8, <1>9, <1>10, <1>11, <1>12, <1>13, <1>14, <1>15, <1>16, <1>17, <1>19, <1>20 DEF IInv

LEMMA KidEndsStep ==
  ASSUME IInv, NEW k \in kids, KidEnds(k)
  PROVE  IInv'
<1> USE DEF At
<1>1. /\ k.state = "running"
      /\ UNCHANGED <<tree, main, own, catcher, policy, events, told, shrunk, crossed, stolen>>
      /\ pending' \in BOOLEAN
  <2>1. pending \in BOOLEAN
    BY DEF IInv, CatcherInv
  <2> QED
    BY <2>1 DEF KidEnds, Raise, part
<1>2. /\ k = [f \in KidFields |-> k[f]]
      /\ k.kind \in Kinds /\ IdOf(k.kind, k.id) /\ Calls(tree, k.kind, k.id, k.name)
  BY DEF IInv, KidsInv
<1>3. PICK z : z = [k EXCEPT !.state = "zombie"]
  OBVIOUS
<1>4. /\ z = [f \in KidFields |-> z[f]]
      /\ z.kind = k.kind /\ z.id = k.id /\ z.name = k.name /\ z.state = "zombie"
  BY <1>2, <1>3 DEF KidFields
<1>5. kids' = (kids \ {k}) \union {z}
  BY <1>3 DEF KidEnds
<1>6. \/ /\ cpus' = (IF k.kind = "cpu" THEN cpus \ Named("cpu", k.name) ELSE cpus)
         /\ lmbs' = (IF k.kind = "lmb" THEN lmbs \ Named("lmb", k.name) ELSE lmbs)
         /\ capacity' = (IF k.kind = "capacity" THEN capacity - k.id ELSE capacity)
         /\ faulty' = faulty
      \/ UNCHANGED <<cpus, lmbs, capacity>> /\ faulty' = TRUE
  BY DEF KidEnds, part
<1>7. k.kind \in {"cpu", "lmb"} =>
        Named(k.kind, k.name) = IF k.name = NoName THEN {} ELSE {Resource(k.kind, k.id)}
  BY <1>2, NamedOne DEF IInv
<1>8. k.kind = "capacity" => k.id \in Nat
  BY <1>2 DEF IdOf
<1>9. capacity \in Int /\ MinCapacity \in Nat
  BY AmountsAssumption DEF IInv, PartInv
<1>10. \A kind : Running(kind)' = Running(kind) \ {k}
  BY <1>1, <1>4, <1>5 DEF Running
<1>11. k \in Running(k.kind)
  BY <1>1 DEF Running
<1>12. \A kind : kind # k.kind => Running(kind)' = Running(kind)
  BY <1>10 DEF Running
<1>13. \A kind : Alone(kind) => Alone(kind)'
  BY <1>10 DEF Alone
<1>14. cpus' \subseteq cpus /\ lmbs' \subseteq lmbs /\ (faulty => faulty')
  BY <1>6
<1>15. PartInv'
  <2>1. capacity' \in Int
    BY <1>6, <1>8, <1>9
  <2> QED
    BY <1>1, <1>14, <2>1 DEF IInv, PartInv
<1>16. MainInv'
  BY <1>1 DEF IInv, MainInv
<1>17. JobInv'
  BY <1>1 DEF IInv, JobInv
<1>18. OwnInv'
  BY <1>1, <1>14 DEF IInv, OwnInv
<1>19. CatcherInv'
  BY <1>1 DEF IInv, CatcherInv
<1>20. StartInv'
  BY <1>1, <1>14 DEF IInv, StartInv
<1>21. KidsInv'
  <2> SUFFICES ASSUME NEW l \in kids'
               PROVE  /\ l = [f \in KidFields |-> l[f]]
                      /\ l.kind \in Kinds /\ l.state \in {"running", "zombie"}
                      /\ IdOf(l.kind, l.id) /\ Calls(tree', l.kind, l.id, l.name)
    BY DEF KidsInv
  <2>1. CASE l \in kids
    BY <1>1, <2>1 DEF IInv, KidsInv
  <2>2. CASE l = z
    BY <1>1, <1>2, <1>4, <2>2
  <2> QED
    BY <1>5, <2>1, <2>2
<1>22. CpuInv'
  <2>1. CASE k.kind # "cpu"
    <3>1. cpus' = cpus /\ Running("cpu")' = Running("cpu")
      BY <1>6, <1>12, <2>1
    <3> QED
      BY <1>1, <1>13, <3>1 DEF IInv, CpuInv, Under
  <2>2. CASE k.kind = "cpu"
    <3>1. cpus' = cpus \/ \E r : cpus' = cpus \ {r}
      BY <1>6, <1>7, <2>2
    <3>2. /\ Cardinality(cpus) \in Nat /\ Cardinality(cpus') \in Nat
          /\ Cardinality(cpus') >= Cardinality(cpus) - 1
      <4>1. IsFiniteSet(cpus) /\ Cardinality(cpus) \in Nat
        BY CpusFinite DEF IInv
      <4>2. CASE cpus' = cpus
        BY <4>1, <4>2
      <4>3. CASE \E r : cpus' = cpus \ {r}
        <5>1. PICK r : cpus' = cpus \ {r}
          BY <4>3
        <5> QED
          BY <4>1, <5>1, OneLess
      <4> QED
        BY <3>1, <4>2, <4>3
    <3>3. MinProcessors \in Nat
      BY AmountsAssumption
    <3>4. Cardinality(cpus) > MinProcessors => Cardinality(cpus') >= MinProcessors
      BY <3>2, <3>3
    <3>5. "cpu" \notin crossed => Running("cpu") = {k}
      BY <1>11, <2>2 DEF IInv, CpuInv, Alone
    <3>6. "cpu" \notin crossed => Running("cpu")' = {} /\ ~Under("cpu", {"spawn"}) /\ Alone("cpu")
      BY <1>10, <3>5 DEF IInv, CpuInv
    <3>7. "cpu" \notin crossed /\ shrunk = {} => Cardinality(cpus') >= MinProcessors
      BY <3>4, <3>5 DEF IInv, CpuInv
    <3>8. Under("cpu", {"spawn"})' = Under("cpu", {"spawn"})
      BY <1>1 DEF Under
    <3> QED
      BY <1>1, <1>13, <3>6, <3>7, <3>8 DEF CpuInv
  <2> QED
    BY <2>1, <2>2
<1>23. LmbInv'
  <2>1. CASE k.kind # "lmb"
    <3>1. lmbs' = lmbs /\ Running("lmb")' = Running("lmb")
      BY <1>6, <1>12, <2>1
    <3> QED
      BY <1>1, <1>13, <3>1 DEF IInv, LmbInv, Under
  <2>2. CASE k.kind = "lmb"
    <3>1. lmbs' = lmbs \/ \E r : lmbs' = lmbs \ {r}
      BY <1>6, <1>7, <2>2
    <3>2. Cardinality(lmbs) >= 2 => lmbs' # {}
      <4>1. IsFiniteSet(lmbs) /\ Cardinality(lmbs) \in Nat
        BY CpusFinite DEF IInv
      <4>2. Cardinality({}) = 0
        BY FS_EmptySet
      <4>3. CASE lmbs' = lmbs
        BY <4>2, <4>3
      <4>4. CASE \E r : lmbs' = lmbs \ {r}
        <5>1. PICK r : lmbs' = lmbs \ {r}
          BY <4>4
        <5>2. Cardinality(lmbs') \in Nat /\ Cardinality(lmbs') >= Cardinality(lmbs) - 1
          BY <4>1, <5>1, OneLess
        <5> QED
          BY <4>1, <4>2, <5>2
      <4> QED
        BY <3>1, <4>3, <4>4
    <3>3. "lmb" \notin crossed => Running("lmb") = {k}
      BY <1>11, <2>2 DEF IInv, LmbInv, Alone
    <3>4. "lmb" \notin crossed =>
            Running("lmb")' = {} /\ ~Under("lmb", {"name", "naming", "spawn"}) /\ Alone("lmb")
      BY <1>10, <3>3 DEF IInv, LmbInv
    <3>5. "lmb" \notin crossed => lmbs' # {}
      BY <3>2, <3>3 DEF IInv, LmbInv
    <3>6. Under("lmb", {"name", "naming", "spawn"})' = Under("lmb", {"name", "naming", "spawn"})
      BY <1>1 DEF Under
    <3> QED
      BY <1>1, <1>13, <3>4, <3>5, <3>6 DEF LmbInv
  <2> QED
    BY <2>1, <2>2
<1>24. CapacityInv'
  <2>1. CASE k.kind # "capacity"
    <3>1. capacity' = capacity /\ Running("capacity")' = Running("capacity")
      BY <1>6, <1>12, <2>1
    <3> QED
      BY <1>1, <1>13, <3>1 DEF IInv, CapacityInv, Under
  <2>2. CASE k.kind = "capacity"
    <3>1. "capacity" \notin crossed => Running("capacity") = {k}
      BY <1>11, <2>2 DEF IInv, CapacityInv, Alone
    <3>2. "capacity" \notin crossed =>
            /\ Running("capacity")' = {} /\ Alone("capacity")
            /\ ~Under("capacity", {"count", "shrinking", "spawn"})
      BY <1>10, <3>1 DEF IInv, CapacityInv
    <3>3. "capacity" \notin crossed => capacity >= MinCapacity /\ capacity - k.id >= MinCapacity
      BY <3>1 DEF IInv, CapacityInv
    <3>4. "capacity" \notin crossed => capacity' >= MinCapacity
      BY <1>6, <2>2, <3>3
    <3>5. /\ Under("capacity", {"count", "shrinking", "spawn"})' =
               Under("capacity", {"count", "shrinking", "spawn"})
          /\ Under("capacity", {"shrinking", "spawn"})' = Under("capacity", {"shrinking", "spawn"})
      BY <1>1 DEF Under
    <3>6. Under("capacity", {"shrinking", "spawn"}) => Under("capacity", {"count", "shrinking", "spawn"})
      BY DEF Under
    <3>7. At("count") => Under("capacity", {"count", "shrinking", "spawn"})
      BY DEF Under, IInv, MainInv
    <3> QED
      BY <1>1, <1>13, <3>2, <3>4, <3>5, <3>6, <3>7 DEF CapacityInv
  <2> QED
    BY <2>1, <2>2
<1>25. Said' = Said
  BY <1>1 DEF Said
<1>26. SaidInv'
  <2>1. k.kind # "capacity" => Resource(k.kind, k.id) \in Said
    BY DEF IInv, SaidInv
  <2>2. \A l \in kids' : l.kind # "capacity" => Resource(l.kind, l.id) \in Said
    BY <1>4, <1>5, <2>1 DEF IInv, SaidInv
  <2>3. cpus \ cpus' \subseteq Said /\ lmbs \ lmbs' \subseteq Said
    BY <1>6, <1>7, <2>1
  <2> QED
    BY <1>1, <1>25, <2>2, <2>3 DEF IInv, SaidInv
<1>27. DoneInv'
  <2> SUFFICES ASSUME ~faulty'
               PROVE  DoneInv'
    BY DEF DoneInv
  <2>1. ~faulty /\ DoneInv
    BY <1>14 DEF IInv
  <2>2. \A r : Gone(r) => Gone(r)'
    BY <1>14 DEF Gone
  <2>3. \A l, r : Takes(l, r)' = Takes(l, r)
    BY DEF Takes
  <2>4. \A r : Takes(k, r) => Gone(r)'
    <3> SUFFICES ASSUME NEW r, Takes(k, r)
                 PROVE  Gone(r)'
      OBVIOUS
    <3>1. k.kind \in {"cpu", "lmb"} /\ k.name # NoName /\ Resource(k.kind, k.id) = r
      BY <1>2 DEF Takes, Kinds
    <3>2. Named(k.kind, k.name) = {r}
      BY <1>7, <3>1
    <3>3. /\ cpus' = (IF k.kind = "cpu" THEN cpus \ Named("cpu", k.name) ELSE cpus)
          /\ lmbs' = (IF k.kind = "lmb" THEN lmbs \ Named("lmb", k.name) ELSE lmbs)
      BY <1>6
    <3>4. k.kind = "cpu" => r \in Cpus
      BY <1>2, <3>1, ResourceKnown
    <3>5. k.kind = "lmb" => r \in Lmbs
      BY <1>2, <3>1, ResourceKnown
    <3>6. Cpus \cap Lmbs = {} /\ cpus \subseteq Cpus /\ lmbs \subseteq Lmbs
      BY ResourcesAssumption DEF IInv, PartInv
    <3>7. r \notin cpus' /\ r \notin lmbs'
      BY <3>1, <3>2, <3>3, <3>4, <3>5, <3>6
    <3> QED
      BY <3>7 DEF Gone
  <2>5. \A r \in Said' : Gone(r)' \/ \E l \in kids' : Takes(l, r)'
    <3> SUFFICES ASSUME NEW r \in Said
                 PROVE  Gone(r)' \/ \E l \in kids' : Takes(l, r)
      BY <1>25, <2>3
    <3>1. Gone(r) \/ \E l \in kids : Takes(l, r)
      BY <2>1 DEF DoneInv
    <3> QED
      BY <1>5, <2>2, <2>4, <3>1
  <2>6. Resource(main.kind, main.id)' = Resource(main.kind, main.id)
    BY <1>1 DEF Resource
  <2>7. main' = main /\ own' = own
    BY <1>1
  <2> QED
    BY <2>1, <2>2, <2>5, <2>6, <2>7 DEF DoneInv
<1> QED
  BY <1>15, <1>16, <1>17, <1>18, <1>19, <1>20, <1>21, <1>22, <1>23, <1>24, <1>26, <1>27 DEF IInv

LEMMA ReapStep ==
  ASSUME IInv, sigchld_handler
  PROVE  IInv'
<1> USE DEF At
<1>1. /\ UNCHANGED <<tree, cpus, lmbs, capacity, main, catcher, policy, events>>
      /\ UNCHANGED <<told, shrunk, crossed, stolen, faulty>>
      /\ pending' = FALSE /\ catcher = "reap"
      /\ kids' = {k \in kids : k.state = "running"}
  BY DEF sigchld_handler, part, history
<1>2. /\ own' = [f \in OwnFields |-> own'[f]]
      /\ own'.job = own.job /\ own'.out = own.out /\ own'.name = own.name
      /\ own'.state = IF own.state = "zombie" THEN "reaped" ELSE own.state
  BY DEF sigchld_handler, IInv, OwnInv, OwnFields
<1>3. \A kind : Running(kind)' = Running(kind)
  BY <1>1 DEF Running
<1>4. PartInv'
  BY <1>1 DEF IInv, PartInv
<1>5. MainInv'
  BY <1>1 DEF IInv, MainInv
<1>6. JobInv'
  BY <1>1, <1>2 DEF IInv, JobInv
<1>7. OwnInv'
  BY <1>1, <1>2 DEF IInv, OwnInv, Ended
<1>8. CatcherInv'
  BY <1>1, <1>2 DEF IInv, CatcherInv, JobInv
<1>9. StartInv'
  BY <1>1 DEF IInv, StartInv
<1>10. KidsInv'
  BY <1>1 DEF IInv, KidsInv
<1>11. CpuInv'
  <2>1. Running("cpu")' = Running("cpu")
    BY <1>3
  <2> QED
    BY <1>1, <2>1 DEF IInv, CpuInv, Alone, Under
<1>12. LmbInv'
  <2>1. Running("lmb")' = Running("lmb")
    BY <1>3
  <2> QED
    BY <1>1, <2>1 DEF IInv, LmbInv, Alone, Under
<1>13. CapacityInv'
  <2>1. Running("capacity")' = Running("capacity")
    BY <1>3
  <2> QED
    BY <1>1, <2>1 DEF IInv, CapacityInv, Alone, Under
<1>14. Said' = Said
  BY <1>1 DEF Said
<1>15. SaidInv'
  BY <1>1, <1>14 DEF IInv, SaidInv
<1>16. DoneInv'
  <2>1. DoneInv
    BY DEF IInv
  <2>2. \A r : Gone(r)' = Gone(r)
    BY <1>1 DEF Gone
  <2>3. \A k, r : Takes(k, r)' = Takes(k, r) /\ (Takes(k, r) => k.state = "running")
    BY DEF Takes
  <2>4. \A r : (\E k \in kids : Takes(k, r)) => \E k \in kids' : Takes(k, r)'
    BY <1>1, <2>3
  <2>5. own'.state = "zombie" => own.state = "zombie"
    BY <1>2
  <2> QED
    BY <1>1, <1>2, <1>14, <2>1, <2>2, <2>4, <2>5 DEF DoneInv
<1> QED
  BY <1>4, <1>5, <1>6, <1>7, <1>8, <1>9, <1>10, <1>11, <1>12, <1>13, <1>15, <1>16 DEF IInv

-----------------------------------------------------------------------------
(* The invariant holds in every state.                                     *)
Begins ==
  /\ main = [f \in MainFields |-> main[f]]
  /\ main.at = "policy" /\ main.kind = "none" /\ main.id = 0 /\ main.name = NoName /\ main.value = 0

LEMMA GuardInit ==
  ASSUME Init
  PROVE  IInv
<1> USE DEF At
<1>1. Begins
  BY DEF Init, Idle, MainFields, Begins
<1>2. /\ own = [f \in OwnFields |-> own[f]]
      /\ own.job = "none" /\ own.state = "none" /\ own.out = "none" /\ own.name = NoName
  BY DEF Init, NoChild, OwnFields
<1>3. /\ tree \in Trees /\ cpus = Cpus /\ lmbs = Lmbs /\ capacity = Capacity
      /\ kids = {} /\ catcher = "reap" /\ pending = FALSE
      /\ policy = "requested" /\ events = 0
      /\ told = {} /\ shrunk = {} /\ crossed = {} /\ stolen = {} /\ faulty = FALSE
  BY DEF Init
<1>4. MaxEvents \in Nat /\ Capacity \in Nat /\ MinCapacity \in Nat /\ Capacity >= MinCapacity
  BY AmountsAssumption
<1>5. \A kind : Running(kind) = {}
  BY <1>3 DEF Running
<1>6. PartInv
  <2>1. 0 \in 0..MaxEvents
    BY <1>4
  <2> QED
    BY <1>3, <1>4, <2>1 DEF PartInv
<1>7. MainInv
  BY <1>1, NothingAsked DEF Begins, MainInv, Places, Kinds
<1>8. JobInv
  BY <1>1, <1>2 DEF Begins, JobInv, Jobs
<1>9. OwnInv
  BY <1>2 DEF OwnInv, Ended
<1>10. CatcherInv
  BY <1>1, <1>2, <1>3 DEF Begins, CatcherInv
<1>11. StartInv
  BY <1>1, <1>3 DEF Begins, StartInv
<1>12. KidsInv
  BY <1>3 DEF KidsInv
<1>13. CpuInv
  <2>1. Cardinality(Cpus) >= MinProcessors
    <3>1. Cardinality(Cpus) \in Nat
      BY ResourcesAssumption, FS_CardinalityType
    <3>2. MinProcessors \in 1..Cardinality(Cpus)
      BY AmountsAssumption
    <3> QED
      BY <3>1, <3>2
  <2> QED
    BY <1>1, <1>3, <1>5, <2>1 DEF Begins, CpuInv, Alone, Under
<1>14. LmbInv
  BY <1>1, <1>3, <1>5, ResourcesAssumption DEF Begins, LmbInv, Alone, Under
<1>15. CapacityInv
  BY <1>1, <1>3, <1>4, <1>5 DEF Begins, CapacityInv, Alone, Under
<1>16. Said = {}
  BY <1>1, <1>3 DEF Said, Begins
<1>17. SaidInv
  BY <1>3, <1>16 DEF SaidInv
<1>18. DoneInv
  BY <1>1, <1>2, <1>16 DEF Begins, DoneInv
<1> QED
  BY <1>6, <1>7, <1>8, <1>9, <1>10, <1>11, <1>12, <1>13, <1>14, <1>15, <1>17, <1>18 DEF IInv

LEMMA GuardStutter ==
  ASSUME IInv, UNCHANGED vars
  PROVE  IInv'
<1>1. /\ UNCHANGED <<tree, cpus, lmbs, capacity, main, own, kids, catcher, pending>>
      /\ UNCHANGED <<policy, events, told, shrunk, crossed, stolen, faulty>>
  BY DEF vars, part, children, history
<1>2. PartInv' /\ MainInv' /\ JobInv' /\ OwnInv' /\ CatcherInv' /\ StartInv' /\ KidsInv'
  BY <1>1 DEF IInv, PartInv, MainInv, JobInv, OwnInv, CatcherInv, StartInv, KidsInv, At
<1>3. CpuInv' /\ LmbInv' /\ CapacityInv'
  BY <1>1 DEF IInv, CpuInv, LmbInv, CapacityInv, Running, Alone, Under, At
<1>4. SaidInv'
  BY <1>1 DEF IInv, SaidInv, Said, At
<1>5. DoneInv'
  BY <1>1 DEF IInv, DoneInv, Said, Gone, Takes, At
<1> QED
  BY <1>2, <1>3, <1>4, <1>5 DEF IInv

LEMMA GuardStep ==
  ASSUME IInv, [Next]_vars
  PROVE  IInv'
<1>1. CASE Startup
  BY <1>1, StartupSteps
<1>2. CASE Request
  BY <1>2, RequestStep
<1>3. CASE Handling
  BY <1>3, HandlingStep
<1>4. CASE Environment
  BY <1>4, OwnEndsStep, KidEndsStep, ReapStep DEF Environment
<1>5. CASE UNCHANGED vars
  BY <1>5, GuardStutter
<1> QED
  BY <1>1, <1>2, <1>3, <1>4, <1>5 DEF Next

(* The inductive invariant holds in every state: the daemon, the child it  *)
(* waits for and the drmgr processes it does not wait for stay together    *)
(* (config.c, guard.c, signal.c).                                          *)
THEOREM GuardInvariant == Spec => []IInv
<1>1. Init => IInv
  BY GuardInit
<1>2. IInv /\ [Next]_vars => IInv'
  BY GuardStep
<1> QED
  BY <1>1, <1>2, PTL DEF Spec

(* However many requests arrive, the partition keeps its minimum of        *)
(* processors, a memory block and its minimum of capacity, unless a        *)
(* request was checked while the drmgr of an earlier one was still running *)
(* or processors were taken by number (guard_cpu, guard_memlmb,            *)
(* guard_spcpu).                                                           *)
THEOREM GuardKeepsMinimum == Spec => []MinimumKept
<1>1. IInv => MinimumKept
  BY DEF IInv, CpuInv, LmbInv, CapacityInv, MinimumKept
<1> QED
  BY <1>1, GuardInvariant, PTL

(* Once all children have ended and nothing has failed, what the log says  *)
(* is offlined is what has been taken by name (run_drmgr and what the      *)
(* guard functions add to the event).                                      *)
THEOREM GuardAnnounces == Spec => []AnnouncedAndDone
<1>1. IInv => AnnouncedAndDone
  <2> SUFFICES ASSUME IInv, At("idle"), ~(\E k \in kids : k.state = "running"), ~faulty
               PROVE  /\ (Cpus \ cpus) \union (Lmbs \ lmbs) \subseteq told \union shrunk
                      /\ told \subseteq (Cpus \ cpus) \union (Lmbs \ lmbs)
    BY DEF AnnouncedAndDone
  <2>1. Said = told
    BY DEF Said, At
  <2>2. \A r \in told : Gone(r)
    BY <2>1 DEF IInv, DoneInv, Takes
  <2> QED
    BY <2>1, <2>2 DEF IInv, SaidInv, Gone
<1> QED
  BY <1>1, GuardInvariant, PTL

(* The name with which a processor or a block is taken is that of the one  *)
(* the event was about, and converting it back never gives another         *)
(* processor (retrieve_drc_name, convert_dt_node_props).                   *)
THEOREM GuardNamesRightResource == Spec => []RightResource
<1>1. IInv => RightResource
  <2> SUFFICES ASSUME IInv, NEW k \in kids, k.kind # "capacity", k.name # NoName
               PROVE  /\ Named(k.kind, k.name) = {Resource(k.kind, k.id)}
                      /\ k.kind = "cpu" =>
                           /\ Convert(DeviceTree, "cpu", "drc-name", "drc-index", k.name).printed
                                \subseteq {Resource(k.kind, k.id)}
                           /\ tree.big =>
                                Convert(DeviceTree, "cpu", "drc-name", "interrupt-server", k.name).printed
                                  \subseteq {ServersOf[Resource(k.kind, k.id)]}
    BY DEF RightResource
  <2>1. k.kind \in {"cpu", "lmb"} /\ IdOf(k.kind, k.id) /\ Calls(tree, k.kind, k.id, k.name)
    BY DEF IInv, KidsInv, Kinds
  <2>2. Named(k.kind, k.name) = {Resource(k.kind, k.id)}
    BY <2>1, NamedOne DEF IInv
  <2>3. k.kind = "cpu" => Resource(k.kind, k.id) \in Cpus
    BY <2>1, ResourceKnown
  <2>4. tree \in Trees /\ cpus \subseteq Cpus
    BY DEF IInv, PartInv
  <2> QED
    BY <2>2, <2>3, <2>4, BackRight
<1> QED
  BY <1>1, GuardInvariant, PTL

(* Every variable keeps its type, sigchld_handler never takes the exit of  *)
(* the converter, and only a failure or a reaped child keeps the restart   *)
(* policy from being set                                                   *)
(* (restore_sigchld_default, config_restart_policy).                       *)
THEOREM GuardHearsChildren == Spec => []ChildrenHeard
<1>1. IInv => ChildrenHeard
  <2> SUFFICES ASSUME IInv
               PROVE  ChildrenHeard
    OBVIOUS
  <2>1. TypeOK
    BY DEF IInv, PartInv, JobInv, CatcherInv, StartInv, TypeOK, Kinds, Jobs, At
  <2>2. NamesNotStolen
    BY DEF IInv, CatcherInv, NamesNotStolen
  <2>3. PolicySet
    BY DEF IInv, StartInv, PolicySet, At
  <2> QED
    BY <2>1, <2>2, <2>3 DEF ChildrenHeard
<1> QED
  BY <1>1, GuardInvariant, PTL

-----------------------------------------------------------------------------
(* Platform dumps.                                                         *)

AnyCell == [dump : Dumps \union {"hole"}, piece : 0..Pieces, whole : BOOLEAN]
ExPlaces  == {"idle", "first", "create", "write", "fetch", "release", "print"}
AnyRun  == [at : ExPlaces, dump : Dumps \union {"none"}, piece : 0..Pieces, offset : 0..Pieces]

Sets ==
  /\ firmware \subseteq arrived /\ announced \subseteq arrived /\ arrived \subseteq Dumps
  /\ available \subseteq Dumps /\ manual \in 0..MaxManual
Cells == files \in [FileNames -> Seq(AnyCell)]

(* How far an extraction r is, by its place.                               *)
Advanced(r) ==
  /\ r \in AnyRun
  /\ IF r.at = "idle" THEN r = Resting ELSE r.dump \in Dumps
  /\ r.at \in {"first", "create"} => r.offset = 0
  /\ r.at = "create" => r.piece = 1
  /\ r.at = "write" => r.piece \in 1..Pieces /\ r.offset = r.piece - 1
  /\ r.at = "fetch" => r.piece \in 1..(Pieces - 1) /\ r.offset = r.piece
  /\ r.at \in {"release", "print"} => r.piece = Pieces /\ r.offset = Pieces

(* The platform still has what is being extracted.                         *)
StillHeld(r) == r.at \in {"create", "write", "fetch"} => r.dump \in firmware \union shared

(* What an extraction has written so far is there and nothing else, and    *)
(* the other dumps of its name are known not to be.                        *)
Begun(file, d, n) == Len(file) = n /\ \A i \in 1..n : file[i] = Cell(d, i, TRUE)
Growing(r) ==
  r.at \in {"write", "fetch", "release", "print"} =>
    /\ Begun(files[NameOf[r.dump]], r.dump, r.offset) \/ r.dump \in Spoilt
    /\ \A e \in Dumps \ {r.dump} : NameOf[e] = NameOf[r.dump] => e \in Spoilt

Runs ==
  /\ ex \in [Extractors -> AnyRun]
  /\ \A p \in Extractors : Advanced(ex[p]) /\ StillHeld(ex[p]) /\ Growing(ex[p])

(* Two extractions under way to one file know of each other.               *)
Busy(p) == ~ExAt(p, "idle")
Aware ==
  \A p, q \in Extractors :
    p # q /\ Busy(p) /\ Busy(q) /\ Name(p) = Name(q) => ex[p].dump \in shared

Kept == \A d \in arrived \ firmware : Whole(d) \/ d \in Spoilt

DumpInv == Sets /\ Cells /\ Runs /\ Aware /\ Kept

-----------------------------------------------------------------------------
(* A file is whole when the last piece has been written.                   *)
LEMMA BegunWhole ==
  ASSUME NEW file \in Seq(AnyCell), NEW d \in Dumps, Begun(file, d, Pieces)
  PROVE  file = WholeFile(d)
<1>1. DOMAIN file = 1..Pieces /\ file = [i \in 1..Len(file) |-> file[i]]
  BY DEF Begun
<1> QED
  BY <1>1 DEF Begun, WholeFile

LEMMA WrittenCells ==
  ASSUME NEW file \in Seq(AnyCell), NEW offset \in 0..Pieces, NEW cell \in AnyCell
  PROVE  Written(file, offset, cell) \in Seq(AnyCell)
<1> DEFINE n == IF offset >= Len(file) THEN offset + 1 ELSE Len(file)
<1>1. n \in Nat
  BY PlatDumpAssumption
<1>2. Hole \in AnyCell
  BY PlatDumpAssumption DEF Hole, AnyCell
<1>3. \A i \in 1..n :
        (IF i = offset + 1 THEN cell ELSE IF i <= Len(file) THEN file[i] ELSE Hole) \in AnyCell
  BY <1>2
<1>4. Written(file, offset, cell) \in [1..n -> AnyCell]
  BY <1>3 DEF Written
<1> QED
  BY <1>1, <1>4, SeqDef

LEMMA WrittenGrows ==
  ASSUME NEW file \in Seq(AnyCell), NEW d, NEW n \in Nat, Begun(file, d, n)
  PROVE  Begun(Written(file, n, Cell(d, n + 1, TRUE)), d, n + 1)
<1> DEFINE g == Written(file, n, Cell(d, n + 1, TRUE))
<1>1. Len(file) = n
  BY DEF Begun
<1>2. g = [i \in 1..(n + 1) |-> IF i = n + 1 THEN Cell(d, n + 1, TRUE)
                                ELSE IF i <= n THEN file[i] ELSE Hole]
  BY <1>1 DEF Written
<1> HIDE DEF g
<1>3. Len(g) = n + 1
  <2>1. DOMAIN g = 1..(n + 1) /\ n + 1 \in Nat
    BY <1>2
  <2>2. g \in Seq({g[i] : i \in 1..(n + 1)})
    <3> DEFINE R == {g[i] : i \in 1..(n + 1)}
    <3>1. g \in [1..(n + 1) -> R]
      BY <1>2, <2>1
    <3> QED
      BY <3>1, <2>1, SeqDef
  <2> QED
    BY <2>1, <2>2, LenProperties
<1>4. ASSUME NEW i \in 1..(n + 1) PROVE g[i] = Cell(d, i, TRUE)
  <2>1. CASE i = n + 1
    BY <1>2, <2>1
  <2>2. CASE i # n + 1
    <3>1. i \in 1..n /\ i <= n
      BY <2>2
    <3>2. file[i] = Cell(d, i, TRUE)
      BY <3>1 DEF Begun
    <3> QED
      BY <1>2, <2>2, <3>1, <3>2
  <2> QED
    BY <2>1, <2>2
<1> QED
  BY <1>3, <1>4 DEF Begun, g

-----------------------------------------------------------------------------
LEMMA InitInv == DumpInit => DumpInv
<1> SUFFICES ASSUME DumpInit PROVE DumpInv
  OBVIOUS
<1>1. Resting \in AnyRun /\ Advanced(Resting)
  BY PlatDumpAssumption DEF Resting, AnyRun, ExPlaces, Advanced
<1>2. \A p \in Extractors : ex[p] = Resting /\ ExAt(p, "idle")
  BY DEF DumpInit, ExAt, Resting
<1>3. Sets /\ Cells /\ Kept
  BY PlatDumpAssumption DEF DumpInit, Sets, Cells, NoFile, Kept
<1>4. Runs /\ Aware
  BY <1>1, <1>2 DEF DumpInit, Runs, Aware, StillHeld, Growing, Busy, Resting
<1> QED
  BY <1>3, <1>4 DEF DumpInv

(* The steps that leave the extractions and the files alone.               *)
LEMMA NewsInv ==
  ASSUME DumpInv, UNCHANGED <<ex, files, ghosts>>, Sets',
         firmware \subseteq firmware', arrived' \ arrived \subseteq firmware'
  PROVE  DumpInv'
<1>1. Spoilt' = Spoilt
  BY DEF ghosts, Spoilt
<1>2. Cells' /\ Aware'
  BY DEF DumpInv, Cells, Aware, ghosts, Busy, ExAt, Name
<1>3. Runs'
  BY <1>1 DEF DumpInv, Runs, Advanced, StillHeld, Growing, ghosts
<1>4. Kept'
  BY <1>1 DEF DumpInv, Kept, Whole
<1> QED
  BY <1>2, <1>3, <1>4 DEF DumpInv

(* A step of an extraction that was under way: the others stay where they  *)
(* are, and nobody learns of another.                                      *)
LEMMA StepInv ==
  ASSUME DumpInv, NEW p \in Extractors, NEW r, ex' = [ex EXCEPT ![p] = r], Busy(p),
         r.at # "idle" => r.dump = ex[p].dump,
         Advanced(r), StillHeld(r)', Growing(r)',
         \A q \in Extractors \ {p} : StillHeld(ex[q])' /\ Growing(ex[q])',
         Sets', Cells', Kept', shared' = shared
  PROVE  DumpInv'
<1>1. ex'[p] = r /\ \A q \in Extractors \ {p} : ex'[q] = ex[q]
  BY DEF DumpInv, Runs
<1>2. Runs'
  <2>1. ex' \in [Extractors -> AnyRun]
    BY DEF DumpInv, Runs, Advanced
  <2>2. \A q \in Extractors : Advanced(ex'[q])
    BY <1>1 DEF DumpInv, Runs
  <2> QED
    BY <1>1, <2>1, <2>2 DEF Runs, StillHeld, Growing, Advanced
<1>3. Aware'
  <2>1. \A q \in Extractors : Busy(q)' => Busy(q) /\ Name(q)' = Name(q) /\ ex'[q].dump = ex[q].dump
    BY <1>1 DEF Busy, ExAt, Name
  <2> QED
    BY <2>1 DEF DumpInv, Aware
<1> QED
  BY <1>2, <1>3 DEF DumpInv

(* A step that neither touches the files nor the exceptions, and leaves    *)
(* the platform what it has.                                               *)
LEMMA QuietStepInv ==
  ASSUME DumpInv, NEW p \in Extractors, NEW r, ex' = [ex EXCEPT ![p] = r], Busy(p),
         r.at # "idle" => r.dump = ex[p].dump,
         Advanced(r), StillHeld(r), Growing(r),
         UNCHANGED <<firmware, arrived, files, ghosts>>, Sets'
  PROVE  DumpInv'
<1>1. Spoilt' = Spoilt /\ shared' = shared
  BY DEF ghosts, Spoilt
<1>2. Cells' /\ Kept'
  BY <1>1 DEF DumpInv, Cells, Kept, Whole
<1>3. StillHeld(r)' /\ Growing(r)'
  BY <1>1 DEF StillHeld, Growing
<1>4. \A q \in Extractors \ {p} : ex'[q] = ex[q]
  BY DEF DumpInv, Runs
<1>5. \A q \in Extractors \ {p} : StillHeld(ex[q])' /\ Growing(ex[q])'
  BY <1>1, <1>4 DEF DumpInv, Runs, StillHeld, Growing
<1> QED
  BY <1>1, <1>2, <1>3, <1>5, StepInv

-----------------------------------------------------------------------------
LEMMA PostInv ==
  ASSUME DumpInv, NEW d \in Dumps, Post(d)
  PROVE  DumpInv'
<1>1. Sets' /\ firmware \subseteq firmware' /\ arrived' \ arrived \subseteq firmware'
      /\ UNCHANGED <<ex, files, ghosts>>
  BY DEF DumpInv, Post, Sets
<1> QED
  BY <1>1, NewsInv

LEMMA NotExtractedInv ==
  ASSUME DumpInv, NEW d \in Dumps, NotExtracted(d)
  PROVE  DumpInv'
<1>1. Sets' /\ firmware \subseteq firmware' /\ arrived' \ arrived \subseteq firmware'
      /\ UNCHANGED <<ex, files, ghosts>>
  BY DEF DumpInv, NotExtracted, Sets
<1> QED
  BY <1>1, NewsInv

LEMMA StartDumpInv ==
  ASSUME DumpInv, NEW p \in Extractors, NEW d \in Dumps, Start(p, d),
         announced' \subseteq announced, manual' \in 0..MaxManual
  PROVE  DumpInv'
<1> DEFINE r == [Resting EXCEPT !.at = "first", !.dump = d]
<1>0. r.at = "first" /\ r.dump = d /\ r.piece = 0 /\ r.offset = 0 /\ r \in AnyRun
  <2>1. Resting \in AnyRun /\ Resting.piece = 0 /\ Resting.offset = 0
    BY PlatDumpAssumption DEF Resting, AnyRun, ExPlaces
  <2>2. r.at = "first" /\ r.dump = d /\ r.piece = 0 /\ r.offset = 0
    BY <2>1 DEF AnyRun
  <2>3. "first" \in ExPlaces
    BY DEF ExPlaces
  <2>4. r \in AnyRun
    BY <2>1, <2>3 DEF AnyRun
  <2> QED
    BY <2>2, <2>4
<1>1. ex' = [ex EXCEPT ![p] = r] /\ ExAt(p, "idle") /\ shared \subseteq shared'
      /\ UNCHANGED <<firmware, files, available, arrived, short, replaced>>
  BY DEF Start
<1> HIDE DEF r
<1>2. ex'[p] = r /\ \A q \in Extractors \ {p} : ex'[q] = ex[q]
  BY <1>1 DEF DumpInv, Runs
<1>3. Spoilt \subseteq Spoilt'
  BY <1>1 DEF Spoilt
<1>4. Sets' /\ Cells' /\ Kept'
  BY <1>1, <1>3 DEF DumpInv, Sets, Cells, Kept, Whole
<1>5. Runs'
  <2>1. Advanced(r) /\ StillHeld(r)' /\ Growing(r)'
    BY <1>0 DEF Advanced, StillHeld, Growing
  <2>2. ex' \in [Extractors -> AnyRun]
    BY <1>1, <2>1 DEF DumpInv, Runs, Advanced
  <2>3. \A q \in Extractors \ {p} : Advanced(ex'[q]) /\ StillHeld(ex[q])' /\ Growing(ex[q])'
    BY <1>1, <1>2, <1>3 DEF DumpInv, Runs, StillHeld, Growing
  <2> QED
    BY <1>2, <2>1, <2>2, <2>3 DEF Runs, Advanced, StillHeld, Growing
<1>6. Aware'
  <2> SUFFICES ASSUME NEW a \in Extractors, NEW b \in Extractors, a # b,
                      Busy(a)', Busy(b)', Name(a)' = Name(b)'
               PROVE  (ex[a].dump \in shared)'
    BY DEF Aware
  <2>1. CASE a # p /\ b # p
    BY <1>1, <1>2, <2>1 DEF DumpInv, Aware, Busy, ExAt, Name
  <2>2. CASE a = p
    <3>1. ~ExAt(b, "idle") /\ Name(b) = NameOf[d]
      BY <1>0, <1>2, <2>2 DEF Busy, ExAt, Name
    <3> QED
      BY <1>0, <1>2, <2>2, <3>1 DEF Start
  <2>3. CASE b = p
    <3>1. ~ExAt(a, "idle") /\ Name(a) = NameOf[d] /\ ex'[a] = ex[a]
      BY <1>0, <1>2, <2>3 DEF Busy, ExAt, Name
    <3> QED
      BY <1>0, <1>2, <2>3, <3>1 DEF Start
  <2> QED
    BY <2>1, <2>2, <2>3
<1> QED
  BY <1>4, <1>5, <1>6 DEF DumpInv

LEMMA FirstCallInv ==
  ASSUME DumpInv, NEW p \in Extractors, FirstCall(p)
  PROVE  DumpInv'
<1>1. ExAt(p, "first") /\ Busy(p) /\ Advanced(ex[p]) /\ ex[p].dump \in Dumps /\ ex[p].offset = 0
  BY DEF FirstCall, DumpInv, Runs, Advanced, Busy, ExAt
<1>2. Sets' /\ UNCHANGED <<firmware, arrived, files, ghosts>>
  BY DEF FirstCall, DumpInv, Sets
<1>3. CASE ex[p].dump \in firmware /\ ex' = [ex EXCEPT ![p].at = "create", ![p].piece = 1]
  <2> DEFINE r == [ex[p] EXCEPT !.at = "create", !.piece = 1]
  <2>1. ex' = [ex EXCEPT ![p] = r]
    BY <1>3
  <2>2. /\ r \in AnyRun /\ r.at = "create" /\ r.piece = 1
        /\ r.offset = ex[p].offset /\ r.dump = ex[p].dump
    <3>1. ex[p] \in AnyRun /\ "create" \in ExPlaces /\ 1 \in 0..Pieces
      BY <1>1, PlatDumpAssumption DEF Advanced, ExPlaces
    <3>2. r \in AnyRun
      BY <3>1 DEF AnyRun
    <3> QED
      BY <3>1, <3>2 DEF AnyRun
  <2> HIDE DEF r
  <2>3. Advanced(r) /\ StillHeld(r) /\ Growing(r)
    BY <1>1, <1>3, <2>2 DEF Advanced, StillHeld, Growing
  <2> QED
    BY <1>1, <1>2, <2>1, <2>2, <2>3, QuietStepInv
<1>4. CASE End(p)
  <2>1. Advanced(Resting) /\ StillHeld(Resting) /\ Growing(Resting) /\ Resting.at = "idle"
    BY PlatDumpAssumption DEF Advanced, AnyRun, ExPlaces, Resting, StillHeld, Growing
  <2> QED
    BY <1>1, <1>2, <1>4, <2>1, QuietStepInv DEF End
<1> QED
  BY <1>3, <1>4 DEF FirstCall

LEMMA FetchInv ==
  ASSUME DumpInv, NEW p \in Extractors, Fetch(p)
  PROVE  DumpInv'
<1>1. ExAt(p, "fetch") /\ Busy(p) /\ Advanced(ex[p]) /\ Growing(ex[p]) /\ ex[p].dump \in firmware
  BY DEF Fetch, DumpInv, Runs, Busy, ExAt
<1>2. Sets' /\ UNCHANGED <<firmware, arrived, files, ghosts>>
  BY DEF Fetch, DumpInv, Sets
<1> DEFINE r == [ex[p] EXCEPT !.at = "write", !.piece = @ + 1]
<1>3. ex' = [ex EXCEPT ![p] = r]
  BY DEF Fetch
<1>4. /\ r \in AnyRun /\ r.at = "write" /\ r.piece = ex[p].piece + 1
      /\ r.offset = ex[p].offset /\ r.dump = ex[p].dump
  <2>1. ex[p] \in AnyRun /\ "write" \in ExPlaces /\ ex[p].piece + 1 \in 0..Pieces
    BY <1>1, PlatDumpAssumption DEF Advanced, ExPlaces, ExAt
  <2>2. r \in AnyRun
    BY <2>1 DEF AnyRun
  <2> QED
    BY <2>1, <2>2 DEF AnyRun
<1> HIDE DEF r
<1>5. Advanced(r)
  BY <1>1, <1>4, PlatDumpAssumption DEF Advanced, ExAt
<1>6. StillHeld(r) /\ Growing(r)
  BY <1>1, <1>4 DEF StillHeld, Growing, ExAt
<1> QED
  BY <1>1, <1>2, <1>3, <1>4, <1>5, <1>6, QuietStepInv

LEMMA FailsInv ==
  ASSUME DumpInv, NEW p \in Extractors, ExtractionFails(p)
  PROVE  DumpInv'
<1>1. Busy(p) /\ ex' = [ex EXCEPT ![p] = Resting]
  BY DEF ExtractionFails, Busy, ExAt, End
<1>2. Sets' /\ UNCHANGED <<firmware, arrived, files, ghosts>>
  BY DEF ExtractionFails, DumpInv, Sets
<1>3. Advanced(Resting) /\ StillHeld(Resting) /\ Growing(Resting) /\ Resting.at = "idle"
  BY PlatDumpAssumption DEF Advanced, AnyRun, ExPlaces, Resting, StillHeld, Growing
<1> QED
  BY <1>1, <1>2, <1>3, QuietStepInv

LEMMA PrintNameInv ==
  ASSUME DumpInv, NEW p \in Extractors, PrintName(p)
  PROVE  DumpInv'
<1>1. Busy(p) /\ ex' = [ex EXCEPT ![p] = Resting] /\ ex[p].dump \in Dumps
  BY DEF PrintName, DumpInv, Runs, Advanced, Busy, ExAt, End
<1>2. Sets' /\ UNCHANGED <<firmware, arrived, files, ghosts>>
  BY <1>1 DEF PrintName, DumpInv, Sets
<1>3. Advanced(Resting) /\ StillHeld(Resting) /\ Growing(Resting) /\ Resting.at = "idle"
  BY PlatDumpAssumption DEF Advanced, AnyRun, ExPlaces, Resting, StillHeld, Growing
<1> QED
  BY <1>1, <1>2, <1>3, QuietStepInv

(* The file is emptied: the dump begins anew, the others of its name are   *)
(* noted as replaced.                                                      *)
LEMMA CreateInv ==
  ASSUME DumpInv, NEW p \in Extractors, Create(p)
  PROVE  DumpInv'
<1> PICK d : d = ex[p].dump
  OBVIOUS
<1> PICK r : r = [ex[p] EXCEPT !.at = "write"]
  OBVIOUS
<1>1. /\ ExAt(p, "create") /\ Busy(p) /\ Advanced(ex[p]) /\ StillHeld(ex[p]) /\ d \in Dumps
      /\ ex[p].offset = 0 /\ ex[p].piece = 1
  BY DEF Create, DumpInv, Runs, Advanced, Busy, ExAt
<1>2. /\ ex' = [ex EXCEPT ![p] = r] /\ files' = [files EXCEPT ![NameOf[d]] = <<>>]
      /\ replaced' = (replaced \ {d}) \union {e \in Dumps \ {d} : NameOf[e] = NameOf[d]}
      /\ UNCHANGED <<firmware, announced, available, manual, arrived, short, shared>>
  BY DEF Create, ExGo, Name
<1>3. /\ r \in AnyRun /\ r.at = "write" /\ r.piece = 1 /\ r.offset = 0 /\ r.dump = d
  <2>1. ex[p] \in AnyRun /\ "write" \in ExPlaces
    BY <1>1 DEF Advanced, ExPlaces
  <2>2. r \in AnyRun
    BY <2>1 DEF AnyRun
  <2> QED
    BY <1>1, <2>1, <2>2 DEF AnyRun
<1>4. NameOf[d] \in FileNames /\ files \in [FileNames -> Seq(AnyCell)]
  BY <1>1, PlatDumpAssumption DEF DumpInv, Cells
<1>5. /\ files'[NameOf[d]] = <<>>
      /\ \A e \in Dumps : NameOf[e] # NameOf[d] => files'[NameOf[e]] = files[NameOf[e]]
      /\ \A e \in Dumps : e \in Spoilt /\ e # d => e \in Spoilt'
      /\ \A e \in Dumps : NameOf[e] = NameOf[d] /\ e # d => e \in Spoilt'
  BY <1>2, <1>4, PlatDumpAssumption DEF Spoilt
<1>6. Sets' /\ Cells'
  BY <1>2, <1>4 DEF DumpInv, Sets, Cells
<1>7. Advanced(r) /\ StillHeld(r)'
  BY <1>1, <1>2, <1>3, PlatDumpAssumption DEF Advanced, StillHeld, ExAt
<1>8. Growing(r)'
  <2>1. Begun(<<>>, d, 0)
    BY DEF Begun
  <2> QED
    BY <1>3, <1>5, <2>1 DEF Growing
<1>9. ASSUME NEW q \in Extractors \ {p} PROVE StillHeld(ex[q])' /\ Growing(ex[q])'
  <2>1. ex'[q] = ex[q] /\ Advanced(ex[q]) /\ StillHeld(ex[q]) /\ Growing(ex[q])
    BY <1>2 DEF DumpInv, Runs
  <2>2. StillHeld(ex[q])'
    BY <1>2, <2>1 DEF StillHeld
  <2>3. CASE ex[q].at \in {"write", "fetch", "release", "print"} /\ Name(q) = Name(p)
    <3>1. ex[q].dump \in shared /\ d \in shared
      BY <1>1, <2>3 DEF DumpInv, Aware, Busy, ExAt
    <3>2. shared \subseteq Spoilt' /\ NameOf[ex[q].dump] = NameOf[d]
      BY <1>2, <2>3 DEF Spoilt, Name
    <3> QED
      BY <1>5, <2>1, <2>2, <3>1, <3>2 DEF Growing
  <2>4. CASE ex[q].at \in {"write", "fetch", "release", "print"} /\ Name(q) # Name(p)
    <3>1. ex[q].dump \in Dumps /\ ex[q].dump # d
      BY <2>1, <2>4 DEF Advanced, Name
    <3> QED
      BY <1>5, <2>1, <2>2, <2>4, <3>1 DEF Growing, Name
  <2>5. CASE ex[q].at \notin {"write", "fetch", "release", "print"}
    BY <2>1, <2>2, <2>5 DEF Growing
  <2> QED
    BY <2>2, <2>3, <2>4, <2>5
<1>10. Kept'
  <2> SUFFICES ASSUME NEW e \in arrived', e \notin firmware' PROVE (Whole(e) \/ e \in Spoilt)'
    BY DEF Kept
  <2>1. e \in arrived \ firmware /\ e \in Dumps /\ (Whole(e) \/ e \in Spoilt)
    BY <1>2 DEF DumpInv, Sets, Kept
  <2>2. CASE e = d
    <3>1. e \in shared
      BY <1>1, <2>1, <2>2 DEF StillHeld, ExAt
    <3> QED
      BY <1>2, <3>1 DEF Spoilt
  <2>3. CASE e # d
    BY <1>5, <2>1, <2>3 DEF Whole
  <2> QED
    BY <2>2, <2>3
<1> QED
  BY <1>1, <1>2, <1>3, <1>6, <1>7, <1>8, <1>9, <1>10, StepInv

(* A piece more; if it is short that is noted.                             *)
LEMMA WriteInv ==
  ASSUME DumpInv, NEW p \in Extractors, Write(p)
  PROVE  DumpInv'
<1> PICK d : d = ex[p].dump
  OBVIOUS
<1> PICK n : n = ex[p].offset
  OBVIOUS
<1> PICK r : r = [ex[p] EXCEPT !.at = AfterWrite(p), !.offset = @ + 1]
  OBVIOUS
<1>1. /\ ExAt(p, "write") /\ Busy(p) /\ Advanced(ex[p]) /\ StillHeld(ex[p]) /\ Growing(ex[p])
      /\ d \in Dumps /\ n \in 0..Pieces /\ ex[p].piece = n + 1 /\ ex[p].piece \in 1..Pieces
  BY PlatDumpAssumption DEF Write, DumpInv, Runs, Advanced, AnyRun, Busy, ExAt
<1>2. PICK whole \in BOOLEAN :
        /\ files' = [files EXCEPT ![NameOf[d]] = Written(@, n, Cell(d, ex[p].piece, whole))]
        /\ short' = IF whole THEN short ELSE short \union {d}
  BY DEF Write, Name
<1>3. ex' = [ex EXCEPT ![p] = r]
      /\ UNCHANGED <<firmware, announced, available, manual, arrived, shared, replaced>>
  BY DEF Write
<1>4. /\ r \in AnyRun /\ r.at = AfterWrite(p) /\ r.piece = n + 1 /\ r.offset = n + 1 /\ r.dump = d
  <2>1. ex[p] \in AnyRun /\ AfterWrite(p) \in ExPlaces /\ n + 1 \in 0..Pieces
    BY <1>1, PlatDumpAssumption DEF Advanced, ExPlaces, AfterWrite
  <2>2. r \in AnyRun
    BY <2>1 DEF AnyRun
  <2> QED
    BY <1>1, <2>1, <2>2 DEF AnyRun
<1>5. Advanced(r)
  BY <1>1, <1>4, PlatDumpAssumption DEF Advanced, AfterWrite
<1>6. NameOf[d] \in FileNames /\ files \in [FileNames -> Seq(AnyCell)] /\ files[NameOf[d]] \in Seq(AnyCell)
  BY <1>1, PlatDumpAssumption DEF DumpInv, Cells
<1>7. Cell(d, ex[p].piece, whole) \in AnyCell
  BY <1>1, <1>2, PlatDumpAssumption DEF Cell, AnyCell
<1>8. Sets' /\ Cells'
  <2>1. Written(files[NameOf[d]], n, Cell(d, ex[p].piece, whole)) \in Seq(AnyCell)
    BY <1>1, <1>6, <1>7, WrittenCells
  <2> QED
    BY <1>2, <1>3, <1>6, <2>1 DEF DumpInv, Sets, Cells
<1>9. /\ files'[NameOf[d]] = Written(files[NameOf[d]], n, Cell(d, n + 1, whole))
      /\ \A e \in Dumps : NameOf[e] # NameOf[d] => files'[NameOf[e]] = files[NameOf[e]]
      /\ Spoilt \subseteq Spoilt' /\ (~whole => d \in Spoilt')
  BY <1>1, <1>2, <1>3, <1>6, PlatDumpAssumption DEF Spoilt
<1>10. StillHeld(r)' /\ Growing(r)'
  <2>0. \A e \in Dumps \ {d} : NameOf[e] = NameOf[d] => e \in Spoilt'
    BY <1>1, <1>9 DEF Growing, ExAt
  <2>1. StillHeld(r)'
    BY <1>1, <1>3, <1>4 DEF StillHeld, ExAt
  <2>2. CASE d \in Spoilt \/ ~whole
    BY <1>4, <1>9, <2>0, <2>1, <2>2 DEF Growing
  <2>3. CASE d \notin Spoilt /\ whole
    <3>1. Begun(files[NameOf[d]], d, n)
      BY <1>1, <2>3 DEF Growing, ExAt
    <3>2. Begun(Written(files[NameOf[d]], n, Cell(d, n + 1, TRUE)), d, n + 1)
      <4>1. n \in Nat
        BY <1>1, PlatDumpAssumption
      <4> QED
        BY <1>6, <3>1, <4>1, WrittenGrows, Zenon
    <3>3. files'[NameOf[d]] = Written(files[NameOf[d]], n, Cell(d, n + 1, TRUE))
      BY <1>9, <2>3
    <3> QED
      BY <1>4, <2>0, <2>1, <3>2, <3>3 DEF Growing
  <2> QED
    BY <2>1, <2>2, <2>3
<1>11. ASSUME NEW q \in Extractors \ {p} PROVE StillHeld(ex[q])' /\ Growing(ex[q])'
  <2>1. ex'[q] = ex[q] /\ Advanced(ex[q]) /\ StillHeld(ex[q]) /\ Growing(ex[q])
    BY <1>3 DEF DumpInv, Runs
  <2>2. StillHeld(ex[q])'
    BY <1>3, <2>1 DEF StillHeld
  <2>3. CASE ex[q].at \in {"write", "fetch", "release", "print"} /\ Name(q) = Name(p)
    <3>1. ex[q].dump \in shared
      BY <1>1, <2>3 DEF DumpInv, Aware, Busy, ExAt
    <3> QED
      BY <1>3, <1>9, <2>1, <2>2, <3>1 DEF Growing, Spoilt
  <2>4. CASE ex[q].at \in {"write", "fetch", "release", "print"} /\ Name(q) # Name(p)
    <3>1. ex[q].dump \in Dumps /\ NameOf[ex[q].dump] # NameOf[d]
      BY <2>1, <2>4 DEF Advanced, Name
    <3> QED
      BY <1>9, <2>1, <2>2, <3>1 DEF Growing
  <2>5. CASE ex[q].at \notin {"write", "fetch", "release", "print"}
    BY <2>1, <2>2, <2>5 DEF Growing
  <2> QED
    BY <2>2, <2>3, <2>4, <2>5
<1>12. Kept'
  <2> SUFFICES ASSUME NEW e \in arrived', e \notin firmware' PROVE (Whole(e) \/ e \in Spoilt)'
    BY DEF Kept
  <2>1. e \in arrived \ firmware /\ e \in Dumps /\ (Whole(e) \/ e \in Spoilt)
    BY <1>3 DEF DumpInv, Sets, Kept
  <2>2. CASE NameOf[e] # NameOf[d]
    BY <1>9, <2>1, <2>2 DEF Whole
  <2>3. CASE e = d
    <3>1. e \in shared
      BY <1>1, <2>1, <2>3 DEF StillHeld, ExAt
    <3> QED
      BY <1>3, <3>1 DEF Spoilt
  <2>4. CASE NameOf[e] = NameOf[d] /\ e # d
    BY <1>1, <1>9, <2>1, <2>4 DEF Growing, ExAt
  <2> QED
    BY <2>2, <2>3, <2>4
<1> QED
  BY <1>1, <1>3, <1>4, <1>5, <1>8, <1>10, <1>11, <1>12, StepInv

(* The platform deletes its copy of what is whole, or keeps it.            *)
LEMMA ReleaseInv ==
  ASSUME DumpInv, NEW p \in Extractors, Release(p)
  PROVE  DumpInv'
<1> PICK d : d = ex[p].dump
  OBVIOUS
<1> PICK r : r = [ex[p] EXCEPT !.at = "print"]
  OBVIOUS
<1>1. /\ ExAt(p, "release") /\ Busy(p) /\ Advanced(ex[p]) /\ Growing(ex[p]) /\ d \in Dumps
      /\ ex[p].offset = Pieces /\ ex[p].piece = Pieces
  BY DEF Release, DumpInv, Runs, Advanced, Busy, ExAt
<1>2. /\ ex' = [ex EXCEPT ![p] = r] /\ firmware \ {d} \subseteq firmware' /\ firmware' \subseteq firmware
      /\ UNCHANGED <<announced, files, available, manual, arrived, short, shared, replaced>>
  BY DEF Release, ExGo, ghosts
<1>3. Spoilt' = Spoilt
  BY <1>2 DEF Spoilt
<1>4. /\ r \in AnyRun /\ r.at = "print" /\ r.piece = Pieces /\ r.offset = Pieces /\ r.dump = d
  <2>1. ex[p] \in AnyRun /\ "print" \in ExPlaces
    BY <1>1 DEF Advanced, ExPlaces
  <2>2. r \in AnyRun
    BY <2>1 DEF AnyRun
  <2> QED
    BY <1>1, <2>1, <2>2 DEF AnyRun
<1>5. Sets' /\ Cells'
  BY <1>2 DEF DumpInv, Sets, Cells
<1>6. Advanced(r) /\ StillHeld(r)'
  BY <1>1, <1>4 DEF Advanced, StillHeld
<1>7. Growing(r)'
  BY <1>1, <1>2, <1>3, <1>4 DEF Growing, ExAt
<1>8. ASSUME NEW q \in Extractors \ {p} PROVE StillHeld(ex[q])' /\ Growing(ex[q])'
  <2>1. ex'[q] = ex[q] /\ Advanced(ex[q]) /\ StillHeld(ex[q]) /\ Growing(ex[q])
    BY <1>2 DEF DumpInv, Runs
  <2>2. Growing(ex[q])'
    BY <1>2, <1>3, <2>1 DEF Growing
  <2>3. ASSUME ex[q].at \in {"create", "write", "fetch"} PROVE ex[q].dump \in firmware' \union shared'
    <3>1. CASE ex[q].dump = d
      BY <1>1, <1>2, <2>3, <3>1 DEF DumpInv, Aware, Busy, ExAt, Name
    <3>2. CASE ex[q].dump # d
      BY <1>2, <2>1, <2>3, <3>2 DEF StillHeld
    <3> QED
      BY <3>1, <3>2
  <2> QED
    BY <2>1, <2>2, <2>3 DEF StillHeld
<1>9. Kept'
  <2> SUFFICES ASSUME NEW e \in arrived', e \notin firmware' PROVE (Whole(e) \/ e \in Spoilt)'
    BY DEF Kept
  <2>1. e \in arrived
    BY <1>2
  <2>2. CASE e \notin firmware
    BY <1>2, <1>3, <2>1, <2>2 DEF DumpInv, Kept, Whole
  <2>3. CASE e \in firmware
    <3>1. e = d
      BY <1>2, <2>3
    <3>2. Begun(files[NameOf[d]], d, Pieces) \/ d \in Spoilt
      BY <1>1 DEF Growing, ExAt
    <3>3. files[NameOf[d]] \in Seq(AnyCell)
      BY <1>1, PlatDumpAssumption DEF DumpInv, Cells
    <3>4. Whole(d) \/ d \in Spoilt
      BY <1>1, <3>2, <3>3, BegunWhole DEF Whole
    <3> QED
      BY <1>2, <1>3, <3>1, <3>4 DEF Whole
  <2> QED
    BY <2>2, <2>3
<1> QED
  BY <1>1, <1>2, <1>4, <1>5, <1>6, <1>7, <1>8, <1>9, StepInv

LEMMA NextInv == DumpInv /\ [DumpNext]_dumpVars => DumpInv'
<1> SUFFICES ASSUME DumpInv, [DumpNext]_dumpVars PROVE DumpInv'
  OBVIOUS
<1>1. CASE UNCHANGED dumpVars
  <2>1. Sets' /\ UNCHANGED <<ex, files, ghosts, firmware, arrived>>
    BY <1>1 DEF dumpVars, DumpInv, Sets
  <2> QED
    BY <2>1, NewsInv
<1>2. ASSUME NEW d \in Dumps, check_platform_dump(d) PROVE DumpInv'
  <2>1. Start("daemon", d) /\ announced' \subseteq announced /\ manual' \in 0..MaxManual
    BY <1>2 DEF check_platform_dump, DumpInv, Sets
  <2> QED
    BY <2>1, StartDumpInv DEF Extractors
<1>3. ASSUME NEW d \in Dumps, RunByHand(d) PROVE DumpInv'
  <2>1. Start("manual", d) /\ announced' \subseteq announced /\ manual' \in 0..MaxManual
    BY <1>3, PlatDumpAssumption DEF RunByHand, DumpInv, Sets
  <2> QED
    BY <2>1, StartDumpInv DEF Extractors
<1> QED
  BY <1>1, <1>2, <1>3, PostInv, NotExtractedInv, FirstCallInv, CreateInv, WriteInv, FetchInv,
     FailsInv, ReleaseInv, PrintNameInv DEF DumpNext

LEMMA InvType == DumpInv => DumpTypeOK
<1> SUFFICES ASSUME DumpInv PROVE DumpTypeOK
  OBVIOUS
<1>1. ASSUME NEW p \in Extractors, ex[p] # Resting
      PROVE  /\ ex[p].dump \in Dumps /\ ex[p].piece \in 0..Pieces
             /\ ex[p].offset = CASE ex[p].at \in {"first", "create"} -> 0
                                 [] ex[p].at = "write" -> ex[p].piece - 1
                                 [] OTHER -> ex[p].piece
  <2>1. Advanced(ex[p]) /\ ex[p].at # "idle" /\ ex[p].at \in ExPlaces
    BY <1>1 DEF DumpInv, Runs, Advanced, AnyRun
  <2>2. ex[p].dump \in Dumps /\ ex[p].piece \in 0..Pieces
    BY <2>1 DEF Advanced, AnyRun
  <2>3. CASE ex[p].at \in {"first", "create"}
    BY <2>1, <2>2, <2>3 DEF Advanced
  <2>4. CASE ex[p].at = "write"
    BY <2>1, <2>2, <2>4 DEF Advanced
  <2>5. CASE ex[p].at \in {"fetch", "release", "print"}
    BY <2>1, <2>2, <2>5 DEF Advanced
  <2> QED
    BY <2>1, <2>3, <2>4, <2>5 DEF ExPlaces
<1>2. ASSUME NEW n \in FileNames, NEW i \in DOMAIN files[n] PROVE files[n][i].piece \in 0..Pieces
  <2>1. files[n] \in Seq(AnyCell)
    BY DEF DumpInv, Cells
  <2>2. files[n][i] \in AnyCell
    BY <1>2, <2>1
  <2> QED
    BY <2>2 DEF AnyCell
<1> QED
  BY <1>1, <1>2 DEF DumpInv, Sets, DumpTypeOK

-----------------------------------------------------------------------------
(* A dump that the platform has let go of is whole in its file, but for    *)
(* the exceptions (extract_platform_dump).                                 *)
THEOREM ReleasedKept == DumpSpec => []ReleasedIsWhole
<1>1. DumpInv => ReleasedIsWhole
  BY InvType DEF DumpInv, Kept, ReleasedIsWhole
<1> QED
  BY <1>1, InitInv, NextInv, PTL DEF DumpSpec

(* So is a dump that rtas_errd writes to its event as available            *)
(* (check_platform_dump).                                                  *)
THEOREM NamedKept == DumpSpec => NamedIsWhole
<1> DEFINE Told == \A d \in available' \ available : Whole(d) \/ d \in Spoilt
<1>1. DumpInv /\ [DumpNext]_dumpVars => [Told]_dumpVars
  <2> SUFFICES ASSUME DumpInv, DumpNext, NEW d \in available', d \notin available
               PROVE  Whole(d) \/ d \in Spoilt
    BY DEF Told
  <2>1. PICK p \in Extractors : PrintName(p) /\ available' = available \union {ex[p].dump}
    BY DEF DumpNext, Post, NotExtracted, check_platform_dump, RunByHand, Start, FirstCall, Create,
           Write, Fetch, ExtractionFails, Release, PrintName
  <2>2. d = ex[p].dump /\ ExAt(p, "print") /\ Advanced(ex[p]) /\ Growing(ex[p])
    BY <2>1 DEF DumpInv, Runs, PrintName
  <2>3. d \in Dumps /\ (Begun(files[NameOf[d]], d, Pieces) \/ d \in Spoilt)
    BY <2>2 DEF Growing, Advanced, ExAt
  <2>4. files[NameOf[d]] \in Seq(AnyCell)
    BY <2>3, PlatDumpAssumption DEF DumpInv, Cells
  <2> QED
    BY <2>3, <2>4, BegunWhole DEF Whole
<1> QED
  BY <1>1, InitInv, NextInv, PTL DEF DumpSpec, NamedIsWhole
-----------------------------------------------------------------------------
(* Prrn: a notification has its effect in full and in order.               *)

(* What the daemon and drmgr are doing, and with whose file.               *)
Active == daemon.pc # "idle"
InNode == daemon.pc \in {"call", "properties"}
DaemonPlaces == {"idle", "nodes", "call", "properties"}
CommandType == [data : Seq(Nat), proplen : Nat]
DaemonType ==
  [pc : DaemonPlaces, event : Nat, file : Nat, name : Nat, areas : Nat, area : Nat,
   entry : Nat \ {0}, prop : Nat \ {0}, chunk : Nat \ {0}, returned : Nat, cmd : CommandType]

FirmwareInv ==
  /\ notices \in 0 .. MaxNotices /\ now \in 0 .. MaxTime /\ faults \in 0 .. MaxFaults
  /\ scope \in [Notices -> Scopes \union {<<>>}]
  /\ version \in [DOMAIN Std -> 0 .. notices]
  /\ wanted \in [Notices -> [DOMAIN Std -> Nat]]
  /\ DOMAIN devtree = DOMAIN Std
  /\ \A h \in DOMAIN Std : devtree[h] \in [PropertyNames(h) -> Seq(0 .. notices)]

DaemonInv ==
  /\ daemon \in DaemonType /\ daemon.event <= notices
  /\ Active => /\ daemon.event >= 1 /\ daemon.file \in 1 .. daemon.event /\ daemon.name <= now
               /\ daemon.area <= daemon.areas /\ daemon.areas <= Len(scope[daemon.event])
               /\ daemon.event \notin excused => daemon.areas = Len(scope[daemon.event])
  /\ InNode => /\ HasEntry /\ Entry.op = Update /\ ~Skipped(Entry.node)
  /\ daemon.cmd # NoCommand => InNode

DrmgrInv ==
  /\ drmgr \in [Notices -> [pc : {"none", "read", "delete"}, name : 0 .. MaxTime]]
  /\ \A e \in Notices : Pending(e) =>
       /\ drmgr[e].name <= now /\ e <= daemon.event
       /\ Active => e # daemon.event

(* Every file has a drmgr to delete it, or will have.                      *)
DirInv ==
  /\ dir \in [0 .. MaxTime -> 0 .. daemon.event]
  /\ \A t, u \in 0 .. MaxTime : dir[t] = dir[u] /\ dir[t] # 0 => t = u
  /\ \A t \in 0 .. MaxTime : dir[t] # 0 => UserOf(t) # {} \/ (Active /\ daemon.name = t)

(* A notification that is not excused has a file for itself.               *)
OwnFileInv ==
  /\ Active /\ daemon.event \notin excused =>
       daemon.file = daemon.event /\ dir[daemon.name] = daemon.event /\ UserOf(daemon.name) = {}
  /\ \A e \in Notices \ excused : Pending(e) =>
       /\ UserOf(drmgr[e].name) = {e}
       /\ drmgr[e].pc = "read" => dir[drmgr[e].name] = e
       /\ Active => daemon.name # drmgr[e].name

LinesInv ==
  /\ lines \in [Notices -> SUBSET (Notices \X Phandles)]
  /\ \A f \in Notices : \A x \in lines[f] : x[1] <= daemon.event /\ (x[1] \in excused \/ f = x[1])

(* Entry k of area i has been handled; or its line has been written.       *)
Passed(e, i, k) ==
  \/ e < daemon.event
  \/ e = daemon.event /\ ~Active
  \/ e = daemon.event /\ i < daemon.area
  \/ e = daemon.event /\ i = daemon.area /\ k < daemon.entry
Logged(e, i, k) ==
  \/ Passed(e, i, k)
  \/ InNode /\ e = daemon.event /\ i = daemon.area /\ k = daemon.entry
Holding(e) == (Active /\ e = daemon.event) \/ drmgr[e].pc = "read"

Asks(e, i, k, h) ==
  i \in DOMAIN scope[e] /\ k \in DOMAIN scope[e][i] /\ scope[e][i][k] = [op |-> Update, node |-> h]

HandledInv ==
  \A e \in (1 .. daemon.event) \ excused : \A i, k \in Nat, h \in Phandles :
    Asks(e, i, k, h) /\ Logged(e, i, k) =>
      Line(e, h) \subseteq done \union (IF Holding(e) THEN lines[e] ELSE {})

(* The command under construction.                                         *)
CommandInv ==
  LET h == Entry.node
      p == Properties[h][daemon.prop]
      data == daemon.cmd.data
  IN
  /\ daemon.cmd.proplen = Len(data)
  /\ InNode => /\ \A j \in 1 .. Len(data) : /\ data[j] >= wanted[daemon.event][h]
                                            /\ data[j] <= notices
                                            /\ h \notin torn => data[j] = data[1]
               /\ IF daemon.prop <= Len(Properties[h])
                  THEN daemon.chunk <= p.chunks /\ Len(data) = daemon.chunk - 1
                  ELSE data = <<>>
  /\ daemon.pc = "properties" =>
       wanted[daemon.event][h] <= daemon.returned /\ daemon.returned <= notices

VersionInv ==
  \A e \in 1 .. notices, h \in DOMAIN Std :
    wanted[e][h] <= version[h] /\ \A f \in 1 .. e : wanted[f][h] <= wanted[e][h]

Newer(e, h, i) ==
  LET value == devtree[h][Properties[h][i].name]
  IN  value # <<>> /\ \A j \in DOMAIN value : value[j] >= wanted[e][h]

UpdatedInv ==
  /\ \A e \in (1 .. daemon.event) \ excused : \A i, k \in Nat, h \in DOMAIN Std \ MemoryBlocks :
       Asks(e, i, k, h) /\ Passed(e, i, k) => UpToDate(e, h)
  /\ InNode /\ daemon.event \notin excused => \A i \in DOMAIN Properties[Entry.node] :
       i < daemon.prop /\ Properties[Entry.node][i].kind = "data" => Newer(daemon.event, Entry.node, i)

PrrnInv ==
  /\ FirmwareInv /\ DaemonInv /\ DrmgrInv /\ DirInv /\ OwnFileInv /\ LinesInv
  /\ HandledInv /\ CommandInv /\ VersionInv /\ UpdatedInv /\ WholeProperties /\ NotBeforeUpdate

LEMMA NoticeNumbers ==
  ASSUME FirmwareInv
  PROVE  /\ MaxNotices \in Nat /\ notices \in Nat /\ notices <= MaxNotices
         /\ \A e \in 1 .. notices : e \in Notices
<1>1. MaxNotices \in Nat
  BY PrrnAssumption
<1>2. notices \in 0 .. MaxNotices
  BY DEF FirmwareInv
<1> QED
  BY <1>1, <1>2 DEF Notices

LEMMA FailureCounted ==
  ASSUME PrrnInv, CallFails
  PROVE  faults' \in 0 .. MaxFaults
  BY PrrnAssumption DEF CallFails, PrrnInv, FirmwareInv

(* The entry at hand.                                                      *)
LEMMA NoticeScope ==
  ASSUME FirmwareInv, NEW e \in Notices
  PROVE  scope[e] \in Seq(Seq(Entries))
<1>1. scope[e] \in Scopes \/ scope[e] = <<>>
  BY DEF FirmwareInv
<1>2. Scopes \subseteq Seq(Seq(Entries))
  BY PrrnAssumption
<1>3. CASE scope[e] = <<>>
  BY <1>3
<1> QED
  BY <1>1, <1>2, <1>3

LEMMA EntryKnown ==
  ASSUME FirmwareInv, DaemonInv, Active, HasEntry
  PROVE  /\ daemon.event \in 1 .. notices /\ daemon.event \in Notices
         /\ daemon.area \in DOMAIN scope[daemon.event]
         /\ daemon.entry \in DOMAIN scope[daemon.event][daemon.area]
         /\ Entry \in Entries /\ Entry.node \in Phandles
         /\ Entry.op = Update => Asks(daemon.event, daemon.area, daemon.entry, Entry.node)
         /\ ~Skipped(Entry.node) => Entry.node \in DOMAIN Std \ MemoryBlocks
<1>1. daemon.event \in 1 .. notices /\ daemon.event \in Notices
  BY NoticeNumbers DEF DaemonInv, DaemonType
<1>2. scope[daemon.event] \in Seq(Seq(Entries))
  BY <1>1, NoticeScope
<1>3. daemon.area \in DOMAIN scope[daemon.event]
  BY <1>2 DEF HasEntry, DaemonInv, DaemonType
<1>4. Area \in Seq(Entries)
  BY <1>2, <1>3 DEF Area
<1>5. daemon.entry \in DOMAIN Area
  BY <1>4 DEF HasEntry, DaemonInv, DaemonType
<1>6. Entry \in Entries
  BY <1>4, <1>5 DEF Entry
<1>7. Entry.node \in Phandles /\ Entry = [op |-> Entry.op, node |-> Entry.node]
  BY <1>6 DEF Entries
<1>8. Entry = scope[daemon.event][daemon.area][daemon.entry]
  BY DEF Entry, Area
<1>9. ~Skipped(Entry.node) => Entry.node \in DOMAIN Std \ MemoryBlocks
  BY DEF Skipped, phandle_to_pms, LmbEntry, Nothing
<1> QED
  BY <1>1, <1>3, <1>5, <1>6, <1>7, <1>8, <1>9 DEF Area, Asks

(* While the daemon handles a notification, and stays with it.             *)
Proceeds ==
  /\ Active /\ daemon'.pc # "idle"
  /\ daemon'.event = daemon.event /\ daemon'.file = daemon.file /\ daemon'.name = daemon.name
  /\ UNCHANGED <<scope, notices, version, now, dir, drmgr, wanted>>
  /\ excused \subseteq excused'

LEMMA ProceedsKeeps ==
  ASSUME PrrnInv, Proceeds
  PROVE  DrmgrInv' /\ DirInv' /\ OwnFileInv' /\ VersionInv'
<1> USE DEF Active
<1>1. \A e \in Notices : Pending(e)' <=> Pending(e)
  BY DEF Proceeds, Pending
<1>2. \A t : UserOf(t)' = UserOf(t)
  BY DEF Proceeds, Pending, UserOf
<1>3. DrmgrInv'
  BY <1>1 DEF PrrnInv, DrmgrInv, Proceeds
<1>4. DirInv'
  BY <1>2 DEF PrrnInv, DirInv, Proceeds
<1>5. OwnFileInv'
  BY <1>1, <1>2 DEF PrrnInv, OwnFileInv, Proceeds
<1>6. VersionInv'
  BY DEF PrrnInv, VersionInv, Proceeds
<1> QED
  BY <1>3, <1>4, <1>5, <1>6

(* The daemon goes on to the next entry: what it leaves behind has been    *)
(* logged and copied, or the notification is excused.                      *)
LEMMA NextEntryMoves ==
  ASSUME daemon \in DaemonType, daemon' = NextEntry
  PROVE  /\ daemon' \in DaemonType /\ daemon'.pc = "nodes"
         /\ daemon'.event = daemon.event /\ daemon'.file = daemon.file /\ daemon'.name = daemon.name
         /\ daemon'.areas = daemon.areas /\ daemon'.area = daemon.area
         /\ daemon'.entry = daemon.entry + 1 /\ daemon'.cmd = NoCommand
<1>1. NoCommand \in CommandType
  BY DEF NoCommand, CommandType
<1>2. daemon.entry + 1 \in Nat \ {0}
  BY DEF DaemonType
<1> QED
  BY <1>1, <1>2 DEF DaemonType, NextEntry, DaemonPlaces

LEMMA NextEntryStep ==
  ASSUME PrrnInv, Active, HasEntry, daemon' = NextEntry,
         UNCHANGED <<reassigned, devtree, now, dir, drmgr, wanted, done, early, torn>>,
         faults' \in 0 .. MaxFaults, excused \subseteq excused', LinesInv',
         \A e \in Notices : lines[e] \subseteq lines'[e],
         daemon.event \in excused' \/
           (Entry.op = Update =>
              /\ Line(daemon.event, Entry.node) \subseteq done \union lines'[daemon.event]
              /\ Entry.node \in DOMAIN Std \ MemoryBlocks => UpToDate(daemon.event, Entry.node))
  PROVE  PrrnInv'
<1>1. /\ daemon' \in DaemonType /\ daemon'.pc = "nodes"
      /\ daemon'.event = daemon.event /\ daemon'.file = daemon.file /\ daemon'.name = daemon.name
      /\ daemon'.areas = daemon.areas /\ daemon'.area = daemon.area
      /\ daemon'.entry = daemon.entry + 1 /\ daemon'.cmd = NoCommand
  BY NextEntryMoves DEF PrrnInv, DaemonInv
<1>2. Proceeds
  BY <1>1 DEF Proceeds, reassigned
<1>3. DrmgrInv' /\ DirInv' /\ OwnFileInv' /\ VersionInv'
  BY <1>2, ProceedsKeeps
<1>4. Active' /\ ~InNode'
  BY <1>1 DEF Active, InNode
<1>5. FirmwareInv'
  BY DEF PrrnInv, FirmwareInv, reassigned
<1>6. DaemonInv'
  BY <1>1, <1>4 DEF PrrnInv, DaemonInv, reassigned
<1>7. /\ daemon.event \in 1 .. notices /\ daemon.event \in Notices
      /\ daemon.area \in DOMAIN scope[daemon.event]
      /\ daemon.entry \in DOMAIN scope[daemon.event][daemon.area]
      /\ Entry.op = Update => Asks(daemon.event, daemon.area, daemon.entry, Entry.node)
  BY EntryKnown DEF PrrnInv
<1>8. \A e, i, k \in Nat : Passed(e, i, k)' =>
        Passed(e, i, k) \/ (e = daemon.event /\ i = daemon.area /\ k = daemon.entry)
  <2>1. daemon.entry \in Nat /\ daemon.area \in Nat /\ daemon.event \in Nat
    BY DEF PrrnInv, DaemonInv, DaemonType
  <2> QED
    BY <1>1, <1>4, <2>1 DEF Passed
<1>9. \A e, i, k \in Nat : \A h : Asks(e, i, k, h)' <=> Asks(e, i, k, h)
  BY DEF Asks, reassigned
<1>10. \A h : Asks(daemon.event, daemon.area, daemon.entry, h) => Entry.op = Update /\ Entry.node = h
  BY DEF Asks, Entry, Area
<1>11. HandledInv'
  <2> SUFFICES ASSUME NEW e \in (1 .. daemon.event) \ excused', NEW i \in Nat, NEW k \in Nat,
                      NEW h \in Phandles, Asks(e, i, k, h), Passed(e, i, k)'
               PROVE  Line(e, h) \subseteq done \union (IF Holding(e)' THEN lines'[e] ELSE {})
    BY <1>1, <1>4, <1>9 DEF HandledInv, Logged
  <2>1. e \in Nat /\ e \in Notices /\ e \notin excused
    BY <1>7, NoticeNumbers DEF PrrnInv
  <2>2. Holding(e)' <=> Holding(e)
    BY <1>1, <1>4 DEF Holding, Active
  <2>3. CASE Passed(e, i, k)
    <3>1. Line(e, h) \subseteq done \union (IF Holding(e) THEN lines[e] ELSE {})
      BY <2>1, <2>3 DEF PrrnInv, HandledInv, Logged
    <3> QED
      BY <2>1, <2>2, <3>1
  <2>4. CASE e = daemon.event /\ i = daemon.area /\ k = daemon.entry
    <3>1. Holding(e)
      BY <2>4 DEF Holding
    <3>2. Entry.op = Update /\ Entry.node = h
      BY <1>10, <2>4
    <3> QED
      BY <2>2, <2>4, <3>1, <3>2
  <2> QED
    BY <1>8, <2>1, <2>3, <2>4
<1>12. CommandInv'
  BY <1>1, <1>4 DEF CommandInv, NoCommand
<1>13. UpdatedInv'
  <2> SUFFICES ASSUME NEW e \in (1 .. daemon.event) \ excused', NEW i \in Nat, NEW k \in Nat,
                      NEW h \in DOMAIN Std \ MemoryBlocks, Asks(e, i, k, h), Passed(e, i, k)'
               PROVE  UpToDate(e, h)
    <3>1. \A e, h : UpToDate(e, h)' <=> UpToDate(e, h)
      BY DEF UpToDate
    <3> QED
      BY <1>1, <1>4, <1>9, <3>1 DEF UpdatedInv
  <2>1. e \in Nat /\ e \notin excused
    BY DEF PrrnInv, DaemonInv, DaemonType
  <2>2. CASE Passed(e, i, k)
    BY <2>1, <2>2 DEF PrrnInv, UpdatedInv
  <2>3. CASE e = daemon.event /\ i = daemon.area /\ k = daemon.entry
    BY <1>10, <2>3
  <2> QED
    BY <1>8, <2>1, <2>2, <2>3
<1>14. WholeProperties' /\ NotBeforeUpdate'
  BY DEF PrrnInv, WholeProperties, NotBeforeUpdate
<1> QED
  BY <1>3, <1>5, <1>6, <1>11, <1>12, <1>13, <1>14 DEF PrrnInv

LEMMA SameLines ==
  ASSUME PrrnInv, lines' = lines, daemon'.event = daemon.event, excused \subseteq excused'
  PROVE  LinesInv' /\ \A e \in Notices : lines[e] \subseteq lines'[e]
  BY DEF PrrnInv, LinesInv

LEMMA UnsupportedStep ==
  ASSUME PrrnInv, Unsupported
  PROVE  PrrnInv'
<1>1. Active /\ HasEntry /\ daemon' = NextEntry
  BY DEF Unsupported, Active
<1>2. daemon'.event = daemon.event
  BY <1>1, NextEntryMoves DEF PrrnInv, DaemonInv
<1>3. LinesInv' /\ \A e \in Notices : lines[e] \subseteq lines'[e]
  BY <1>2, SameLines DEF Unsupported, disk, observed
<1> QED
  BY <1>1, <1>3, NextEntryStep DEF Unsupported, disk, observed, PrrnInv, FirmwareInv

(* What the notification asks of the entry at hand has been logged.        *)
LEMMA EntryLogged ==
  ASSUME PrrnInv, InNode
  PROVE  /\ Active /\ HasEntry /\ Entry.op = Update /\ Entry.node \in DOMAIN Std \ MemoryBlocks
         /\ daemon.event \notin excused =>
              Line(daemon.event, Entry.node) \subseteq done \union lines[daemon.event]
<1>1. Active /\ HasEntry /\ Entry.op = Update /\ ~Skipped(Entry.node)
  BY DEF PrrnInv, DaemonInv, InNode, Active
<1>2. /\ daemon.event \in 1 .. notices /\ Entry.node \in Phandles
      /\ daemon.area \in Nat /\ daemon.entry \in Nat /\ daemon.event \in Nat
      /\ Asks(daemon.event, daemon.area, daemon.entry, Entry.node)
      /\ Entry.node \in DOMAIN Std \ MemoryBlocks
  BY <1>1, EntryKnown DEF PrrnInv, DaemonInv, DaemonType
<1>3. Logged(daemon.event, daemon.area, daemon.entry)
  BY DEF Logged
<1>4. Holding(daemon.event)
  BY <1>1 DEF Holding
<1>5. ASSUME daemon.event \notin excused
      PROVE  Line(daemon.event, Entry.node) \subseteq done \union lines[daemon.event]
  <2>1. daemon.event \in (1 .. daemon.event) \ excused
    BY <1>2, <1>5
  <2> QED
    BY <1>2, <1>3, <1>4, <2>1 DEF PrrnInv, HandledInv
<1> QED
  BY <1>1, <1>2, <1>5

LEMMA UpdatePropertiesFailsStep ==
  ASSUME PrrnInv, UpdatePropertiesFails
  PROVE  PrrnInv'
<1>1. Active /\ HasEntry /\ daemon' = NextEntry
  BY EntryLogged DEF UpdatePropertiesFails, InNode
<1>2. daemon'.event = daemon.event
  BY <1>1, NextEntryMoves DEF PrrnInv, DaemonInv
<1>3. LinesInv' /\ \A e \in Notices : lines[e] \subseteq lines'[e]
  BY <1>2, SameLines DEF UpdatePropertiesFails, disk, Excuse
<1>4. faults' \in 0 .. MaxFaults
  BY PrrnAssumption DEF UpdatePropertiesFails, CallFails, PrrnInv, FirmwareInv
<1> QED
  BY <1>1, <1>3, <1>4, NextEntryStep DEF UpdatePropertiesFails, disk, Excuse

LEMMA NodeUpdatedStep ==
  ASSUME PrrnInv, NodeUpdated
  PROVE  PrrnInv'
<1>1. /\ Active /\ HasEntry /\ Entry.node \in DOMAIN Std \ MemoryBlocks
      /\ daemon.event \notin excused =>
           Line(daemon.event, Entry.node) \subseteq done \union lines[daemon.event]
  BY EntryLogged DEF NodeUpdated, InNode
<1>2. daemon' = NextEntry /\ InNode
  BY DEF NodeUpdated, InNode
<1>3. daemon'.event = daemon.event
  BY <1>2, NextEntryMoves DEF PrrnInv, DaemonInv
<1>4. LinesInv' /\ \A e \in Notices : lines[e] \subseteq lines'[e]
  BY <1>3, SameLines DEF NodeUpdated, disk, observed
<1>5. daemon.event \notin excused => UpToDate(daemon.event, Entry.node)
  <2>1. \A i \in DOMAIN Properties[Entry.node] : i < daemon.prop
    <3>1. Properties[Entry.node] \in
            Seq([name : STRING, kind : {"data", "delete", "name"}, chunks : Nat \ {0}])
      BY <1>1, PrrnAssumption
    <3> QED
      BY <3>1 DEF NodeUpdated, PrrnInv, DaemonInv, DaemonType
  <2> QED
    BY <1>2, <2>1 DEF PrrnInv, UpdatedInv, UpToDate, Newer
<1> QED
  BY <1>1, <1>2, <1>4, <1>5, NextEntryStep DEF NodeUpdated, disk, observed, PrrnInv, FirmwareInv

(* The daemon moves without leaving an entry behind.                       *)
LEMMA StayStep ==
  ASSUME PrrnInv, Proceeds, done' = done, early' = early,
         FirmwareInv', DaemonInv', LinesInv', CommandInv', WholeProperties',
         \A e \in Notices : lines[e] \subseteq lines'[e],
         \A e, i, k \in Nat, h \in Phandles : Asks(e, i, k, h) /\ Passed(e, i, k)' => Passed(e, i, k),
         \A e, i, k \in Nat, h \in Phandles : Asks(e, i, k, h) /\ Logged(e, i, k)' =>
           Logged(e, i, k) \/ (e = daemon.event /\ (e \in excused' \/ Line(e, h) \subseteq lines'[e])),
         \A e \in 1 .. daemon.event, h \in DOMAIN Std : UpToDate(e, h) => UpToDate(e, h)',
         (InNode /\ daemon.event \notin excused => \A i \in DOMAIN Properties[Entry.node] :
           i < daemon.prop /\ Properties[Entry.node][i].kind = "data" =>
             Newer(daemon.event, Entry.node, i))'
  PROVE  PrrnInv'
<1>1. DrmgrInv' /\ DirInv' /\ OwnFileInv' /\ VersionInv'
  BY ProceedsKeeps
<1>2. /\ daemon'.event = daemon.event /\ Active /\ Active' /\ excused \subseteq excused'
      /\ scope' = scope /\ drmgr' = drmgr /\ notices' = notices
  BY DEF Proceeds, Active
<1>3. \A e, i, k, h : Asks(e, i, k, h)' <=> Asks(e, i, k, h)
  BY <1>2 DEF Asks
<1>4. daemon.event \in 1 .. notices /\ daemon.event \in Nat
  BY <1>2 DEF PrrnInv, DaemonInv, DaemonType
<1>5. \A e \in 1 .. daemon.event : e \in Nat /\ e \in Notices
  BY <1>4, NoticeNumbers DEF PrrnInv
<1>6. HandledInv'
  <2> SUFFICES ASSUME NEW e \in (1 .. daemon.event) \ excused', NEW i \in Nat, NEW k \in Nat,
                      NEW h \in Phandles, Asks(e, i, k, h), Logged(e, i, k)'
               PROVE  Line(e, h) \subseteq done \union (IF Holding(e)' THEN lines'[e] ELSE {})
    BY <1>2, <1>3 DEF HandledInv
  <2>1. Holding(e)' <=> Holding(e)
    BY <1>2 DEF Holding
  <2>2. e \notin excused /\ e \in Nat /\ e \in Notices
    BY <1>2, <1>5
  <2>3. CASE Logged(e, i, k)
    <3>1. Line(e, h) \subseteq done \union (IF Holding(e) THEN lines[e] ELSE {})
      BY <2>2, <2>3 DEF PrrnInv, HandledInv
    <3> QED
      BY <2>1, <2>2, <3>1
  <2>4. CASE e = daemon.event /\ Line(e, h) \subseteq lines'[e]
    <3>1. Holding(e)
      BY <1>2, <2>4 DEF Holding
    <3> QED
      BY <2>1, <2>4, <3>1
  <2> QED
    BY <2>2, <2>3, <2>4
<1>7. UpdatedInv'
  <2>1. ASSUME NEW e \in (1 .. daemon.event) \ excused', NEW i \in Nat, NEW k \in Nat,
               NEW h \in DOMAIN Std \ MemoryBlocks, Asks(e, i, k, h), Passed(e, i, k)'
        PROVE  UpToDate(e, h)'
    <3>1. e \notin excused /\ e \in Nat /\ h \in Phandles
      BY <1>2, <1>5, <2>1 DEF Phandles
    <3>2. Passed(e, i, k)
      BY <2>1, <3>1
    <3>3. UpToDate(e, h)
      BY <2>1, <3>1, <3>2 DEF PrrnInv, UpdatedInv
    <3> QED
      BY <3>3
  <2> QED
    BY <1>2, <1>3, <2>1 DEF UpdatedInv
<1>8. NotBeforeUpdate'
  BY <1>2 DEF PrrnInv, NotBeforeUpdate
<1> QED
  BY <1>1, <1>6, <1>7, <1>8 DEF PrrnInv

LEMMA SameTree ==
  ASSUME UNCHANGED <<devtree, wanted>>
  PROVE  \A e, h : UpToDate(e, h) => UpToDate(e, h)'
  BY DEF UpToDate

(* rtas_update_nodes.                                                      *)
LEMMA AreaOver ==
  ASSUME PrrnInv, daemon.pc = "nodes", ~HasEntry,
         NEW i \in Nat, NEW k \in Nat, NEW h \in Phandles, Asks(daemon.event, i, k, h),
         i = daemon.area
  PROVE  Passed(daemon.event, i, k)
<1>1. daemon.event \in Notices /\ daemon.area \in Nat /\ daemon.entry \in Nat
  BY NoticeNumbers DEF PrrnInv, DaemonInv, DaemonType, Active
<1>2. scope[daemon.event] \in Seq(Seq(Entries))
  BY <1>1, NoticeScope DEF PrrnInv
<1>3. i \in DOMAIN scope[daemon.event] /\ k \in DOMAIN scope[daemon.event][i]
  BY DEF Asks
<1>4. Area \in Seq(Entries) /\ k <= Len(Area) /\ daemon.area > 0
  BY <1>1, <1>2, <1>3 DEF Area
<1>5. k < daemon.entry
  BY <1>1, <1>4 DEF HasEntry
<1> QED
  BY <1>5 DEF Passed

LEMMA UpdateNodesStep ==
  ASSUME PrrnInv, UpdateNodes
  PROVE  PrrnInv'
<1>1. daemon.pc = "nodes" /\ Active /\ ~InNode /\ daemon \in DaemonType
  BY DEF UpdateNodes, Active, InNode, PrrnInv, DaemonInv
<1>2. /\ daemon' \in DaemonType /\ daemon'.pc = "nodes"
      /\ daemon'.event = daemon.event /\ daemon'.file = daemon.file /\ daemon'.name = daemon.name
      /\ daemon'.areas = daemon.areas /\ daemon'.area = daemon.area + 1
      /\ daemon'.entry = 1 /\ daemon'.cmd = daemon.cmd
  <2>1. daemon.area + 1 \in Nat
    BY <1>1 DEF DaemonType
  <2>2. daemon' = [daemon EXCEPT !.area = daemon.area + 1, !.entry = 1]
    BY DEF UpdateNodes
  <2>3. 1 \in Nat \ {0}
    OBVIOUS
  <2> QED
    BY <1>1, <2>1, <2>2, <2>3 DEF DaemonType
<1>3. Proceeds
  BY <1>1, <1>2 DEF Proceeds, UpdateNodes, reassigned, disk, observed
<1>4. Active' /\ ~InNode'
  BY <1>2 DEF Active, InNode
<1>5. FirmwareInv'
  BY DEF PrrnInv, FirmwareInv, UpdateNodes, reassigned, observed
<1>6. DaemonInv'
  <2>1. daemon.area \in Nat /\ daemon.areas \in Nat
    BY <1>1 DEF DaemonType
  <2> QED
    BY <1>1, <1>2, <1>4, <2>1 DEF PrrnInv, DaemonInv, UpdateNodes, reassigned, observed
<1>7. LinesInv' /\ \A e \in Notices : lines[e] \subseteq lines'[e]
  BY <1>2, SameLines DEF UpdateNodes, disk, observed
<1>8. CommandInv'
  BY <1>1, <1>2, <1>4 DEF PrrnInv, DaemonInv, CommandInv, NoCommand
<1>9. WholeProperties' /\ done' = done /\ early' = early
  BY DEF PrrnInv, WholeProperties, UpdateNodes, observed
<1>10. \A e, i, k \in Nat, h \in Phandles : Asks(e, i, k, h) /\ Passed(e, i, k)' => Passed(e, i, k)
  <2> SUFFICES ASSUME NEW e \in Nat, NEW i \in Nat, NEW k \in Nat, NEW h \in Phandles,
                      Asks(e, i, k, h), Passed(e, i, k)'
               PROVE  Passed(e, i, k)
    OBVIOUS
  <2>1. CASE e = daemon.event /\ i = daemon.area
    BY <1>1, <2>1, AreaOver DEF UpdateNodes
  <2>2. CASE ~(e = daemon.event /\ i = daemon.area)
    <3>1. k \in DOMAIN scope[e][i] /\ daemon.area \in Nat
      BY <1>1 DEF Asks, DaemonType
    <3>2. CASE i = daemon.area + 1 /\ e = daemon.event
      <4>1. k >= 1
        <5>1. scope[daemon.event] \in Seq(Seq(Entries))
          BY <1>1, NoticeScope, NoticeNumbers DEF PrrnInv, DaemonInv, DaemonType
        <5> QED
          BY <3>1, <3>2, <5>1 DEF Asks
      <4> QED
        BY <1>2, <1>4, <3>1, <3>2, <4>1 DEF Passed
    <3> QED
      BY <1>2, <1>4, <2>2, <3>1, <3>2 DEF Passed
  <2> QED
    BY <2>1, <2>2
<1>11. \A e, i, k \in Nat, h \in Phandles : Asks(e, i, k, h) /\ Logged(e, i, k)' => Logged(e, i, k)
  BY <1>4, <1>10 DEF Logged
<1>12. \A e, h : UpToDate(e, h) => UpToDate(e, h)'
  BY SameTree DEF UpdateNodes, observed
<1> QED
  BY <1>3, <1>4, <1>5, <1>6, <1>7, <1>8, <1>9, <1>10, <1>11, <1>12, StayStep

LEMMA UpdateNodesFailsStep ==
  ASSUME PrrnInv, UpdateNodesFails
  PROVE  PrrnInv'
<1>1. daemon.pc = "nodes" /\ Active /\ ~InNode /\ daemon \in DaemonType
  BY DEF UpdateNodesFails, Active, InNode, PrrnInv, DaemonInv
<1>2. /\ daemon' \in DaemonType /\ daemon'.pc = "nodes"
      /\ daemon'.event = daemon.event /\ daemon'.file = daemon.file /\ daemon'.name = daemon.name
      /\ daemon'.areas = daemon.area /\ daemon'.area = daemon.area
      /\ daemon'.entry = daemon.entry /\ daemon'.cmd = daemon.cmd
  BY <1>1 DEF UpdateNodesFails, DaemonType
<1>3. Proceeds
  BY <1>1, <1>2 DEF Proceeds, UpdateNodesFails, reassigned, disk, Excuse
<1>4. Active' /\ ~InNode'
  BY <1>2 DEF Active, InNode
<1>5. faults' \in 0 .. MaxFaults
  BY PrrnAssumption DEF UpdateNodesFails, CallFails, PrrnInv, FirmwareInv
<1>6. FirmwareInv'
  BY <1>5 DEF PrrnInv, FirmwareInv, UpdateNodesFails, reassigned
<1>7. DaemonInv'
  <2>1. daemon.area \in Nat /\ daemon.areas \in Nat /\ daemon.area < daemon.areas
    BY <1>1 DEF DaemonType, UpdateNodesFails
  <2>2. daemon.event \in Notices
    BY <1>1, NoticeNumbers DEF PrrnInv, DaemonInv, DaemonType
  <2>3. Len(scope[daemon.event]) \in Nat
    BY <2>2, NoticeScope DEF PrrnInv
  <2> QED
    BY <1>1, <1>2, <1>4, <2>1, <2>3 DEF PrrnInv, DaemonInv, UpdateNodesFails, reassigned, Excuse
<1>8. LinesInv' /\ \A e \in Notices : lines[e] \subseteq lines'[e]
  BY <1>2, SameLines DEF UpdateNodesFails, disk, Excuse
<1>9. CommandInv'
  BY <1>1, <1>2, <1>4 DEF PrrnInv, DaemonInv, CommandInv, NoCommand
<1>10. WholeProperties' /\ done' = done /\ early' = early
  BY DEF PrrnInv, WholeProperties, UpdateNodesFails
<1>11. \A e, i, k \in Nat : Passed(e, i, k)' => Passed(e, i, k)
  BY <1>2, <1>4 DEF Passed
<1>12. \A e, i, k \in Nat : Logged(e, i, k)' => Logged(e, i, k)
  BY <1>4, <1>11 DEF Logged
<1>13. \A e, h : UpToDate(e, h) => UpToDate(e, h)'
  BY SameTree DEF UpdateNodesFails
<1> QED
  BY <1>3, <1>4, <1>6, <1>7, <1>8, <1>9, <1>10, <1>11, <1>12, <1>13, StayStep

(* The same entry.                                                         *)
LEMMA EntrySame ==
  ASSUME daemon'.event = daemon.event, daemon'.area = daemon.area, daemon'.entry = daemon.entry,
         scope' = scope
  PROVE  Entry' = Entry /\ HasEntry' = HasEntry
  BY DEF Entry, HasEntry, Area

LEMMA PassedSame ==
  ASSUME daemon'.event = daemon.event, daemon'.area = daemon.area, daemon'.entry = daemon.entry,
         Active, Active'
  PROVE  /\ \A e, i, k : Passed(e, i, k)' <=> Passed(e, i, k)
         /\ InNode => \A e, i, k : Logged(e, i, k)' => Logged(e, i, k)
<1>1. \A e, i, k : Passed(e, i, k)' <=> Passed(e, i, k)
  BY DEF Passed
<1> QED
  BY <1>1 DEF Logged

LEMMA PropertiesOf ==
  ASSUME NEW h \in DOMAIN Std
  PROVE  /\ Properties[h] \in
              Seq([name : STRING, kind : {"data", "delete", "name"}, chunks : Nat \ {0}])
         /\ \A i \in DOMAIN Properties[h] :
              /\ Properties[h][i].name \in PropertyNames(h)
              /\ Properties[h][i].kind \in {"data", "delete", "name"}
              /\ Properties[h][i].chunks \in Nat \ {0}
              /\ Properties[h][i].kind # "data" => Properties[h][i].chunks = 1
              /\ \A j \in DOMAIN Properties[h] :
                   Properties[h][i].name = Properties[h][j].name => i = j
<1> DEFINE PropertyType == [name : STRING, kind : {"data", "delete", "name"}, chunks : Nat \ {0}]
<1>1. Properties[h] \in Seq(PropertyType)
  BY PrrnAssumption
<1>2. \A i \in DOMAIN Properties[h] : Properties[h][i] \in PropertyType
  <2> HIDE DEF PropertyType
  <2> QED
    BY <1>1
<1>3. \A i \in DOMAIN Properties[h] : Properties[h][i].name \in PropertyNames(h)
  BY DEF PropertyNames
<1> QED
  BY <1>1, <1>2, <1>3, PrrnAssumption

LEMMA UpdatePropertiesStep ==
  ASSUME PrrnInv, UpdateProperties
  PROVE  PrrnInv'
<1>1. /\ daemon.pc = "call" /\ InNode /\ daemon \in DaemonType
      /\ Active /\ HasEntry /\ Entry.node \in DOMAIN Std
  BY EntryLogged DEF UpdateProperties, InNode, PrrnInv, DaemonInv
<1>2. daemon.event \in 1 .. notices /\ notices \in Nat
  BY <1>1, EntryKnown, NoticeNumbers DEF PrrnInv
<1>3. version[Entry.node] \in Nat /\ version[Entry.node] <= notices
  BY <1>1, <1>2 DEF PrrnInv, FirmwareInv
<1>4. /\ daemon' \in DaemonType /\ daemon'.pc = "properties"
      /\ daemon'.event = daemon.event /\ daemon'.file = daemon.file /\ daemon'.name = daemon.name
      /\ daemon'.areas = daemon.areas /\ daemon'.area = daemon.area
      /\ daemon'.entry = daemon.entry /\ daemon'.cmd = daemon.cmd
      /\ daemon'.prop = daemon.prop /\ daemon'.chunk = daemon.chunk
      /\ daemon'.returned = version[Entry.node]
  <2>1. daemon' = [daemon EXCEPT !.pc = "properties", !.returned = version[Entry.node]]
    BY DEF UpdateProperties
  <2> QED
    BY <1>1, <1>3, <2>1 DEF DaemonType, DaemonPlaces
<1>5. Proceeds
  BY <1>1, <1>4 DEF Proceeds, UpdateProperties, reassigned, disk, observed
<1>6. Active' /\ InNode' /\ Entry' = Entry /\ HasEntry' = HasEntry
  BY <1>4, EntrySame DEF Active, InNode, UpdateProperties, reassigned
<1>7. FirmwareInv'
  BY DEF PrrnInv, FirmwareInv, UpdateProperties, reassigned, observed
<1>8. DaemonInv'
  BY <1>1, <1>4, <1>6 DEF PrrnInv, DaemonInv, UpdateProperties, reassigned, observed
<1>9. LinesInv' /\ \A e \in Notices : lines[e] \subseteq lines'[e]
  BY <1>4, SameLines DEF UpdateProperties, disk, observed
<1>10. CommandInv'
  <2>1. wanted[daemon.event][Entry.node] <= version[Entry.node]
    BY <1>1, <1>2 DEF PrrnInv, VersionInv
  <2> QED
    BY <1>1, <1>3, <1>4, <1>6, <2>1 DEF PrrnInv, CommandInv, UpdateProperties, reassigned, observed
<1>11. WholeProperties' /\ done' = done /\ early' = early
  BY DEF PrrnInv, WholeProperties, UpdateProperties, observed
<1>12. /\ \A e, i, k : Passed(e, i, k)' <=> Passed(e, i, k)
       /\ \A e, i, k : Logged(e, i, k)' => Logged(e, i, k)
  BY <1>1, <1>4, <1>6, PassedSame
<1>13. \A e, h : UpToDate(e, h) => UpToDate(e, h)'
  BY SameTree DEF UpdateProperties, observed
<1>14. (InNode /\ daemon.event \notin excused => \A i \in DOMAIN Properties[Entry.node] :
          i < daemon.prop /\ Properties[Entry.node][i].kind = "data" =>
            Newer(daemon.event, Entry.node, i))'
  <2>1. \A i : Newer(daemon.event, Entry.node, i)' <=> Newer(daemon.event, Entry.node, i)
    BY <1>4, <1>6 DEF Newer, UpdateProperties, observed
  <2> QED
    BY <1>1, <1>4, <1>6, <2>1 DEF PrrnInv, UpdatedInv, UpdateProperties, observed
<1> QED
  BY <1>5, <1>7, <1>8, <1>9, <1>10, <1>11, <1>12, <1>13, <1>14, StayStep

(* update_nodes.                                                           *)
LEMMA LineTyped ==
  ASSUME NEW e \in Notices, NEW h \in Phandles
  PROVE  Line(e, h) \subseteq Notices \X Phandles /\ \A x \in Line(e, h) : x[1] = e /\ x[2] = h
  BY DEF Line

LEMMA NotSkipped ==
  ASSUME NEW h \in DOMAIN Std \ MemoryBlocks
  PROVE  ~Skipped(h)
<1>1. Std[h].kind \in {"cpu", "memory", "other"}
  BY PrrnAssumption
<1> QED
  BY <1>1 DEF Skipped, phandle_to_pms

LEMMA UpdateNodeStep ==
  ASSUME PrrnInv, update_node
  PROVE  PrrnInv'
<1> DEFINE h == Entry.node
           e == daemon.event
<1>1. /\ daemon.pc = "nodes" /\ Active /\ ~InNode /\ daemon \in DaemonType
      /\ HasEntry /\ Entry.op = Update
  BY DEF update_node, Active, InNode, PrrnInv, DaemonInv
<1>2. /\ e \in 1 .. notices /\ e \in Notices /\ h \in Phandles
      /\ ~Skipped(h) => h \in DOMAIN Std \ MemoryBlocks
      /\ Asks(e, daemon.area, daemon.entry, h)
  BY <1>1, EntryKnown DEF PrrnInv
<1>3. /\ \/ lines' = [lines EXCEPT ![daemon.file] = @ \union Line(e, h)]
         \/ lines' = lines /\ e \in excused'
      /\ excused' \in {excused, excused \union {e}} /\ faults' \in 0 .. MaxFaults
  <2>1. CASE UNCHANGED <<faults, excused>>
    BY <2>1 DEF update_node, write_prrn_log, Excuse, PrrnInv, FirmwareInv
  <2>2. CASE CallFails /\ Excuse /\ UNCHANGED lines
    BY <2>2, FailureCounted DEF Excuse
  <2> QED
    BY <2>1, <2>2 DEF update_node, write_prrn_log
<1>4. daemon.file \in Notices /\ (e \notin excused => daemon.file = e)
  <2>1. daemon.file \in 1 .. e
    BY <1>1 DEF PrrnInv, DaemonInv
  <2>2. daemon.file \in 1 .. notices
    BY <1>2, <2>1, NoticeNumbers DEF PrrnInv
  <2> QED
    BY <1>1, <2>2, NoticeNumbers DEF PrrnInv, OwnFileInv
<1>5. excused \subseteq excused' /\ scope' = scope /\ reassigned' = reassigned
  BY <1>3 DEF update_node, reassigned
<1>6. daemon'.event = e
  <2>1. CASE Skipped(h)
    BY <1>1, <2>1, NextEntryMoves DEF update_node
  <2>2. CASE ~Skipped(h)
    BY <1>1, <2>2 DEF update_node, DaemonType
  <2> QED
    BY <2>1, <2>2
<1>7. Line(e, h) \subseteq Notices \X Phandles /\ \A x \in Line(e, h) : x[1] = e
  BY <1>2, LineTyped
<1>8. /\ lines \in [Notices -> SUBSET (Notices \X Phandles)]
      /\ \A f \in Notices : \A x \in lines[f] : x[1] <= e /\ (x[1] \in excused \/ f = x[1])
  BY DEF PrrnInv, LinesInv
<1>9. LinesInv'
  <2>1. lines' \in [Notices -> SUBSET (Notices \X Phandles)]
    BY <1>3, <1>4, <1>7, <1>8
  <2>2. ASSUME NEW f \in Notices, NEW x \in lines'[f]
        PROVE  x[1] <= e /\ (x[1] \in excused' \/ f = x[1])
    <3>1. CASE x \in lines[f]
      BY <1>5, <1>8, <3>1
    <3>2. CASE x \notin lines[f]
      <4>1. f = daemon.file /\ x \in Line(e, h)
        BY <1>3, <1>4, <1>8, <3>2
      <4> QED
        BY <1>2, <1>4, <1>5, <1>7, <4>1
    <3> QED
      BY <3>1, <3>2
  <2> QED
    BY <1>6, <2>1, <2>2 DEF LinesInv
<1>10. \A f \in Notices : lines[f] \subseteq lines'[f]
  BY <1>3, <1>4, <1>8
<1>11. e \in excused' \/ Line(e, h) \subseteq lines'[e]
  BY <1>2, <1>3, <1>4, <1>5, <1>8
<1>12. CASE Skipped(h)
  <2>1. daemon' = NextEntry
    BY <1>12 DEF update_node
  <2>2. h \notin DOMAIN Std \ MemoryBlocks
    BY <1>12, NotSkipped
  <2>3. daemon.event \in excused' \/
          (Entry.op = Update =>
             /\ Line(daemon.event, Entry.node) \subseteq done \union lines'[daemon.event]
             /\ Entry.node \in DOMAIN Std \ MemoryBlocks => UpToDate(daemon.event, Entry.node))
    BY <1>11, <2>2
  <2> QED
    BY <1>1, <1>3, <1>5, <1>9, <1>10, <2>1, <2>3, NextEntryStep DEF update_node
<1>13. CASE ~Skipped(h)
  <2>1. /\ daemon' \in DaemonType /\ daemon'.pc = "call"
        /\ daemon'.event = daemon.event /\ daemon'.file = daemon.file /\ daemon'.name = daemon.name
        /\ daemon'.areas = daemon.areas /\ daemon'.area = daemon.area
        /\ daemon'.entry = daemon.entry /\ daemon'.cmd = daemon.cmd
        /\ daemon'.prop = 1 /\ daemon'.chunk = 1
    <3>1. daemon' = [daemon EXCEPT !.pc = "call", !.prop = 1, !.chunk = 1]
      BY <1>13 DEF update_node
    <3>2. 1 \in Nat \ {0}
      OBVIOUS
    <3> QED
      BY <1>1, <3>1, <3>2 DEF DaemonType, DaemonPlaces
  <2>2. Proceeds
    BY <1>1, <1>5, <2>1 DEF Proceeds, update_node, reassigned
  <2>3. Active' /\ InNode' /\ Entry' = Entry /\ HasEntry' = HasEntry
    BY <1>5, <2>1, EntrySame DEF Active, InNode
  <2>4. FirmwareInv'
    BY <1>3 DEF PrrnInv, FirmwareInv, update_node, reassigned
  <2>5. DaemonInv'
    BY <1>1, <1>5, <1>13, <2>1, <2>3 DEF PrrnInv, DaemonInv, update_node, reassigned
  <2>6. CommandInv'
    <3>1. daemon.cmd = NoCommand
      BY <1>1 DEF PrrnInv, DaemonInv
    <3>2. daemon'.cmd.data = <<>> /\ daemon'.cmd.proplen = 0 /\ Len(daemon'.cmd.data) = 0
      BY <2>1, <3>1 DEF NoCommand
    <3>3. 1 <= Len(Properties[h]) => 1 <= Properties[h][1].chunks
      BY <1>2, <1>13, PropertiesOf
    <3> QED
      BY <2>1, <2>3, <3>2, <3>3 DEF CommandInv
  <2>7. WholeProperties' /\ done' = done /\ early' = early
    BY DEF PrrnInv, WholeProperties, update_node
  <2>8. \A f, i, k : Passed(f, i, k)' <=> Passed(f, i, k)
    BY <1>1, <2>1, <2>3, PassedSame
  <2>9. \A f, i, k \in Nat, g \in Phandles : Asks(f, i, k, g) /\ Logged(f, i, k)' =>
          Logged(f, i, k) \/ (f = daemon.event /\ (f \in excused' \/ Line(f, g) \subseteq lines'[f]))
    <3>1. \A g : Asks(e, daemon.area, daemon.entry, g) => g = h
      BY DEF Asks, Entry, Area
    <3> QED
      BY <1>11, <2>1, <2>8, <3>1 DEF Logged
  <2>10. \A f, g : UpToDate(f, g) => UpToDate(f, g)'
    BY SameTree DEF update_node
  <2>11. (InNode /\ daemon.event \notin excused => \A i \in DOMAIN Properties[Entry.node] :
           i < daemon.prop /\ Properties[Entry.node][i].kind = "data" =>
             Newer(daemon.event, Entry.node, i))'
    <3>1. \A i \in DOMAIN Properties[h] : i \in Nat /\ i >= 1
      BY <1>2, <1>13, PropertiesOf
    <3> QED
      BY <2>1, <2>3, <3>1
  <2> QED
    BY <1>9, <1>10, <2>2, <2>4, <2>5, <2>6, <2>7, <2>8, <2>9, <2>10, <2>11, StayStep
<1> QED
  BY <1>12, <1>13

(* Numbers.                                                                *)
LEMMA DaemonKnown ==
  ASSUME PrrnInv
  PROVE  /\ daemon \in DaemonType /\ daemon.event \in Nat /\ daemon.event <= notices
         /\ daemon.name \in Nat /\ daemon.file \in Nat
         /\ now \in 0 .. MaxTime /\ now \in Nat /\ MaxTime \in Nat
         /\ daemon.event # 0 => daemon.event \in Notices
         /\ Active => /\ daemon.event \in Notices /\ daemon.file \in 1 .. daemon.event
                      /\ daemon.name \in 0 .. now /\ daemon.name \in 0 .. MaxTime
<1>1. daemon \in DaemonType /\ daemon.event <= notices
  BY DEF PrrnInv, DaemonInv
<1>2. daemon.event \in Nat /\ daemon.name \in Nat /\ daemon.file \in Nat
  BY <1>1 DEF DaemonType
<1>3. now \in 0 .. MaxTime /\ MaxTime \in Nat /\ now \in Nat
  <2>1. now \in 0 .. MaxTime /\ MaxTime \in Nat
    BY PrrnAssumption DEF PrrnInv, FirmwareInv
  <2> QED
    BY <2>1
<1>4. notices \in Nat /\ \A e \in 1 .. notices : e \in Notices
  BY NoticeNumbers DEF PrrnInv
<1>5. daemon.event # 0 => daemon.event \in Notices
  BY <1>1, <1>2, <1>4
<1>6. ASSUME Active
      PROVE  /\ daemon.event \in Notices /\ daemon.file \in 1 .. daemon.event
             /\ daemon.name \in 0 .. now /\ daemon.name \in 0 .. MaxTime
  <2>1. daemon.event >= 1 /\ daemon.file \in 1 .. daemon.event /\ daemon.name <= now
    BY <1>6 DEF PrrnInv, DaemonInv
  <2> QED
    BY <1>2, <1>3, <1>5, <2>1
<1> QED
  BY <1>1, <1>2, <1>3, <1>5, <1>6

LEMMA PropertyAtHand ==
  ASSUME daemon \in DaemonType, NEW h \in DOMAIN Std
  PROVE  /\ daemon.prop \in Nat /\ daemon.chunk \in Nat
         /\ Len(Properties[h]) \in Nat
         /\ \A i : i \in DOMAIN Properties[h] <=> i \in 1 .. Len(Properties[h])
         /\ daemon.prop <= Len(Properties[h]) =>
              /\ daemon.prop \in DOMAIN Properties[h]
              /\ Properties[h][daemon.prop].kind \in {"data", "delete", "name"}
              /\ Properties[h][daemon.prop].chunks \in Nat
         /\ daemon.prop + 1 <= Len(Properties[h]) =>
              /\ daemon.prop + 1 \in DOMAIN Properties[h]
              /\ Properties[h][daemon.prop + 1].chunks >= 1
<1>1. daemon.prop \in Nat \ {0} /\ daemon.chunk \in Nat
  BY DEF DaemonType
<1>2. Len(Properties[h]) \in Nat /\ DOMAIN Properties[h] = 1 .. Len(Properties[h])
  BY PropertiesOf
<1>3. \A i \in DOMAIN Properties[h] : /\ Properties[h][i].kind \in {"data", "delete", "name"}
                                     /\ Properties[h][i].chunks \in Nat \ {0}
  BY PropertiesOf
<1>4. daemon.prop <= Len(Properties[h]) => daemon.prop \in DOMAIN Properties[h]
  BY <1>1, <1>2
<1>5. daemon.prop + 1 <= Len(Properties[h]) => daemon.prop + 1 \in DOMAIN Properties[h]
  BY <1>1, <1>2
<1>6. daemon.prop + 1 <= Len(Properties[h]) => Properties[h][daemon.prop + 1].chunks >= 1
  BY <1>3, <1>5
<1> QED
  BY <1>1, <1>2, <1>3, <1>4, <1>5, <1>6

(* A piece is put to those that came before.                               *)
LEMMA PieceAppended ==
  ASSUME NEW s \in Seq(Nat), NEW v \in Nat, NEW t, t = Append(s, v)
  PROVE  /\ t \in Seq(Nat) /\ t # <<>> /\ Len(t) = Len(s) + 1 /\ Len(s) \in Nat
         /\ t[Len(t)] = v /\ \A j \in 1 .. Len(s) : t[j] = s[j]
         /\ \A j \in 1 .. Len(t) : j \in 1 .. Len(s) \/ j = Len(t)
         /\ s = <<>> => Len(t) = 1
         /\ s # <<>> => Head(s) = s[1] /\ 1 \in 1 .. Len(s)
<1>1. /\ t \in Seq(Nat) /\ Len(t) = Len(s) + 1 /\ Len(s) \in Nat
      /\ t[Len(s) + 1] = v /\ \A j \in 1 .. Len(s) : t[j] = s[j]
  OBVIOUS
<1>2. t # <<>>
  BY <1>1
<1>3. \A j \in 1 .. Len(t) : j \in 1 .. Len(s) \/ j = Len(t)
  BY <1>1
<1>4. CASE s = <<>>
  <2>1. Len(s) = 0
    BY <1>4
  <2> QED
    BY <1>1, <1>2, <1>3, <1>4, <2>1
<1>5. CASE s # <<>>
  <2>1. Head(s) = s[1] /\ Len(s) >= 1
    BY <1>5
  <2> QED
    BY <1>1, <1>2, <1>3, <1>5, <2>1
<1> QED
  BY <1>4, <1>5

LEMMA CommandGrows ==
  ASSUME PrrnInv, daemon.pc = "properties", daemon.prop <= Len(Properties[Entry.node]),
         torn' = IF daemon.cmd.data # <<>> /\ Head(daemon.cmd.data) # daemon.returned
                 THEN torn \union {Entry.node} ELSE torn,
         NEW cmd, cmd = Appended(daemon.returned)
  PROVE  /\ cmd \in CommandType /\ cmd.proplen = Len(cmd.data)
         /\ Len(cmd.data) = daemon.chunk /\ cmd.data # <<>>
         /\ \A j \in 1 .. Len(cmd.data) :
              /\ cmd.data[j] >= wanted[daemon.event][Entry.node] /\ cmd.data[j] <= notices
              /\ Entry.node \notin torn' => cmd.data[j] = cmd.data[1]
<1>1. daemon \in DaemonType /\ InNode
  BY DEF PrrnInv, DaemonInv, InNode
<1>2. PICK data, value : data = daemon.cmd.data /\ value = daemon.returned
  OBVIOUS
<1>3. PICK new : new = cmd.data
  OBVIOUS
<1>4. data \in Seq(Nat) /\ value \in Nat /\ daemon.chunk \in Nat
  BY <1>1, <1>2 DEF DaemonType, CommandType
<1>5. /\ daemon.cmd.proplen = Len(data) /\ Len(data) = daemon.chunk - 1
      /\ wanted[daemon.event][Entry.node] <= value /\ value <= notices
      /\ \A j \in 1 .. Len(data) : /\ data[j] >= wanted[daemon.event][Entry.node]
                                   /\ data[j] <= notices
                                   /\ Entry.node \notin torn => data[j] = data[1]
  BY <1>1, <1>2 DEF PrrnInv, CommandInv
<1>6. new = Append(data, value) /\ cmd.proplen = daemon.cmd.proplen + 1
  BY <1>2, <1>3 DEF Appended
<1>7. /\ new \in Seq(Nat) /\ new # <<>> /\ Len(new) = Len(data) + 1 /\ Len(data) \in Nat
      /\ new[Len(new)] = value /\ \A j \in 1 .. Len(data) : new[j] = data[j]
      /\ \A j \in 1 .. Len(new) : j \in 1 .. Len(data) \/ j = Len(new)
      /\ data = <<>> => Len(new) = 1
      /\ data # <<>> => Head(data) = data[1] /\ 1 \in 1 .. Len(data)
  <2>1. new = Append(data, value)
    BY <1>6
  <2>2. data \in Seq(Nat) /\ value \in Nat
    BY <1>4
  <2> QED
    BY <2>1, <2>2, PieceAppended
<1>8. cmd.proplen = Len(new) /\ Len(new) = daemon.chunk
  BY <1>4, <1>5, <1>6, <1>7
<1>9. cmd \in CommandType
  <2>1. cmd = [data |-> new, proplen |-> cmd.proplen]
    BY <1>3 DEF Appended
  <2>2. cmd.proplen \in Nat
    BY <1>4, <1>8
  <2> QED
    BY <1>7, <2>1, <2>2 DEF CommandType
<1>10. wanted[daemon.event][Entry.node] <= value
  BY <1>5
<1>11. ASSUME NEW j \in 1 .. Len(new)
       PROVE  new[j] >= wanted[daemon.event][Entry.node] /\ new[j] <= notices
  <2>1. CASE j \in 1 .. Len(data)
    BY <1>5, <1>7, <2>1
  <2>2. CASE j = Len(new)
    <3>1. wanted[daemon.event][Entry.node] \in Nat
      <4>1. Active /\ HasEntry /\ Entry.node \in DOMAIN Std
        BY <1>1, EntryLogged
      <4>2. daemon.event \in Notices
        BY <4>1, EntryKnown DEF PrrnInv
      <4> QED
        BY <4>1, <4>2 DEF PrrnInv, FirmwareInv
    <3> QED
      BY <1>4, <1>5, <1>7, <2>2, <3>1
  <2> QED
    BY <1>7, <2>1, <2>2
<1>12. ASSUME Entry.node \notin torn', NEW j \in 1 .. Len(new)
       PROVE  new[j] = new[1]
  <2>1. Entry.node \notin torn /\ (data # <<>> => Head(data) = value)
    BY <1>2, <1>12
  <2>2. CASE data = <<>>
    <3>1. j = 1
      BY <1>7, <2>2
    <3> QED
      BY <3>1
  <2>3. CASE data # <<>>
    <3>1. new[1] = data[1] /\ data[1] = value
      BY <1>7, <2>1, <2>3
    <3>2. CASE j \in 1 .. Len(data)
      BY <1>5, <1>7, <2>1, <3>1, <3>2
    <3>3. CASE j = Len(new)
      BY <1>7, <3>1, <3>3
    <3> QED
      BY <1>7, <3>2, <3>3
  <2> QED
    BY <2>2, <2>3
<1> QED
  BY <1>3, <1>7, <1>8, <1>9, <1>11, <1>12

LEMMA TornGrows ==
  ASSUME torn' = IF daemon.cmd.data # <<>> /\ Head(daemon.cmd.data) # daemon.returned
                 THEN torn \union {Entry.node} ELSE torn
  PROVE  torn \subseteq torn'
  OBVIOUS

LEMMA PartialPropertyStep ==
  ASSUME PrrnInv, PartialProperty
  PROVE  PrrnInv'
<1> DEFINE h == Entry.node
           p == Properties[h][daemon.prop]
<1>1. /\ daemon.pc = "properties" /\ InNode /\ daemon \in DaemonType
      /\ Active /\ HasEntry /\ h \in DOMAIN Std
      /\ daemon.prop <= Len(Properties[h]) /\ daemon.chunk < p.chunks
  BY EntryLogged DEF PartialProperty, InNode, PrrnInv, DaemonInv
<1>2. PICK cmd : cmd = Appended(daemon.returned)
  OBVIOUS
<1>3. torn' = IF daemon.cmd.data # <<>> /\ Head(daemon.cmd.data) # daemon.returned
              THEN torn \union {Entry.node} ELSE torn
  BY DEF PartialProperty
<1>4. /\ cmd \in CommandType /\ cmd.proplen = Len(cmd.data)
      /\ Len(cmd.data) = daemon.chunk /\ cmd.data # <<>>
      /\ \A j \in 1 .. Len(cmd.data) :
           /\ cmd.data[j] >= wanted[daemon.event][h] /\ cmd.data[j] <= notices
           /\ h \notin torn' => cmd.data[j] = cmd.data[1]
  BY <1>1, <1>2, <1>3, CommandGrows
<1>5. /\ daemon' \in DaemonType /\ daemon'.pc = "call"
      /\ daemon'.event = daemon.event /\ daemon'.file = daemon.file /\ daemon'.name = daemon.name
      /\ daemon'.areas = daemon.areas /\ daemon'.area = daemon.area
      /\ daemon'.entry = daemon.entry /\ daemon'.cmd = cmd
      /\ daemon'.prop = daemon.prop /\ daemon'.chunk = daemon.chunk + 1
  <2>1. daemon' = [daemon EXCEPT !.pc = "call", !.chunk = daemon.chunk + 1, !.cmd = cmd]
    BY <1>2 DEF PartialProperty
  <2>2. daemon.chunk + 1 \in Nat \ {0}
    BY <1>1 DEF DaemonType
  <2> QED
    BY <1>1, <1>4, <2>1, <2>2 DEF DaemonType, DaemonPlaces
<1>6. Proceeds
  BY <1>1, <1>5 DEF Proceeds, PartialProperty, reassigned, disk
<1>7. Active' /\ InNode' /\ Entry' = Entry /\ HasEntry' = HasEntry
  BY <1>5, EntrySame DEF Active, InNode, PartialProperty, reassigned
<1>8. FirmwareInv'
  BY DEF PrrnInv, FirmwareInv, PartialProperty, reassigned
<1>9. DaemonInv'
  BY <1>1, <1>5, <1>7 DEF PrrnInv, DaemonInv, PartialProperty, reassigned
<1>10. LinesInv' /\ \A e \in Notices : lines[e] \subseteq lines'[e]
  BY <1>5, SameLines DEF PartialProperty, disk
<1>11. CommandInv'
  <2>1. p.chunks \in Nat /\ daemon.chunk \in Nat
    BY <1>1, PropertyAtHand
  <2>2. daemon.chunk + 1 <= p.chunks /\ daemon.chunk + 1 - 1 = daemon.chunk
    BY <1>1, <2>1
  <2>3. wanted' = wanted /\ notices' = notices
    BY DEF PartialProperty, reassigned
  <2> QED
    BY <1>1, <1>4, <1>5, <1>7, <2>2, <2>3 DEF CommandInv
<1>12. torn \subseteq torn'
  BY <1>3, TornGrows
<1>13. WholeProperties' /\ done' = done /\ early' = early
  BY <1>12 DEF PrrnInv, WholeProperties, PartialProperty
<1>14. /\ \A e, i, k : Passed(e, i, k)' <=> Passed(e, i, k)
       /\ \A e, i, k : Logged(e, i, k)' => Logged(e, i, k)
  BY <1>1, <1>5, <1>7, PassedSame
<1>15. \A e, g : UpToDate(e, g) => UpToDate(e, g)'
  BY SameTree DEF PartialProperty
<1>16. (InNode /\ daemon.event \notin excused => \A i \in DOMAIN Properties[Entry.node] :
          i < daemon.prop /\ Properties[Entry.node][i].kind = "data" =>
            Newer(daemon.event, Entry.node, i))'
  <2>1. \A i : Newer(daemon.event, Entry.node, i)' <=> Newer(daemon.event, Entry.node, i)
    BY <1>5, <1>7 DEF Newer, PartialProperty
  <2> QED
    BY <1>1, <1>5, <1>7, <2>1 DEF PrrnInv, UpdatedInv, PartialProperty
<1> QED
  BY <1>6, <1>8, <1>9, <1>10, <1>11, <1>13, <1>14, <1>15, <1>16, StayStep

(* The whole of a property is written to the device tree, all its pieces   *)
(* together, and nothing else changes there.                               *)
LEMMA VersionsBounded ==
  ASSUME NEW s \in Seq(Nat), NEW n \in Nat, \A j \in 1 .. Len(s) : s[j] <= n
  PROVE  s \in Seq(0 .. n)
<1>1. Len(s) \in Nat
  OBVIOUS
<1>2. SubSeq(s, 1, Len(s)) = s
  BY SubSeqFull
<1>3. \A j \in 1 .. Len(s) : s[j] \in 0 .. n
  OBVIOUS
<1>4. SubSeq(s, 1, Len(s)) \in Seq(0 .. n)
  BY <1>1, <1>3, SubSeqProperties
<1> QED
  BY <1>2, <1>4

LEMMA OneVersion ==
  ASSUME NEW s \in Seq(Nat), s # <<>>, \A j \in 1 .. Len(s) : s[j] = s[1]
  PROVE  Cardinality(Range(s)) = 1
<1>1. DOMAIN s = 1 .. Len(s) /\ 1 \in DOMAIN s
  OBVIOUS
<1>2. Range(s) = {s[1]}
  BY <1>1 DEF Range
<1> QED
  BY <1>2, FS_Singleton

LEMMA WholeTree ==
  ASSUME PrrnInv, WholeProperty
  PROVE  LET h == Entry.node
             p == Properties[h][daemon.prop]
             cmd == Appended(daemon.returned)
         IN
         /\ DOMAIN devtree' = DOMAIN Std
         /\ \A g \in DOMAIN Std : g # h => devtree'[g] = devtree[g]
         /\ devtree'[h] \in [PropertyNames(h) -> Seq(0 .. notices)]
         /\ \A i \in DOMAIN Properties[h] :
              i # daemon.prop => devtree'[h][Properties[h][i].name] = devtree[h][Properties[h][i].name]
         /\ p.kind = "name" => devtree'[h] = devtree[h]
         /\ p.kind = "delete" => devtree'[h][p.name] \in {<<>>, devtree[h][p.name]}
         /\ p.kind = "data" =>
              \/ devtree'[h][p.name] = cmd.data
              \/ devtree'[h][p.name] = devtree[h][p.name] /\ daemon.event \in excused'
<1>0. PICK h, p, cmd : /\ h = Entry.node /\ p = Properties[h][daemon.prop]
                       /\ cmd = Appended(daemon.returned)
  OBVIOUS
<1> SUFFICES /\ DOMAIN devtree' = DOMAIN Std
             /\ \A g \in DOMAIN Std : g # h => devtree'[g] = devtree[g]
             /\ devtree'[h] \in [PropertyNames(h) -> Seq(0 .. notices)]
             /\ \A i \in DOMAIN Properties[h] :
                  i # daemon.prop =>
                    devtree'[h][Properties[h][i].name] = devtree[h][Properties[h][i].name]
             /\ p.kind = "name" => devtree'[h] = devtree[h]
             /\ p.kind = "delete" => devtree'[h][p.name] \in {<<>>, devtree[h][p.name]}
             /\ p.kind = "data" =>
                  \/ devtree'[h][p.name] = cmd.data
                  \/ devtree'[h][p.name] = devtree[h][p.name] /\ daemon.event \in excused'
  BY <1>0
<1>1. /\ InNode /\ daemon \in DaemonType /\ h \in DOMAIN Std
      /\ daemon.prop <= Len(Properties[h]) /\ daemon.pc = "properties"
  BY <1>0, EntryLogged DEF WholeProperty, InNode, PrrnInv, DaemonInv
<1>2. daemon.prop \in DOMAIN Properties[h]
  BY <1>0, <1>1, PropertyAtHand
<1>3. /\ p.name \in PropertyNames(h) /\ p.kind \in {"data", "delete", "name"}
      /\ \A i \in DOMAIN Properties[h] :
           /\ Properties[h][i].name \in PropertyNames(h)
           /\ i # daemon.prop => Properties[h][i].name # p.name
  BY <1>0, <1>1, <1>2, PropertiesOf
<1>4. \/ devtree' = devtree /\ (p.kind = "name" \/ daemon.event \in excused')
      \/ /\ p.kind # "name"
         /\ devtree' = [devtree EXCEPT ![h] = Taken(daemon.returned, devtree[h], p)]
  BY <1>0 DEF WholeProperty, do_update, Excuse
<1>5. DOMAIN devtree = DOMAIN Std /\ devtree[h] \in [PropertyNames(h) -> Seq(0 .. notices)]
  BY <1>1 DEF PrrnInv, FirmwareInv
<1>6. /\ cmd \in CommandType /\ cmd.proplen = Len(cmd.data)
      /\ \A j \in 1 .. Len(cmd.data) : cmd.data[j] <= notices
  BY <1>0, <1>1, CommandGrows DEF WholeProperty
<1>7. cmd.data \in Seq(Nat) /\ notices \in Nat
  BY <1>6, NoticeNumbers DEF CommandType, PrrnInv
<1>8. cmd.data \in Seq(0 .. notices) /\ SubSeq(cmd.data, 1, cmd.proplen) = cmd.data
  BY <1>6, <1>7, VersionsBounded, SubSeqFull
<1>9. Accepted(devtree[h], p.name, cmd) = [devtree[h] EXCEPT ![p.name] = cmd.data]
  <2>1. ~(cmd.proplen > Len(cmd.data))
    BY <1>6, <1>7
  <2> QED
    BY <1>8, <2>1 DEF Accepted
<1>10. <<>> \in Seq(0 .. notices)
  OBVIOUS
<1>11. CASE devtree' = devtree /\ (p.kind = "name" \/ daemon.event \in excused')
  BY <1>1, <1>3, <1>5, <1>11 DEF PrrnInv, FirmwareInv
<1>12. CASE p.kind = "delete" /\ devtree' = [devtree EXCEPT ![h] = Taken(daemon.returned, devtree[h], p)]
  <2>1. devtree' = [devtree EXCEPT ![h] = [devtree[h] EXCEPT ![p.name] = <<>>]]
    BY <1>12 DEF Taken
  <2>2. p.kind = "delete" /\ DOMAIN devtree' = DOMAIN Std /\ devtree'[h] = [devtree[h] EXCEPT ![p.name] = <<>>]
    BY <1>1, <1>5, <1>12, <2>1
  <2>3. \A g \in DOMAIN Std : g # h => devtree'[g] = devtree[g]
    BY <1>5, <2>1
  <2> QED
    BY <1>3, <1>5, <1>10, <2>2, <2>3
<1>13. CASE p.kind = "data" /\ devtree' = [devtree EXCEPT ![h] = Taken(daemon.returned, devtree[h], p)]
  <2>1. devtree' = [devtree EXCEPT ![h] = [devtree[h] EXCEPT ![p.name] = cmd.data]]
    BY <1>0, <1>9, <1>13 DEF Taken
  <2>2. p.kind = "data" /\ DOMAIN devtree' = DOMAIN Std /\ devtree'[h] = [devtree[h] EXCEPT ![p.name] = cmd.data]
    BY <1>1, <1>5, <1>13, <2>1
  <2>3. \A g \in DOMAIN Std : g # h => devtree'[g] = devtree[g]
    BY <1>5, <2>1
  <2> QED
    BY <1>3, <1>5, <1>8, <2>2, <2>3
<1> QED
  BY <1>3, <1>4, <1>11, <1>12, <1>13

LEMMA WholePropertyStep ==
  ASSUME PrrnInv, WholeProperty
  PROVE  PrrnInv'
<1>1. PICK h, p : h = Entry.node /\ p = Properties[h][daemon.prop]
  OBVIOUS
<1>2. PICK cmd : cmd = Appended(daemon.returned)
  OBVIOUS
<1>3. /\ daemon.pc = "properties" /\ InNode /\ daemon \in DaemonType
      /\ Active /\ HasEntry /\ h \in DOMAIN Std
      /\ daemon.prop <= Len(Properties[h]) /\ daemon.chunk = p.chunks
  BY <1>1, EntryLogged DEF WholeProperty, InNode, PrrnInv, DaemonInv
<1>4. /\ daemon.event \in 1 .. notices /\ daemon.event \in Notices /\ notices \in Nat
  BY <1>3, EntryKnown, NoticeNumbers DEF PrrnInv
<1>5. /\ cmd \in CommandType /\ Len(cmd.data) = daemon.chunk /\ cmd.data # <<>>
      /\ \A j \in 1 .. Len(cmd.data) :
           /\ cmd.data[j] >= wanted[daemon.event][h] /\ cmd.data[j] <= notices
           /\ h \notin torn' => cmd.data[j] = cmd.data[1]
  BY <1>1, <1>2, <1>3, CommandGrows DEF WholeProperty
<1>6. /\ DOMAIN devtree' = DOMAIN Std
      /\ \A g \in DOMAIN Std : g # h => devtree'[g] = devtree[g]
      /\ devtree'[h] \in [PropertyNames(h) -> Seq(0 .. notices)]
      /\ \A i \in DOMAIN Properties[h] :
           i # daemon.prop => devtree'[h][Properties[h][i].name] = devtree[h][Properties[h][i].name]
      /\ p.kind = "name" => devtree'[h] = devtree[h]
      /\ p.kind = "delete" => devtree'[h][p.name] \in {<<>>, devtree[h][p.name]}
      /\ p.kind = "data" =>
           \/ devtree'[h][p.name] = cmd.data
           \/ devtree'[h][p.name] = devtree[h][p.name] /\ daemon.event \in excused'
  BY <1>1, <1>2, WholeTree
<1>7. daemon.prop \in DOMAIN Properties[h] /\ p.kind \in {"data", "delete", "name"}
  BY <1>1, <1>3, PropertyAtHand
<1>8. cmd.data \in Seq(Nat) /\ DOMAIN cmd.data = 1 .. Len(cmd.data)
  BY <1>5 DEF CommandType
<1>9. /\ daemon' \in DaemonType /\ daemon'.pc \in {"call", "properties"}
      /\ daemon'.pc = "call" => daemon.prop < Len(Properties[h])
      /\ daemon'.event = daemon.event /\ daemon'.file = daemon.file /\ daemon'.name = daemon.name
      /\ daemon'.areas = daemon.areas /\ daemon'.area = daemon.area
      /\ daemon'.entry = daemon.entry /\ daemon'.cmd = NoCommand
      /\ daemon'.prop = daemon.prop + 1 /\ daemon'.chunk = 1 /\ daemon'.returned = daemon.returned
  <2>1. PICK next \in {"properties"} \union (IF daemon.prop < Len(Properties[h]) THEN {"call"} ELSE {}) :
          daemon' = [daemon EXCEPT !.pc = next, !.prop = daemon.prop + 1, !.chunk = 1, !.cmd = NoCommand]
    BY <1>1 DEF WholeProperty
  <2>2. daemon.prop + 1 \in Nat \ {0} /\ 1 \in Nat \ {0} /\ NoCommand \in CommandType
    BY <1>3 DEF DaemonType, NoCommand, CommandType
  <2>3. /\ next \in DaemonPlaces /\ next \in {"call", "properties"}
        /\ next = "call" => daemon.prop < Len(Properties[h])
    BY <2>1 DEF DaemonPlaces
  <2> QED
    BY <1>3, <2>1, <2>2, <2>3 DEF DaemonType
<1>10. Proceeds /\ faults' \in 0 .. MaxFaults /\ excused \subseteq excused'
  <2>1. /\ UNCHANGED <<reassigned, now, disk, drmgr, wanted, done, early>>
        /\ (UNCHANGED <<faults, excused>>) \/ (CallFails /\ Excuse)
    BY DEF WholeProperty, do_update
  <2>2. faults' \in 0 .. MaxFaults /\ excused \subseteq excused'
    BY <2>1, FailureCounted DEF PrrnInv, FirmwareInv, Excuse
  <2> QED
    BY <1>3, <1>9, <2>1, <2>2 DEF Proceeds, reassigned, disk
<1>11. Active' /\ InNode' /\ Entry' = Entry /\ HasEntry' = HasEntry
  BY <1>9, EntrySame DEF Active, InNode, WholeProperty, reassigned
<1>12. notices' = notices /\ wanted' = wanted
  BY DEF WholeProperty, reassigned
<1>13. FirmwareInv'
  <2>1. \A g \in DOMAIN Std : devtree'[g] \in [PropertyNames(g) -> Seq(0 .. notices)]
    BY <1>6 DEF PrrnInv, FirmwareInv
  <2> QED
    BY <1>6, <1>10, <2>1 DEF PrrnInv, FirmwareInv, WholeProperty, reassigned
<1>14. DaemonInv'
  BY <1>3, <1>9, <1>10, <1>11 DEF PrrnInv, DaemonInv, WholeProperty, reassigned
<1>15. LinesInv' /\ \A e \in Notices : lines[e] \subseteq lines'[e]
  BY <1>9, <1>10, SameLines DEF WholeProperty, disk
<1>16. CommandInv'
  <2>1. daemon'.cmd.data = <<>> /\ daemon'.cmd.proplen = 0 /\ Len(daemon'.cmd.data) = 0
    BY <1>9 DEF NoCommand
  <2>2. daemon.prop + 1 <= Len(Properties[h]) => 1 <= Properties[h][daemon.prop + 1].chunks
    BY <1>3, PropertyAtHand
  <2>3. wanted[daemon.event][h] <= daemon.returned /\ daemon.returned <= notices
    BY <1>1, <1>3 DEF PrrnInv, CommandInv
  <2> QED
    BY <1>1, <1>9, <1>11, <1>12, <2>1, <2>2, <2>3 DEF CommandInv
<1>17. torn \subseteq torn'
  BY TornGrows DEF WholeProperty
<1>18. WholeProperties'
  <2> SUFFICES ASSUME NEW g \in DOMAIN Std, g \notin torn', NEW i \in DOMAIN Properties[g],
                      NEW value, value = devtree'[g][Properties[g][i].name], value # <<>>
               PROVE  Len(value) = Properties[g][i].chunks /\ Cardinality(Range(value)) = 1
    BY DEF WholeProperties
  <2>1. ASSUME value = devtree[g][Properties[g][i].name]
        PROVE  Len(value) = Properties[g][i].chunks /\ Cardinality(Range(value)) = 1
    BY <1>17, <2>1 DEF PrrnInv, WholeProperties
  <2>2. CASE g = h /\ i = daemon.prop /\ value = cmd.data
    <3>1. value = cmd.data /\ Properties[g][i].chunks = p.chunks
      BY <1>1, <2>2
    <3>2. Cardinality(Range(cmd.data)) = 1
      BY <1>5, <1>8, <2>2, OneVersion
    <3> QED
      BY <1>3, <1>5, <3>1, <3>2
  <2>3. CASE ~(g = h /\ i = daemon.prop /\ value = cmd.data)
    <3> SUFFICES value = devtree[g][Properties[g][i].name]
      BY <2>1
    <3>1. CASE g # h
      BY <1>6, <3>1
    <3>2. CASE g = h /\ i # daemon.prop
      BY <1>6, <3>2
    <3>3. CASE g = h /\ i = daemon.prop
      BY <1>1, <1>6, <1>7, <2>3, <3>3
    <3> QED
      BY <3>1, <3>2, <3>3
  <2> QED
    BY <2>2, <2>3
<1>19. done' = done /\ early' = early
  BY DEF WholeProperty
<1>20. /\ \A e, i, k : Passed(e, i, k)' <=> Passed(e, i, k)
       /\ \A e, i, k : Logged(e, i, k)' => Logged(e, i, k)
  BY <1>3, <1>9, <1>11, PassedSame
<1>21. \A j \in DOMAIN cmd.data : cmd.data[j] >= wanted[daemon.event][h]
  BY <1>5, <1>8
<1>22. \A e \in 1 .. daemon.event, g \in DOMAIN Std : UpToDate(e, g) => UpToDate(e, g)'
  <2> SUFFICES ASSUME NEW e \in 1 .. daemon.event, NEW g \in DOMAIN Std, UpToDate(e, g),
                      NEW i \in DOMAIN Properties[g], Properties[g][i].kind = "data",
                      NEW value, value = devtree'[g][Properties[g][i].name]
               PROVE  value # <<>> /\ \A j \in DOMAIN value : value[j] >= wanted[e][g]
    BY <1>12 DEF UpToDate
  <2>1. CASE g = h /\ i = daemon.prop /\ value = cmd.data
    <3>2. wanted[e][h] <= wanted[daemon.event][h]
      BY <1>3, <1>4 DEF PrrnInv, VersionInv
    <3>3. wanted[e][h] \in Nat /\ wanted[daemon.event][h] \in Nat
      <4>1. e \in Notices
        BY <1>4, NoticeNumbers DEF PrrnInv
      <4> QED
        BY <1>3, <1>4, <4>1 DEF PrrnInv, FirmwareInv
    <3>4. \A j \in DOMAIN cmd.data : cmd.data[j] \in Nat
      BY <1>8
    <3> QED
      BY <1>5, <1>21, <2>1, <3>2, <3>3, <3>4
  <2>2. CASE ~(g = h /\ i = daemon.prop /\ value = cmd.data)
    <3>1. value = devtree[g][Properties[g][i].name]
      BY <1>1, <1>6, <2>2
    <3> QED
      BY <3>1 DEF UpToDate
  <2> QED
    BY <2>1, <2>2
<1>23. ASSUME daemon.event \notin excused', NEW i \in DOMAIN Properties[h], i < daemon.prop + 1, Properties[h][i].kind = "data"
       PROVE  Newer(daemon.event, h, i)'
  <2> SUFFICES ASSUME NEW value, value = devtree'[h][Properties[h][i].name]
               PROVE  value # <<>> /\ \A j \in DOMAIN value : value[j] >= wanted[daemon.event][h]
    BY <1>1, <1>9, <1>11, <1>12 DEF Newer
  <2>1. CASE i = daemon.prop
    BY <1>1, <1>5, <1>6, <1>21, <1>23, <2>1
  <2>2. CASE i # daemon.prop
    <3>1. i < daemon.prop
      BY <1>3, <1>23, <2>2, PropertyAtHand
    <3>2. Newer(daemon.event, h, i)
      BY <1>1, <1>3, <1>10, <1>23, <3>1 DEF PrrnInv, UpdatedInv
    <3> QED
      BY <1>6, <2>2, <3>2 DEF Newer
  <2> QED
    BY <2>1, <2>2
<1>24. (InNode /\ daemon.event \notin excused => \A i \in DOMAIN Properties[Entry.node] :
          i < daemon.prop /\ Properties[Entry.node][i].kind = "data" =>
            Newer(daemon.event, Entry.node, i))'
  BY <1>1, <1>9, <1>11, <1>23
<1> QED
  BY <1>10, <1>13, <1>14, <1>15, <1>16, <1>18, <1>19, <1>20, <1>22, <1>24, StayStep

(* A notification comes: it is a new one, with versions at least as new.   *)
LEMMA SeqGrows ==
  ASSUME NEW n \in Nat, NEW s \in Seq(0 .. n)
  PROVE  s \in Seq(0 .. n + 1)
<1>1. Len(s) \in Nat /\ \A j \in 1 .. Len(s) : s[j] \in 0 .. n
  OBVIOUS
<1>2. \A j \in 1 .. Len(s) : s[j] \in 0 .. n + 1
  BY <1>1
<1>3. SubSeq(s, 1, Len(s)) \in Seq(0 .. n + 1)
  BY <1>1, <1>2, SubSeqProperties
<1> QED
  BY <1>3, SubSeqFull

LEMMA NotifyStep ==
  ASSUME PrrnInv, Notify
  PROVE  PrrnInv'
<1>1. /\ notices \in Nat /\ notices' = notices + 1 /\ notices + 1 \in Notices
      /\ notices' \in 0 .. MaxNotices /\ \A e \in 1 .. notices : e \in Notices
  BY NoticeNumbers DEF Notify, Notices, PrrnInv
<1>2. PICK s \in Scopes :
        /\ scope' = [scope EXCEPT ![notices + 1] = s]
        /\ version' = [h \in DOMAIN Std |-> IF h \in Touched(s) THEN notices + 1 ELSE version[h]]
  BY DEF Notify
<1>3. wanted' = [wanted EXCEPT ![notices + 1] = version']
  BY DEF Notify
<1>4. /\ version \in [DOMAIN Std -> 0 .. notices]
      /\ scope \in [Notices -> Scopes \union {<<>>}]
      /\ wanted \in [Notices -> [DOMAIN Std -> Nat]]
  BY DEF PrrnInv, FirmwareInv
<1>5. /\ version' \in [DOMAIN Std -> 0 .. notices + 1]
      /\ \A h \in DOMAIN Std : version[h] <= version'[h] /\ version[h] \in Nat /\ version'[h] \in Nat
  BY <1>1, <1>2, <1>4
<1>6. \A e \in 1 .. notices : scope'[e] = scope[e] /\ wanted'[e] = wanted[e]
  BY <1>1, <1>2, <1>3, <1>4
<1>7. wanted'[notices + 1] = version'
  BY <1>1, <1>3, <1>4
<1>8. /\ UNCHANGED <<devtree, now, dir, lines, daemon, drmgr, faults>>
      /\ UNCHANGED <<done, early, torn, excused>>
  BY DEF Notify, disk
<1>9. daemon \in DaemonType /\ daemon.event <= notices /\ \A e \in 1 .. daemon.event : e \in 1 .. notices
  BY <1>1 DEF PrrnInv, DaemonInv, DaemonType
<1>10. (Active' <=> Active) /\ (InNode' <=> InNode)
  BY <1>8 DEF Active, InNode
<1>11. Active => /\ daemon.event \in 1 .. notices
                 /\ scope'[daemon.event] = scope[daemon.event]
                 /\ wanted'[daemon.event] = wanted[daemon.event]
                 /\ HasEntry' = HasEntry /\ Entry' = Entry
  <2>1. ASSUME Active
        PROVE  daemon.event \in 1 .. notices
    BY <1>1, <1>9, <2>1 DEF PrrnInv, DaemonInv, DaemonType
  <2> QED
    BY <1>6, <1>8, <2>1 DEF HasEntry, Entry, Area
<1>12. FirmwareInv'
  <2>1. scope' \in [Notices -> Scopes \union {<<>>}]
    BY <1>2, <1>4
  <2>2. wanted' \in [Notices -> [DOMAIN Std -> Nat]]
    <3>1. version' \in [DOMAIN Std -> Nat]
      BY <1>5
    <3> QED
      BY <1>3, <1>4, <3>1
  <2>3. \A h \in DOMAIN Std : devtree[h] \in [PropertyNames(h) -> Seq(0 .. notices + 1)]
    <3>1. \A h \in DOMAIN Std : devtree[h] \in [PropertyNames(h) -> Seq(0 .. notices)]
      BY DEF PrrnInv, FirmwareInv
    <3> QED
      BY <1>1, <3>1, SeqGrows
  <2> QED
    BY <1>1, <1>5, <1>8, <2>1, <2>2, <2>3 DEF PrrnInv, FirmwareInv
<1>13. DaemonInv'
  BY <1>1, <1>8, <1>9, <1>10, <1>11 DEF PrrnInv, DaemonInv, InNode, Active, DaemonType
<1>14. DrmgrInv'
  BY <1>8, <1>10 DEF PrrnInv, DrmgrInv, Pending
<1>15. \A t : UserOf(t)' = UserOf(t)
  BY <1>8 DEF UserOf, Pending
<1>16. DirInv'
  BY <1>8, <1>10, <1>15 DEF PrrnInv, DirInv
<1>17. OwnFileInv'
  BY <1>8, <1>10, <1>15 DEF PrrnInv, OwnFileInv, Pending
<1>18. LinesInv'
  BY <1>8 DEF PrrnInv, LinesInv
<1>19. \A e \in 1 .. daemon.event : \A i, k, h :
         /\ Asks(e, i, k, h)' <=> Asks(e, i, k, h)
         /\ Passed(e, i, k)' <=> Passed(e, i, k)
         /\ Logged(e, i, k)' <=> Logged(e, i, k)
  BY <1>6, <1>8, <1>9, <1>10 DEF Asks, Passed, Logged
<1>20. HandledInv'
  BY <1>8, <1>10, <1>19 DEF PrrnInv, HandledInv, Holding
<1>21. CommandInv'
  <2>1. CASE InNode
    <3>1. Active
      BY <2>1 DEF InNode, Active
    <3>2. \A n \in Nat : n <= notices => n <= notices + 1
      BY <1>1
    <3>3. CommandType /= {} /\ daemon.cmd.data \in Seq(Nat) /\ daemon.returned \in Nat
      BY <1>9 DEF DaemonType, CommandType
    <3>4. \A j \in 1 .. Len(daemon.cmd.data) : daemon.cmd.data[j] \in Nat
      BY <3>3
    <3> QED
      BY <1>1, <1>8, <1>10, <1>11, <2>1, <3>1, <3>2, <3>3, <3>4 DEF PrrnInv, CommandInv
  <2>2. CASE ~InNode
    <3>1. daemon.pc # "properties"
      BY <2>2 DEF InNode
    <3> QED
      BY <1>8, <1>10, <2>2, <3>1 DEF PrrnInv, CommandInv
  <2> QED
    BY <2>1, <2>2
<1>22. VersionInv'
  <2> SUFFICES ASSUME NEW e \in 1 .. notices + 1, NEW h \in DOMAIN Std
               PROVE  wanted'[e][h] <= version'[h] /\ \A f \in 1 .. e : wanted'[f][h] <= wanted'[e][h]
    BY <1>1 DEF VersionInv
  <2>1. \A f \in 1 .. notices : /\ wanted[f][h] <= version[h] /\ wanted[f][h] \in Nat
                                /\ wanted'[f] = wanted[f]
                                /\ \A g \in 1 .. f : wanted[g][h] <= wanted[f][h]
    BY <1>1, <1>4, <1>6 DEF PrrnInv, VersionInv
  <2>2. version[h] <= version'[h] /\ version[h] \in Nat /\ version'[h] \in Nat
    BY <1>5
  <2>3. \A f \in 1 .. notices + 1 : wanted'[f][h] <= version'[h]
    <3>1. \A f \in 1 .. notices : wanted'[f][h] <= version'[h]
      BY <2>1, <2>2
    <3>2. wanted'[notices + 1][h] <= version'[h]
      BY <1>7, <2>2
    <3> QED
      BY <1>1, <3>1, <3>2
  <2>4. CASE e \in 1 .. notices
    <3>1. \A f \in 1 .. e : f \in 1 .. notices
      BY <1>1, <2>4
    <3> QED
      BY <2>1, <2>3, <2>4, <3>1
  <2>5. CASE e = notices + 1
    BY <1>7, <2>3, <2>5
  <2> QED
    BY <1>1, <2>4, <2>5
<1>23. UpdatedInv'
  <2>1. \A e \in 1 .. daemon.event : \A h : UpToDate(e, h)' <=> UpToDate(e, h)
    BY <1>6, <1>8, <1>9 DEF UpToDate
  <2>2. InNode => \A i : Newer(daemon.event, Entry.node, i)' <=> Newer(daemon.event, Entry.node, i)
    <3>1. InNode => Active
      BY DEF InNode, Active
    <3> QED
      BY <1>8, <1>11, <3>1 DEF Newer
  <2>3. InNode => Entry' = Entry
    BY <1>11 DEF InNode, Active
  <2> QED
    BY <1>8, <1>10, <1>19, <2>1, <2>2, <2>3 DEF PrrnInv, UpdatedInv
<1>24. WholeProperties' /\ NotBeforeUpdate'
  BY <1>8 DEF PrrnInv, WholeProperties, NotBeforeUpdate
<1> QED
  BY <1>12, <1>13, <1>14, <1>16, <1>17, <1>18, <1>20, <1>21, <1>22, <1>23, <1>24 DEF PrrnInv

(* While the daemon stays where it is.                                     *)
LEMMA DaemonStays ==
  ASSUME UNCHANGED <<reassigned, daemon>>
  PROVE  /\ (Active' <=> Active) /\ (InNode' <=> InNode) /\ HasEntry' = HasEntry /\ Entry' = Entry
         /\ \A e, i, k, h : Asks(e, i, k, h)' <=> Asks(e, i, k, h)
         /\ \A e, i, k : (Passed(e, i, k)' <=> Passed(e, i, k)) /\ (Logged(e, i, k)' <=> Logged(e, i, k))
  BY DEF reassigned, Active, InNode, HasEntry, Entry, Area, Asks, Passed, Logged

LEMMA StillStep ==
  ASSUME PrrnInv, UNCHANGED <<reassigned, devtree, lines, daemon, wanted, torn>>,
         now' \in 0 .. MaxTime, now <= now', faults' \in 0 .. MaxFaults, excused \subseteq excused',
         \A e \in Notices : Holding(e) => Holding(e)' \/ e \in excused' \/ lines[e] \subseteq done',
         done \subseteq done', DrmgrInv', DirInv', OwnFileInv', NotBeforeUpdate'
  PROVE  PrrnInv'
<1>1. /\ (Active' <=> Active) /\ (InNode' <=> InNode) /\ HasEntry' = HasEntry /\ Entry' = Entry
      /\ \A e, i, k, h : Asks(e, i, k, h)' <=> Asks(e, i, k, h)
      /\ \A e, i, k : (Passed(e, i, k)' <=> Passed(e, i, k)) /\ (Logged(e, i, k)' <=> Logged(e, i, k))
  BY DaemonStays
<1>2. FirmwareInv'
  BY DEF PrrnInv, FirmwareInv, reassigned
<1>3. DaemonInv'
  <2>1. now \in Int /\ now' \in Int /\ daemon.name \in Int
    BY DEF PrrnInv, FirmwareInv, DaemonInv, DaemonType
  <2> QED
    BY <1>1, <2>1 DEF PrrnInv, DaemonInv, reassigned
<1>4. LinesInv' /\ WholeProperties'
  BY DEF PrrnInv, LinesInv, WholeProperties
<1>5. HandledInv'
  <2> SUFFICES ASSUME NEW e \in (1 .. daemon.event) \ excused', NEW i \in Nat, NEW k \in Nat,
                      NEW h \in Phandles, Asks(e, i, k, h), Logged(e, i, k)
               PROVE  Line(e, h) \subseteq done' \union (IF Holding(e)' THEN lines[e] ELSE {})
    BY <1>1 DEF HandledInv
  <2>1. Line(e, h) \subseteq done \union (IF Holding(e) THEN lines[e] ELSE {})
    BY DEF PrrnInv, HandledInv
  <2>2. e \in Notices
    BY NoticeNumbers DEF PrrnInv, DaemonInv, DaemonType
  <2> QED
    BY <2>1, <2>2
<1>6. CommandInv'
  BY <1>1 DEF PrrnInv, CommandInv, reassigned
<1>7. VersionInv'
  BY DEF PrrnInv, VersionInv, reassigned
<1>8. UpdatedInv'
  <2>1. \A e, h : UpToDate(e, h)' <=> UpToDate(e, h)
    BY DEF UpToDate
  <2>2. \A i : Newer(daemon.event, Entry.node, i)' <=> Newer(daemon.event, Entry.node, i)
    BY <1>1 DEF Newer
  <2> QED
    BY <1>1, <2>1, <2>2 DEF PrrnInv, UpdatedInv
<1> QED
  BY <1>2, <1>3, <1>4, <1>5, <1>6, <1>7, <1>8 DEF PrrnInv

LEMMA TickStep ==
  ASSUME PrrnInv, Tick
  PROVE  PrrnInv'
<1>1. now' \in 0 .. MaxTime /\ now <= now' /\ now \in Nat /\ now' \in Nat
  BY PrrnAssumption DEF PrrnInv, FirmwareInv, Tick
<1>2. (Active' <=> Active) /\ \A e : Pending(e)' <=> Pending(e)
  BY DEF Active, Pending, Tick
<1>3. \A t : UserOf(t)' = UserOf(t)
  BY DEF UserOf, Pending, Tick
<1>4. DrmgrInv'
  <2>1. \A e \in Notices : drmgr[e].name \in Nat
    BY PrrnAssumption DEF PrrnInv, DrmgrInv
  <2> QED
    BY <1>1, <1>2, <2>1 DEF PrrnInv, DrmgrInv, Tick
<1>5. DirInv'
  BY <1>2, <1>3 DEF PrrnInv, DirInv, Tick, disk
<1>6. OwnFileInv'
  BY <1>2, <1>3 DEF PrrnInv, OwnFileInv, Tick, disk, observed
<1>7. NotBeforeUpdate'
  BY DEF PrrnInv, NotBeforeUpdate, Tick, observed
<1>8. \A e \in Notices : Holding(e) => Holding(e)'
  BY <1>2 DEF Holding, Tick
<1> QED
  BY <1>1, <1>4, <1>5, <1>6, <1>7, <1>8, StillStep DEF Tick, disk, observed, PrrnInv, FirmwareInv

(* The daemon goes to rest, at notification n.                             *)
LEMMA EaseKnown ==
  AtEase \in DaemonType /\ AtEase.pc = "idle" /\ AtEase.area = 0 /\ AtEase.cmd = NoCommand
<1>1. NoCommand \in CommandType
  BY DEF NoCommand, CommandType
<1> QED
  BY <1>1 DEF AtEase, DaemonType, DaemonPlaces

LEMMA EaseTyped ==
  ASSUME NEW n \in Nat, NEW d, d = [AtEase EXCEPT !.event = n]
  PROVE  d \in DaemonType /\ d.pc = "idle" /\ d.event = n /\ d.cmd = NoCommand
  BY EaseKnown DEF DaemonType

LEMMA AtEaseStep ==
  ASSUME PrrnInv, NEW n \in Nat, daemon.event <= n, n <= notices,
         daemon' = [AtEase EXCEPT !.event = n],
         UNCHANGED <<reassigned, devtree, now, lines, wanted, done, early, torn>>,
         faults' \in 0 .. MaxFaults, excused \subseteq excused',
         DrmgrInv', DirInv', OwnFileInv',
         \A e \in (1 .. n) \ excused' :
           /\ e \in 1 .. daemon.event
           /\ Holding(e) => Holding(e)'
           /\ \A i, k \in Nat, h \in Phandles : Asks(e, i, k, h) => Passed(e, i, k)
  PROVE  PrrnInv'
<1>1. /\ daemon' \in DaemonType /\ daemon'.pc = "idle" /\ daemon'.event = n
      /\ daemon'.cmd = NoCommand
  BY EaseTyped
<1>2. ~Active' /\ ~InNode'
  BY <1>1 DEF Active, InNode
<1>3. \A e, i, k, h : Asks(e, i, k, h)' <=> Asks(e, i, k, h)
  BY DEF Asks, reassigned
<1>4. daemon.event \in Nat
  BY DEF PrrnInv, DaemonInv, DaemonType
<1>5. FirmwareInv'
  BY DEF PrrnInv, FirmwareInv, reassigned
<1>6. DaemonInv'
  BY <1>1, <1>2 DEF DaemonInv, reassigned
<1>7. LinesInv'
  <2> SUFFICES ASSUME NEW f \in Notices, NEW x \in lines[f]
               PROVE  x[1] <= n /\ (x[1] \in excused' \/ f = x[1])
    BY <1>1 DEF PrrnInv, LinesInv
  <2>1. x[1] <= daemon.event /\ (x[1] \in excused \/ f = x[1]) /\ x[1] \in Notices
    BY DEF PrrnInv, LinesInv
  <2>2. x[1] \in Nat
    BY <2>1 DEF Notices
  <2> QED
    BY <1>4, <2>1, <2>2
<1>8. HandledInv'
  <2> SUFFICES ASSUME NEW e \in (1 .. n) \ excused', NEW i \in Nat, NEW k \in Nat,
                      NEW h \in Phandles, Asks(e, i, k, h)
               PROVE  Line(e, h) \subseteq done \union (IF Holding(e)' THEN lines[e] ELSE {})
    BY <1>1, <1>3 DEF HandledInv
  <2>1. e \in (1 .. daemon.event) \ excused /\ Logged(e, i, k)
    BY DEF Logged
  <2>2. Line(e, h) \subseteq done \union (IF Holding(e) THEN lines[e] ELSE {})
    BY <2>1 DEF PrrnInv, HandledInv
  <2> QED
    BY <2>2
<1>9. CommandInv'
  BY <1>1, <1>2 DEF CommandInv, NoCommand
<1>10. VersionInv'
  BY DEF PrrnInv, VersionInv, reassigned
<1>11. UpdatedInv'
  <2>1. \A e, h : UpToDate(e, h)' <=> UpToDate(e, h)
    BY DEF UpToDate
  <2> SUFFICES ASSUME NEW e \in (1 .. n) \ excused', NEW i \in Nat, NEW k \in Nat,
                      NEW h \in DOMAIN Std \ MemoryBlocks, Asks(e, i, k, h)
               PROVE  UpToDate(e, h)
    BY <1>1, <1>2, <1>3, <2>1 DEF UpdatedInv
  <2>2. h \in Phandles
    BY DEF Phandles
  <2>3. e \in (1 .. daemon.event) \ excused /\ Passed(e, i, k)
    BY <2>2
  <2> QED
    BY <2>3 DEF PrrnInv, UpdatedInv
<1>12. WholeProperties' /\ NotBeforeUpdate'
  BY DEF PrrnInv, WholeProperties, NotBeforeUpdate
<1> QED
  BY <1>5, <1>6, <1>7, <1>8, <1>9, <1>10, <1>11, <1>12 DEF PrrnInv

LEMMA OpenFailsStep ==
  ASSUME PrrnInv, OpenFails
  PROVE  PrrnInv'
<1>1. PICK n : n = daemon.event + 1
  OBVIOUS
<1>2. /\ daemon.event \in Nat /\ notices \in Nat /\ n \in Nat /\ daemon.event <= n /\ n <= notices
  BY <1>1, NoticeNumbers DEF PrrnInv, DaemonInv, DaemonType, OpenFails
<1>3. daemon' = [AtEase EXCEPT !.event = n] /\ excused' = excused \union {n} /\ ~Active
  BY <1>1 DEF OpenFails, Active
<1>4. ~Active' /\ daemon'.event = n
  BY <1>3 DEF Active, AtEase
<1>5. DrmgrInv'
  <2> SUFFICES ASSUME NEW e \in Notices, Pending(e)
               PROVE  drmgr[e].name <= now /\ e <= n
    BY <1>4 DEF PrrnInv, DrmgrInv, OpenFails, Pending
  <2>1. drmgr[e].name <= now /\ e <= daemon.event /\ e \in Nat
    BY DEF PrrnInv, DrmgrInv, Notices
  <2> QED
    BY <1>2, <2>1
<1>6. \A t : UserOf(t)' = UserOf(t)
  BY DEF UserOf, Pending, OpenFails
<1>7. DirInv'
  <2>1. 0 .. daemon.event \subseteq 0 .. n
    BY <1>2
  <2> QED
    BY <1>3, <1>4, <1>6, <2>1 DEF PrrnInv, DirInv, OpenFails, disk
<1>8. OwnFileInv'
  BY <1>3, <1>4, <1>6 DEF PrrnInv, OwnFileInv, OpenFails, disk, Pending
<1>9. ASSUME NEW e \in (1 .. n) \ excused'
      PROVE  /\ e \in 1 .. daemon.event
             /\ Holding(e) => Holding(e)'
             /\ \A i, k \in Nat, h \in Phandles : Asks(e, i, k, h) => Passed(e, i, k)
  <2>1. e \in 1 .. daemon.event
    BY <1>1, <1>2, <1>3
  <2>2. Holding(e) => Holding(e)'
    BY <1>3 DEF Holding, OpenFails
  <2>3. \A i, k : Passed(e, i, k)
    BY <1>2, <1>3, <2>1 DEF Passed
  <2> QED
    BY <2>1, <2>2, <2>3
<1>10. faults' \in 0 .. MaxFaults
  BY FailureCounted DEF OpenFails
<1> QED
  BY <1>2, <1>3, <1>5, <1>7, <1>8, <1>9, <1>10, AtEaseStep DEF OpenFails, disk

(* All that a notification asks has been passed when the daemon is done.   *)
LEMMA NoticeOver ==
  ASSUME PrrnInv, AllDone, daemon.event \notin excused,
         NEW i \in Nat, NEW k \in Nat, NEW h \in Phandles, Asks(daemon.event, i, k, h)
  PROVE  Passed(daemon.event, i, k)
<1>1. Active /\ daemon.pc = "nodes" /\ ~HasEntry /\ daemon.area = daemon.areas
  BY DEF AllDone, Active
<1>2. daemon.event \in Notices /\ daemon.areas = Len(scope[daemon.event]) /\ daemon.area \in Nat
  BY <1>1, NoticeNumbers DEF PrrnInv, DaemonInv, DaemonType
<1>3. scope[daemon.event] \in Seq(Seq(Entries)) /\ i \in DOMAIN scope[daemon.event]
  BY <1>2, NoticeScope DEF PrrnInv, Asks
<1>4. i <= daemon.area
  BY <1>1, <1>2, <1>3
<1>5. CASE i = daemon.area
  BY <1>1, <1>5, AreaOver
<1>6. CASE i < daemon.area
  BY <1>6 DEF Passed
<1> QED
  BY <1>2, <1>4, <1>5, <1>6

LEMMA StartDrmgrStep ==
  ASSUME PrrnInv, StartDrmgr
  PROVE  PrrnInv'
<1>1. PICK n, t : n = daemon.event /\ t = daemon.name
  OBVIOUS
<1>2. /\ AllDone /\ Active /\ daemon' = [AtEase EXCEPT !.event = n]
      /\ drmgr' = [drmgr EXCEPT ![n] = [pc |-> "read", name |-> t]]
  BY <1>1 DEF StartDrmgr, BackToEase, AllDone, Active
<1>3. /\ n \in Notices /\ n \in Nat /\ n <= notices /\ t \in 0 .. MaxTime /\ t <= now
  BY <1>1, <1>2, DaemonKnown
<1>4. drmgr \in [Notices -> [pc : {"none", "read", "delete"}, name : 0 .. MaxTime]]
  BY DEF PrrnInv, DrmgrInv
<1>5. /\ drmgr' \in [Notices -> [pc : {"none", "read", "delete"}, name : 0 .. MaxTime]]
      /\ drmgr'[n].pc = "read" /\ drmgr'[n].name = t
      /\ \A e \in Notices : e # n => drmgr'[e] = drmgr[e]
  <2>1. [pc |-> "read", name |-> t] \in [pc : {"none", "read", "delete"}, name : 0 .. MaxTime]
    BY <1>3
  <2> QED
    BY <1>2, <1>3, <1>4, <2>1
<1>6. ~Active' /\ daemon'.event = n
  BY <1>2 DEF Active, AtEase
<1>7. Pending(n)' /\ \A e \in Notices : e # n => (Pending(e)' <=> Pending(e))
  BY <1>5 DEF Pending
<1>8. ~Pending(n)
  BY <1>1, <1>2, <1>3 DEF PrrnInv, DrmgrInv
<1>9. DrmgrInv'
  <2> SUFFICES ASSUME NEW e \in Notices, Pending(e)'
               PROVE  drmgr'[e].name <= now /\ e <= n
    BY <1>5, <1>6 DEF DrmgrInv, StartDrmgr
  <2>1. CASE e = n
    BY <1>3, <1>5, <2>1
  <2>2. CASE e # n
    BY <1>1, <1>5, <1>7, <2>2 DEF PrrnInv, DrmgrInv
  <2> QED
    BY <2>1, <2>2
<1>10. /\ \A u : u # t => UserOf(u)' = UserOf(u)
       /\ UserOf(t)' = UserOf(t) \union {n}
  <2>1. ASSUME NEW u, u # t
        PROVE  UserOf(u)' = UserOf(u)
    BY <1>3, <1>5, <1>7, <1>8, <2>1 DEF UserOf
  <2>2. UserOf(t)' = UserOf(t) \union {n}
    BY <1>3, <1>5, <1>7, <1>8 DEF UserOf
  <2> QED
    BY <2>1, <2>2
<1>11. dir' = dir /\ excused' = excused /\ lines' = lines
  BY DEF StartDrmgr, disk, observed
<1>12. DirInv'
  BY <1>1, <1>2, <1>6, <1>10, <1>11 DEF PrrnInv, DirInv
<1>13. OwnFileInv'
  <2> SUFFICES ASSUME NEW e \in Notices \ excused, Pending(e)'
               PROVE  (/\ UserOf(drmgr[e].name) = {e}
                       /\ drmgr[e].pc = "read" => dir[drmgr[e].name] = e)'
    BY <1>6, <1>11 DEF OwnFileInv
  <2>1. CASE e = n
    <3>1. UserOf(t) = {} /\ dir[t] = n
      BY <1>1, <1>2, <2>1 DEF PrrnInv, OwnFileInv
    <3>2. UserOf(t)' = {e} /\ drmgr'[e].name = t
      BY <1>5, <1>10, <2>1, <3>1
    <3>3. (UserOf(drmgr[e].name))' = UserOf(t)'
      BY <3>2 DEF UserOf
    <3> QED
      BY <1>11, <2>1, <3>1, <3>2, <3>3
  <2>2. CASE e # n
    <3>1. /\ Pending(e) /\ drmgr'[e] = drmgr[e]
      BY <1>5, <1>7, <2>2
    <3>2. PICK m : m = drmgr[e].name
      OBVIOUS
    <3>3. /\ UserOf(m) = {e} /\ m # t
          /\ drmgr[e].pc = "read" => dir[m] = e
      BY <1>1, <1>2, <3>1, <3>2 DEF PrrnInv, OwnFileInv
    <3>4. UserOf(m)' = {e}
      BY <1>10, <3>3
    <3>5. (UserOf(drmgr[e].name))' = UserOf(m)'
      BY <3>1, <3>2 DEF UserOf
    <3> QED
      BY <1>11, <3>1, <3>2, <3>3, <3>4, <3>5
  <2> QED
    BY <2>1, <2>2
<1>14. ASSUME NEW e \in (1 .. n) \ excused
       PROVE  /\ e \in 1 .. daemon.event
              /\ Holding(e) => Holding(e)'
              /\ \A i, k \in Nat, h \in Phandles : Asks(e, i, k, h) => Passed(e, i, k)
  <2>1. e \in Notices
    BY <1>3, NoticeNumbers DEF PrrnInv
  <2>2. CASE e = n
    <3>1. Holding(e)'
      BY <1>5, <2>2 DEF Holding
    <3> QED
      BY <1>1, <1>2, <2>2, <3>1, NoticeOver
  <2>3. CASE e # n
    <3>1. \A i, k : Passed(e, i, k)
      BY <1>1, <1>3, <2>3 DEF Passed
    <3>2. Holding(e) => Holding(e)'
      BY <1>1, <1>5, <2>1, <2>3 DEF Holding
    <3> QED
      BY <1>1, <3>1, <3>2
  <2> QED
    BY <2>2, <2>3
<1>15. faults' \in 0 .. MaxFaults
  BY DEF StartDrmgr, PrrnInv, FirmwareInv
<1> QED
  BY <1>1, <1>2, <1>3, <1>9, <1>11, <1>12, <1>13, <1>14, <1>15, AtEaseStep DEF StartDrmgr, disk, observed

LEMMA StartDrmgrFailsStep ==
  ASSUME PrrnInv, StartDrmgrFails
  PROVE  PrrnInv'
<1>1. PICK n, t : n = daemon.event /\ t = daemon.name
  OBVIOUS
<1>2. /\ Active /\ daemon' = [AtEase EXCEPT !.event = n]
      /\ dir' = [dir EXCEPT ![t] = 0]
      /\ excused' = excused \union {n} \union UserOf(t)
  BY <1>1 DEF StartDrmgrFails, BackToEase, AllDone, Active
<1>3. /\ n \in Notices /\ n \in Nat /\ n <= notices /\ t \in 0 .. MaxTime
  BY <1>1, <1>2, DaemonKnown
<1>4. ~Active' /\ daemon'.event = n
  BY <1>2 DEF Active, AtEase
<1>5. drmgr' = drmgr /\ now' = now
  BY DEF StartDrmgrFails
<1>6. (\A e : Pending(e)' <=> Pending(e)) /\ \A u : UserOf(u)' = UserOf(u)
  BY <1>5 DEF UserOf, Pending
<1>7. DrmgrInv'
  BY <1>1, <1>4, <1>5, <1>6 DEF PrrnInv, DrmgrInv
<1>8. /\ dir \in [0 .. MaxTime -> 0 .. n] /\ dir' \in [0 .. MaxTime -> 0 .. n]
      /\ dir'[t] = 0 /\ \A u \in 0 .. MaxTime : u # t => dir'[u] = dir[u]
  BY <1>1, <1>2, <1>3 DEF PrrnInv, DirInv
<1>9. DirInv'
  BY <1>1, <1>2, <1>4, <1>6, <1>8 DEF PrrnInv, DirInv
<1>10. OwnFileInv'
  <2> SUFFICES ASSUME NEW e \in Notices \ excused', Pending(e)
               PROVE  /\ UserOf(drmgr[e].name) = {e}
                      /\ drmgr[e].pc = "read" => dir'[drmgr[e].name] = e
    BY <1>4, <1>5, <1>6 DEF OwnFileInv
  <2>1. e \notin excused /\ e \notin UserOf(t) /\ drmgr[e].name \in 0 .. MaxTime
    BY <1>2 DEF PrrnInv, DrmgrInv
  <2>2. drmgr[e].name # t
    BY <2>1 DEF UserOf
  <2> QED
    BY <1>8, <2>1, <2>2 DEF PrrnInv, OwnFileInv
<1>11. ASSUME NEW e \in (1 .. n) \ excused'
       PROVE  /\ e \in 1 .. daemon.event
              /\ Holding(e) => Holding(e)'
              /\ \A i, k \in Nat, h \in Phandles : Asks(e, i, k, h) => Passed(e, i, k)
  <2>1. e # n
    BY <1>2
  <2>2. \A i, k : Passed(e, i, k)
    BY <1>1, <1>3, <2>1 DEF Passed
  <2>3. Holding(e) => Holding(e)'
    BY <1>1, <1>5, <2>1 DEF Holding
  <2> QED
    BY <1>1, <2>2, <2>3
<1>12. faults' \in 0 .. MaxFaults
  BY FailureCounted DEF StartDrmgrFails
<1> QED
  BY <1>1, <1>2, <1>3, <1>7, <1>9, <1>10, <1>11, <1>12, AtEaseStep DEF StartDrmgrFails

(* The log is opened: a notification that is not excused gets a file that  *)
(* no drmgr works on.                                                      *)
LEMMA OpenLogStep ==
  ASSUME PrrnInv, OpenLog
  PROVE  PrrnInv'
<1>1. PICK n, f : /\ n = daemon.event + 1
                  /\ f = IF dir[now] = 0 THEN n ELSE dir[now]
  OBVIOUS
<1>2. /\ dir' = [dir EXCEPT ![now] = f]
      /\ lines' = [lines EXCEPT ![f] = {}]
      /\ daemon' = [AtEase EXCEPT !.pc = "nodes", !.event = n, !.file = f, !.name = now,
                                  !.areas = Len(scope[n])]
      /\ excused' = excused \union (IF UserOf(now) = {} THEN {} ELSE {n} \union UserOf(now))
      /\ ~Active
  BY <1>1 DEF OpenLog, Active
<1>3. /\ daemon.event \in Nat /\ n \in Nat /\ n = daemon.event + 1 /\ n <= notices /\ n \in Notices
      /\ now \in 0 .. MaxTime /\ now \in Nat /\ notices \in Nat
  <2>1. daemon.event \in Nat /\ daemon.event < notices /\ notices \in Nat
    BY NoticeNumbers DEF PrrnInv, DaemonInv, DaemonType, OpenLog
  <2>2. now \in 0 .. MaxTime /\ now \in Nat
    BY PrrnAssumption DEF PrrnInv, FirmwareInv
  <2>3. n \in 1 .. notices
    BY <1>1, <2>1
  <2> QED
    BY <1>1, <2>1, <2>2, <2>3, NoticeNumbers DEF PrrnInv
<1>4. /\ dir \in [0 .. MaxTime -> 0 .. daemon.event]
      /\ \A t, u \in 0 .. MaxTime : dir[t] = dir[u] /\ dir[t] # 0 => t = u
      /\ \A t \in 0 .. MaxTime : dir[t] # 0 => UserOf(t) # {}
  BY <1>2 DEF PrrnInv, DirInv
<1>5. f \in 1 .. n /\ f \in Notices
  <2>1. dir[now] \in 0 .. daemon.event
    BY <1>3, <1>4
  <2>2. f \in 1 .. n
    BY <1>1, <1>3, <2>1
  <2> QED
    BY <1>3, <2>2, NoticeNumbers DEF PrrnInv
<1>6. scope[n] \in Seq(Seq(Entries)) /\ Len(scope[n]) \in Nat
  BY <1>3, NoticeScope DEF PrrnInv
<1>7. /\ daemon' \in DaemonType /\ daemon'.pc = "nodes" /\ daemon'.event = n
      /\ daemon'.file = f /\ daemon'.name = now /\ daemon'.areas = Len(scope[n])
      /\ daemon'.area = 0 /\ daemon'.cmd = NoCommand
  <2>1. PICK m : m = Len(scope[n]) /\ m \in Nat
    BY <1>6
  <2>2. f \in Nat /\ n \in Nat /\ now \in Nat
    BY <1>3, <1>5
  <2>3. daemon' = [AtEase EXCEPT !.pc = "nodes", !.event = n, !.file = f, !.name = now, !.areas = m]
    BY <1>2, <2>1
  <2>4. "nodes" \in DaemonPlaces
    BY DEF DaemonPlaces
  <2> QED
    BY <2>1, <2>2, <2>3, <2>4, EaseKnown DEF DaemonType
<1>8. Active' /\ ~InNode' /\ ~HasEntry'
  BY <1>7 DEF Active, InNode, HasEntry
<1>9. /\ scope' = scope /\ notices' = notices /\ version' = version /\ wanted' = wanted
      /\ devtree' = devtree /\ now' = now /\ drmgr' = drmgr /\ done' = done /\ early' = early
      /\ torn' = torn /\ faults' = faults /\ excused \subseteq excused'
  BY <1>2 DEF OpenLog, reassigned
<1>10. (\A e : Pending(e)' <=> Pending(e)) /\ \A t : UserOf(t)' = UserOf(t)
  BY <1>9 DEF UserOf, Pending
<1>11. n \notin excused' => UserOf(now) = {} /\ dir[now] = 0 /\ f = n
  BY <1>1, <1>2, <1>3, <1>4
<1>12. FirmwareInv'
  BY <1>9 DEF PrrnInv, FirmwareInv
<1>13. DaemonInv'
  BY <1>3, <1>5, <1>6, <1>7, <1>8, <1>9 DEF DaemonInv
<1>14. \A e \in Notices : Pending(e) =>
         /\ drmgr[e].name <= now /\ e <= daemon.event /\ e # n /\ e <= n
         /\ drmgr[e].name \in 0 .. MaxTime
  <2> SUFFICES ASSUME NEW e \in Notices, Pending(e)
               PROVE  /\ drmgr[e].name <= now /\ e <= daemon.event /\ e # n /\ e <= n
                      /\ drmgr[e].name \in 0 .. MaxTime
    OBVIOUS
  <2>1. drmgr[e].name <= now /\ e <= daemon.event /\ drmgr[e].name \in 0 .. MaxTime
    BY DEF PrrnInv, DrmgrInv
  <2>2. e \in Nat
    BY DEF Notices
  <2>3. e # n /\ e <= n
    BY <1>3, <2>1, <2>2
  <2> QED
    BY <2>1, <2>3
<1>15. DrmgrInv'
  BY <1>7, <1>9, <1>10, <1>14 DEF PrrnInv, DrmgrInv
<1>16. /\ dir' \in [0 .. MaxTime -> 0 .. n] /\ dir'[now] = f
       /\ \A t \in 0 .. MaxTime : t # now => dir'[t] = dir[t] /\ dir[t] <= daemon.event
  <2>1. dir \in [0 .. MaxTime -> 0 .. n]
    <3>1. 0 .. daemon.event \subseteq 0 .. n
      BY <1>3
    <3> QED
      BY <1>4, <3>1
  <2>2. f \in 0 .. n
    BY <1>5
  <2>3. \A t \in 0 .. MaxTime : dir[t] <= daemon.event
    BY <1>3, <1>4
  <2> QED
    BY <1>2, <1>3, <2>1, <2>2, <2>3
<1>17. \A t \in 0 .. MaxTime : t # now => dir[t] # f \/ dir[t] = 0
  <2> SUFFICES ASSUME NEW t \in 0 .. MaxTime, t # now, dir[t] = f, dir[t] # 0
               PROVE  FALSE
    OBVIOUS
  <2>1. dir[t] \in 0 .. daemon.event
    BY <1>4
  <2>2. f # n
    BY <1>3, <2>1
  <2> QED
    BY <1>1, <1>3, <1>4, <2>2
<1>18. DirInv'
  <2>1. \A t, u \in 0 .. MaxTime : dir'[t] = dir'[u] /\ dir'[t] # 0 => t = u
    BY <1>4, <1>16, <1>17
  <2>2. \A t \in 0 .. MaxTime : dir'[t] # 0 => UserOf(t) # {} \/ now = t
    BY <1>4, <1>16
  <2> QED
    BY <1>7, <1>8, <1>10, <1>16, <2>1, <2>2 DEF DirInv
<1>19. \A e \in Notices \ excused' : Pending(e) =>
         /\ UserOf(drmgr[e].name) = {e} /\ drmgr[e].name # now
         /\ drmgr[e].pc = "read" => dir[drmgr[e].name] = e
  <2> SUFFICES ASSUME NEW e \in Notices \ excused', Pending(e)
               PROVE  /\ UserOf(drmgr[e].name) = {e} /\ drmgr[e].name # now
                      /\ drmgr[e].pc = "read" => dir[drmgr[e].name] = e
    OBVIOUS
  <2>1. e \notin excused /\ e \notin UserOf(now)
    BY <1>2
  <2> QED
    BY <2>1 DEF PrrnInv, OwnFileInv, UserOf
<1>20. OwnFileInv'
  <2>1. n \notin excused' => f = n /\ dir'[now] = n /\ UserOf(now) = {}
    BY <1>11, <1>16
  <2>2. \A e \in Notices \ excused' : Pending(e) =>
          /\ UserOf(drmgr[e].name) = {e} /\ now # drmgr[e].name
          /\ drmgr[e].pc = "read" => dir'[drmgr[e].name] = e
    BY <1>14, <1>16, <1>19
  <2> QED
    BY <1>7, <1>8, <1>9, <1>10, <2>1, <2>2 DEF OwnFileInv
<1>21. /\ lines \in [Notices -> SUBSET (Notices \X Phandles)]
       /\ \A g \in Notices : \A x \in lines[g] :
            x[1] <= daemon.event /\ (x[1] \in excused \/ g = x[1]) /\ x[1] \in Nat
  <2>1. \A x \in Notices \X Phandles : x[1] \in Nat
    BY DEF Notices
  <2> QED
    BY <2>1 DEF PrrnInv, LinesInv
<1>22. LinesInv'
  <2>1. lines' \in [Notices -> SUBSET (Notices \X Phandles)]
    BY <1>2, <1>21
  <2>2. \A g \in Notices : lines'[g] \subseteq lines[g]
    BY <1>2, <1>5, <1>21
  <2>3. \A g \in Notices : \A x \in lines'[g] : x[1] <= n /\ (x[1] \in excused' \/ g = x[1])
    BY <1>3, <1>9, <1>21, <2>2
  <2> QED
    BY <1>7, <2>1, <2>3 DEF LinesInv
<1>23. \A e, i, k, h : Asks(e, i, k, h)' <=> Asks(e, i, k, h)
  BY <1>9 DEF Asks
<1>24. ASSUME NEW e \in 1 .. n, NEW i \in Nat, NEW k \in Nat, NEW h, Asks(e, i, k, h), Passed(e, i, k)'
       PROVE  e \in 1 .. daemon.event /\ Passed(e, i, k)
  <2>1. i >= 1
    <3>1. e \in Notices
      BY <1>3, NoticeNumbers DEF PrrnInv
    <3>2. scope[e] \in Seq(Seq(Entries)) /\ i \in DOMAIN scope[e]
      BY <1>24, <3>1, NoticeScope DEF PrrnInv, Asks
    <3> QED
      BY <3>2
  <2>2. e < n
    BY <1>3, <1>7, <1>8, <1>24, <2>1 DEF Passed
  <2>3. e \in 1 .. daemon.event
    BY <1>3, <2>2
  <2>4. Passed(e, i, k)
    BY <1>2, <1>3, <2>3 DEF Passed
  <2> QED
    BY <2>3, <2>4
<1>25. HandledInv'
  <2> SUFFICES ASSUME NEW e \in (1 .. n) \ excused', NEW i \in Nat, NEW k \in Nat, NEW h \in Phandles,
                      Asks(e, i, k, h), Passed(e, i, k)'
               PROVE  Line(e, h) \subseteq done \union (IF Holding(e)' THEN lines'[e] ELSE {})
    BY <1>7, <1>8, <1>9, <1>23 DEF HandledInv, Logged
  <2>1. e \in (1 .. daemon.event) \ excused /\ Passed(e, i, k)
    BY <1>9, <1>24
  <2>2. Line(e, h) \subseteq done \union (IF Holding(e) THEN lines[e] ELSE {})
    BY <2>1 DEF PrrnInv, HandledInv, Logged
  <2>3. e \in Notices
    BY <1>3, NoticeNumbers DEF PrrnInv
  <2>4. ASSUME Holding(e)
        PROVE  Holding(e)' /\ lines'[e] = lines[e]
    <3>1. drmgr[e].pc = "read" /\ Pending(e)
      BY <1>2, <2>4 DEF Holding, Pending
    <3>2. Holding(e)'
      BY <1>9, <3>1 DEF Holding
    <3>3. e # f
      <4>1. CASE dir[now] = 0
        BY <1>1, <1>3, <2>1, <4>1
      <4>2. CASE dir[now] # 0
        <5> SUFFICES ASSUME e = dir[now]
                     PROVE  FALSE
          BY <1>1, <4>2
        <5>1. dir[drmgr[e].name] = e /\ drmgr[e].name # now /\ drmgr[e].name \in 0 .. MaxTime
          BY <1>14, <1>19, <2>3, <3>1
        <5> QED
          BY <1>3, <1>4, <4>2, <5>1
      <4> QED
        BY <4>1, <4>2
    <3> QED
      BY <1>2, <1>21, <2>3, <3>2, <3>3
  <2> QED
    BY <2>2, <2>4
<1>26. CommandInv'
  BY <1>7, <1>8 DEF CommandInv, NoCommand
<1>27. VersionInv'
  BY <1>9 DEF PrrnInv, VersionInv
<1>28. UpdatedInv'
  <2>1. \A e, h : UpToDate(e, h)' <=> UpToDate(e, h)
    BY <1>9 DEF UpToDate
  <2> SUFFICES ASSUME NEW e \in (1 .. n) \ excused', NEW i \in Nat, NEW k \in Nat,
                      NEW h \in DOMAIN Std \ MemoryBlocks, Asks(e, i, k, h), Passed(e, i, k)'
               PROVE  UpToDate(e, h)
    BY <1>7, <1>8, <1>23, <2>1 DEF UpdatedInv
  <2>2. e \in (1 .. daemon.event) \ excused /\ Passed(e, i, k)
    BY <1>9, <1>24
  <2> QED
    BY <2>2 DEF PrrnInv, UpdatedInv
<1>29. WholeProperties' /\ NotBeforeUpdate'
  BY <1>9 DEF PrrnInv, WholeProperties, NotBeforeUpdate
<1> QED
  BY <1>12, <1>13, <1>15, <1>18, <1>20, <1>22, <1>25, <1>26, <1>27, <1>28, <1>29 DEF PrrnInv

(* drmgr reads: what the daemon is copying is in no file that drmgr reads. *)
LEMMA DrmgrReadsStep ==
  ASSUME PrrnInv, NEW e \in Notices, DrmgrReads(e)
  PROVE  PrrnInv'
<1>1. PICK t, f : t = drmgr[e].name /\ f = dir[t]
  OBVIOUS
<1>2. /\ drmgr[e].pc = "read" /\ Pending(e)
      /\ done' = IF f = 0 THEN done ELSE done \union lines[f]
      /\ early' = IF f = 0 THEN early ELSE early \union {x \in lines[f] : Copying(x)}
      /\ drmgr' = [drmgr EXCEPT ![e].pc = "delete"]
  BY <1>1 DEF DrmgrReads, Pending
<1>3. UNCHANGED <<scope, notices, version, devtree, now, dir, lines, daemon, faults, wanted, torn, excused>>
  BY DEF DrmgrReads, reassigned, disk
<1>4. /\ drmgr \in [Notices -> [pc : {"none", "read", "delete"}, name : 0 .. MaxTime]]
      /\ t <= now /\ e <= daemon.event /\ (Active => e # daemon.event) /\ t \in 0 .. MaxTime
  BY <1>1, <1>2 DEF PrrnInv, DrmgrInv
<1>5. /\ drmgr' \in [Notices -> [pc : {"none", "read", "delete"}, name : 0 .. MaxTime]]
      /\ drmgr'[e].pc = "delete" /\ drmgr'[e].name = t
      /\ \A g \in Notices : g # e => drmgr'[g] = drmgr[g]
      /\ \A g \in Notices : drmgr'[g].name = drmgr[g].name
  BY <1>1, <1>2, <1>4
<1>6. (\A g \in Notices : Pending(g)' <=> Pending(g)) /\ (Active' <=> Active)
  BY <1>2, <1>3, <1>5 DEF Pending, Active
<1>7. \A u : UserOf(u)' = UserOf(u)
  BY <1>5, <1>6 DEF UserOf
<1>8. DrmgrInv'
  BY <1>3, <1>5, <1>6 DEF PrrnInv, DrmgrInv
<1>9. DirInv'
  BY <1>3, <1>6, <1>7 DEF PrrnInv, DirInv
<1>10. OwnFileInv'
  <2>1. \A g \in Notices : (UserOf(drmgr[g].name))' = UserOf(drmgr[g].name)
    BY <1>5, <1>6 DEF UserOf
  <2>2. \A g \in Notices : drmgr'[g].pc = "read" => drmgr[g].pc = "read"
    BY <1>5
  <2>3. UserOf(daemon.name)' = UserOf(daemon.name)
    BY <1>3, <1>5, <1>6 DEF UserOf
  <2> QED
    BY <1>3, <1>5, <1>6, <2>1, <2>2, <2>3 DEF PrrnInv, OwnFileInv
<1>11. NotBeforeUpdate'
  <2> SUFFICES ASSUME NEW x \in lines[f], Copying(x), f # 0, daemon.event \notin excused, x[1] = daemon.event
               PROVE  FALSE
    <3>1. \A x : Copying(x) => x[1] = daemon.event
      BY DEF Copying
    <3> QED
      BY <1>2, <1>3, <3>1 DEF PrrnInv, NotBeforeUpdate
  <2>1. Active
    BY DEF Copying, Active
  <2>2. dir[daemon.name] = daemon.event /\ UserOf(daemon.name) = {}
    BY <2>1 DEF PrrnInv, OwnFileInv
  <2>3. f \in Notices
    <3>1. f \in 0 .. daemon.event
      BY <1>1, <1>4 DEF PrrnInv, DirInv
    <3>2. f \in 1 .. notices
      BY <3>1, DaemonKnown, NoticeNumbers DEF PrrnInv
    <3> QED
      BY <3>2, NoticeNumbers DEF PrrnInv
  <2>4. f = daemon.event
    BY <2>3 DEF PrrnInv, LinesInv
  <2>5. daemon.name \in 0 .. MaxTime
    BY <2>1, PrrnAssumption DEF PrrnInv, DaemonInv, DaemonType, FirmwareInv
  <2>6. t = daemon.name
    BY <1>1, <1>4, <2>2, <2>4, <2>5 DEF PrrnInv, DirInv
  <2>7. e \in UserOf(t)
    BY <1>1, <1>2 DEF UserOf
  <2> QED
    BY <2>2, <2>6, <2>7
<1>12. ASSUME NEW g \in Notices, Holding(g)
       PROVE  Holding(g)' \/ g \in excused \/ lines[g] \subseteq done'
  <2>1. CASE g # e
    BY <1>3, <1>5, <1>6, <1>12, <2>1 DEF Holding
  <2>2. CASE g = e /\ e \notin excused
    <3>1. f = e
      BY <1>1, <1>2, <2>2 DEF PrrnInv, OwnFileInv
    <3>2. f # 0
      BY <3>1 DEF Notices
    <3> QED
      BY <1>2, <2>2, <3>1, <3>2
  <2> QED
    BY <2>1, <2>2
<1>13. now' \in 0 .. MaxTime /\ now <= now'
  BY <1>3, PrrnAssumption DEF PrrnInv, FirmwareInv
<1>14. done \subseteq done'
  BY <1>2
<1> QED
  BY <1>3, <1>8, <1>9, <1>10, <1>11, <1>12, <1>13, <1>14, StillStep DEF reassigned, PrrnInv, FirmwareInv

(* The file is deleted, by drmgr or by the child that could not become it. *)
LEMMA FileDeleted ==
  ASSUME PrrnInv, NEW e \in Notices, Pending(e),
         dir' = [dir EXCEPT ![drmgr[e].name] = 0], drmgr' = [drmgr EXCEPT ![e].pc = "none"],
         drmgr[e].pc = "delete" \/ e \in excused',
         UNCHANGED <<scope, notices, version, devtree, now, lines, daemon>>,
         UNCHANGED <<wanted, torn, done, early>>,
         faults' \in 0 .. MaxFaults, excused \subseteq excused'
  PROVE  PrrnInv'
<1>1. PICK t : t = drmgr[e].name
  OBVIOUS
<1>2. /\ drmgr[e].pc = "delete" \/ e \in excused'
      /\ Pending(e) /\ excused \subseteq excused'
      /\ dir' = [dir EXCEPT ![t] = 0] /\ drmgr' = [drmgr EXCEPT ![e].pc = "none"]
  BY <1>1
<1>3. /\ UNCHANGED <<scope, notices, version, devtree, now, lines, daemon>>
      /\ UNCHANGED <<wanted, torn, done, early>>
  OBVIOUS
<1>4. /\ drmgr \in [Notices -> [pc : {"none", "read", "delete"}, name : 0 .. MaxTime]]
      /\ t <= now /\ e <= daemon.event /\ (Active => e # daemon.event) /\ t \in 0 .. MaxTime
  BY <1>1, <1>2 DEF PrrnInv, DrmgrInv
<1>5. /\ drmgr' \in [Notices -> [pc : {"none", "read", "delete"}, name : 0 .. MaxTime]]
      /\ drmgr'[e].pc = "none" /\ \A g \in Notices : g # e => drmgr'[g] = drmgr[g]
      /\ \A g \in Notices : drmgr'[g].name = drmgr[g].name
  BY <1>1, <1>2, <1>4
<1>6. /\ ~Pending(e)' /\ \A g \in Notices : g # e => (Pending(g)' <=> Pending(g))
      /\ Active' <=> Active
  BY <1>3, <1>5 DEF Pending, Active
<1>7. \A u : UserOf(u)' = UserOf(u) \ {e}
  BY <1>5, <1>6 DEF UserOf
<1>8. \A u : u # t => e \notin UserOf(u)
  BY <1>1 DEF UserOf
<1>9. e \in UserOf(t)
  BY <1>1, <1>2 DEF UserOf
<1>10. DrmgrInv'
  BY <1>3, <1>5, <1>6 DEF PrrnInv, DrmgrInv
<1>11. /\ dir \in [0 .. MaxTime -> 0 .. daemon.event]
       /\ dir' \in [0 .. MaxTime -> 0 .. daemon.event] /\ dir'[t] = 0
       /\ \A u \in 0 .. MaxTime : u # t => dir'[u] = dir[u]
  <2>1. dir \in [0 .. MaxTime -> 0 .. daemon.event] /\ daemon.event \in Nat
    BY DaemonKnown DEF PrrnInv, DirInv
  <2> QED
    BY <1>2, <1>4, <2>1
<1>12. DirInv'
  <2>1. \A u \in 0 .. MaxTime : u # t => UserOf(u)' = UserOf(u)
    BY <1>7, <1>8
  <2> QED
    BY <1>3, <1>6, <1>11, <2>1 DEF PrrnInv, DirInv
<1>13. OwnFileInv'
  <2>1. ASSUME Active, daemon.event \notin excused'
        PROVE  /\ daemon.file = daemon.event /\ dir'[daemon.name] = daemon.event
               /\ UserOf(daemon.name)' = {}
    <3>1. daemon.file = daemon.event /\ dir[daemon.name] = daemon.event /\ UserOf(daemon.name) = {}
      BY <1>2, <2>1 DEF PrrnInv, OwnFileInv
    <3>2. daemon.name # t /\ daemon.name \in 0 .. MaxTime
      BY <1>9, <2>1, <3>1, PrrnAssumption DEF PrrnInv, DaemonInv, DaemonType, FirmwareInv
    <3>3. UserOf(daemon.name)' = {}
      <4>1. PICK m : m = daemon.name
        OBVIOUS
      <4>2. UserOf(m)' = {}
        BY <1>7, <3>1, <4>1
      <4> QED
        BY <1>3, <4>1, <4>2 DEF UserOf
    <3> QED
      BY <1>11, <3>1, <3>2, <3>3
  <2>2. ASSUME NEW g \in Notices \ excused', Pending(g)'
        PROVE  (/\ UserOf(drmgr[g].name) = {g}
                /\ drmgr[g].pc = "read" => dir[drmgr[g].name] = g
                /\ Active => daemon.name # drmgr[g].name)'
    <3>1. g # e /\ Pending(g) /\ drmgr'[g] = drmgr[g]
      BY <1>5, <1>6, <2>2
    <3>2. PICK m : m = drmgr[g].name
      OBVIOUS
    <3>3. /\ UserOf(m) = {g}
          /\ drmgr[g].pc = "read" => dir[m] = g
          /\ Active => daemon.name # m
      BY <1>2, <2>2, <3>1, <3>2 DEF PrrnInv, OwnFileInv
    <3>4. m # t /\ m \in 0 .. MaxTime
      BY <1>4, <1>9, <3>1, <3>2, <3>3
    <3>5. UserOf(m)' = {g}
      BY <1>7, <3>1, <3>3
    <3>6. (UserOf(drmgr[g].name))' = UserOf(m)'
      BY <3>1, <3>2 DEF UserOf
    <3> QED
      BY <1>3, <1>6, <1>11, <3>1, <3>2, <3>3, <3>4, <3>5, <3>6
  <2> QED
    BY <1>3, <1>6, <2>1, <2>2 DEF OwnFileInv
<1>14. NotBeforeUpdate'
  BY <1>2, <1>3 DEF PrrnInv, NotBeforeUpdate
<1>15. ASSUME NEW g \in Notices, Holding(g)
       PROVE  Holding(g)' \/ g \in excused'
  BY <1>2, <1>3, <1>4, <1>5, <1>6, <1>15 DEF Holding
<1>16. now' \in 0 .. MaxTime /\ now <= now'
  BY <1>3, PrrnAssumption DEF PrrnInv, FirmwareInv
<1> QED
  BY <1>3, <1>10, <1>12, <1>13, <1>14, <1>15, <1>16, StillStep DEF reassigned

LEMMA DrmgrDeletesStep ==
  ASSUME PrrnInv, NEW e \in Notices, DrmgrDeletes(e)
  PROVE  PrrnInv'
<1>1. Pending(e) /\ faults' \in 0 .. MaxFaults
  BY DEF DrmgrDeletes, Pending, PrrnInv, FirmwareInv
<1> QED
  BY <1>1, FileDeleted DEF DrmgrDeletes, reassigned, observed

LEMMA ExecFailsStep ==
  ASSUME PrrnInv, NEW e \in Notices, ExecFails(e)
  PROVE  PrrnInv'
<1>1. Pending(e)
  BY DEF ExecFails, Pending
<1>2. faults' \in 0 .. MaxFaults /\ excused \subseteq excused' /\ e \in excused'
  BY <1>1, FailureCounted DEF ExecFails, UserOf
<1> QED
  BY <1>1, <1>2, FileDeleted DEF ExecFails, reassigned

(* The inductive invariant, and what follows from it.                      *)
LEMMA PrrnInitially ==
  ASSUME PrrnInit
  PROVE  PrrnInv
<1>1. /\ daemon \in DaemonType /\ daemon.pc = "idle" /\ daemon.event = 0 /\ daemon.cmd = NoCommand
  <2>1. AtEase = [AtEase EXCEPT !.event = 0]
    BY DEF AtEase
  <2> QED
    BY <2>1, EaseTyped DEF PrrnInit
<1>2. ~Active /\ ~InNode
  BY <1>1 DEF Active, InNode
<1>3. /\ notices = 0 /\ now = 0 /\ faults = 0 /\ scope = [e \in Notices |-> <<>>]
      /\ version = [h \in DOMAIN Std |-> 0]
      /\ devtree = [h \in DOMAIN Std |-> [n \in PropertyNames(h) |-> <<>>]]
      /\ dir = [t \in 0 .. MaxTime |-> 0] /\ lines = [e \in Notices |-> {}]
      /\ drmgr = [e \in Notices |-> [pc |-> "none", name |-> 0]]
      /\ wanted = [e \in Notices |-> [h \in DOMAIN Std |-> 0]]
      /\ done = {} /\ early = {} /\ torn = {} /\ excused = {}
  BY DEF PrrnInit
<1>4. MaxNotices \in Nat /\ MaxTime \in Nat /\ MaxFaults \in Nat
  BY PrrnAssumption
<1>5. FirmwareInv
  BY <1>3, <1>4 DEF FirmwareInv
<1>6. DaemonInv
  BY <1>1, <1>2, <1>3 DEF DaemonInv
<1>7. \A e \in Notices : ~Pending(e)
  BY <1>3 DEF Pending
<1>8. DrmgrInv
  BY <1>3, <1>4, <1>7 DEF DrmgrInv
<1>9. DirInv
  BY <1>1, <1>3 DEF DirInv
<1>10. OwnFileInv
  BY <1>2, <1>7 DEF OwnFileInv
<1>11. LinesInv
  BY <1>3 DEF LinesInv
<1>12. HandledInv /\ UpdatedInv
  BY <1>1, <1>2 DEF HandledInv, UpdatedInv
<1>13. CommandInv
  BY <1>1, <1>2 DEF CommandInv, NoCommand
<1>14. VersionInv
  BY <1>3 DEF VersionInv
<1>15. WholeProperties
  <2>1. \A h \in DOMAIN Std : \A i \in DOMAIN Properties[h] : devtree[h][Properties[h][i].name] = <<>>
    BY <1>3 DEF PropertyNames
  <2> QED
    BY <2>1 DEF WholeProperties
<1>16. NotBeforeUpdate
  BY <1>3 DEF NotBeforeUpdate
<1> QED
  BY <1>5, <1>6, <1>8, <1>9, <1>10, <1>11, <1>12, <1>13, <1>14, <1>15, <1>16 DEF PrrnInv

LEMMA PrrnStutters ==
  ASSUME PrrnInv, UNCHANGED prrnVars
  PROVE  PrrnInv'
<1>1. UNCHANGED <<scope, notices, version, devtree, now, dir, lines, daemon, drmgr, faults>>
  BY DEF prrnVars, reassigned, disk
<1>2. UNCHANGED <<wanted, done, early, torn, excused>>
  BY DEF prrnVars, observed
<1>3. (Active' <=> Active) /\ (\A e : Pending(e)' <=> Pending(e)) /\ \A t : UserOf(t)' = UserOf(t)
  BY <1>1 DEF Active, Pending, UserOf
<1>4. DrmgrInv' /\ DirInv' /\ OwnFileInv' /\ NotBeforeUpdate'
  BY <1>1, <1>2, <1>3 DEF PrrnInv, DrmgrInv, DirInv, OwnFileInv, NotBeforeUpdate
<1>5. now' \in 0 .. MaxTime /\ now <= now'
  BY <1>1, PrrnAssumption DEF PrrnInv, FirmwareInv
<1>6. \A e \in Notices : Holding(e) => Holding(e)'
  BY <1>1, <1>3 DEF Holding
<1> QED
  BY <1>1, <1>2, <1>4, <1>5, <1>6, StillStep DEF reassigned, PrrnInv, FirmwareInv

LEMMA PrrnStep ==
  ASSUME PrrnInv, [PrrnNext]_prrnVars
  PROVE  PrrnInv'
<1>1. CASE Notify
  BY <1>1, NotifyStep
<1>2. CASE Tick
  BY <1>2, TickStep
<1>3. CASE HandleNotice
  BY <1>3, OpenLogStep, UpdateNodesStep, UpdateNodeStep, UnsupportedStep, UpdatePropertiesStep,
     PartialPropertyStep, WholePropertyStep, NodeUpdatedStep, StartDrmgrStep DEF HandleNotice
<1>4. CASE OpenFails \/ UpdateNodesFails \/ UpdatePropertiesFails \/ StartDrmgrFails
  BY <1>4, OpenFailsStep, UpdateNodesFailsStep, UpdatePropertiesFailsStep, StartDrmgrFailsStep
<1>5. ASSUME NEW e \in Notices, ExecFails(e) \/ DrmgrReads(e) \/ DrmgrDeletes(e)
      PROVE  PrrnInv'
  BY <1>5, ExecFailsStep, DrmgrReadsStep, DrmgrDeletesStep
<1>6. CASE UNCHANGED prrnVars
  BY <1>6, PrrnStutters
<1> QED
  BY <1>1, <1>2, <1>3, <1>4, <1>5, <1>6 DEF PrrnNext

LEMMA PrrnAlways == PrrnSpec => []PrrnInv
<1>1. PrrnInit => PrrnInv
  BY PrrnInitially
<1>2. PrrnInv /\ [PrrnNext]_prrnVars => PrrnInv'
  BY PrrnStep
<1> QED
  BY <1>1, <1>2, PTL DEF PrrnSpec

LEMMA PrrnTyped ==
  ASSUME PrrnInv
  PROVE  PrrnTypeOK
<1>1. /\ daemon \in DaemonType /\ daemon.event \in 0 .. notices
      /\ Active => daemon.file \in 1 .. daemon.event /\ daemon.name \in 0 .. now
      /\ InNode => HasEntry /\ ~Skipped(Entry.node)
      /\ daemon.cmd # NoCommand => InNode
  <2>1. /\ daemon \in DaemonType /\ daemon.event \in 0 .. notices
        /\ Active => daemon.file \in 1 .. daemon.event /\ daemon.name \in 0 .. now
    BY DaemonKnown, NoticeNumbers DEF PrrnInv
  <2> QED
    BY <2>1 DEF PrrnInv, DaemonInv
<1>2. daemon.pc \in {"idle", "nodes", "call", "properties"}
  BY <1>1 DEF DaemonType, DaemonPlaces
<1>3. \A e \in Notices : /\ drmgr[e].pc \in {"none", "read", "delete"}
                         /\ Pending(e) => e <= daemon.event /\ drmgr[e].name \in 0 .. now
  <2>1. \A e \in Notices : /\ drmgr[e].pc \in {"none", "read", "delete"}
                           /\ drmgr[e].name \in Nat
                           /\ Pending(e) => drmgr[e].name <= now /\ e <= daemon.event
    BY PrrnAssumption DEF PrrnInv, DrmgrInv
  <2>2. now \in Nat
    BY PrrnAssumption DEF PrrnInv, FirmwareInv
  <2> QED
    BY <2>1, <2>2
<1>4. /\ dir \in [0 .. MaxTime -> 0 .. daemon.event]
      /\ lines \in [Notices -> SUBSET (Notices \X Phandles)]
      /\ daemon.cmd.proplen = Len(daemon.cmd.data)
  BY DEF PrrnInv, DirInv, LinesInv, CommandInv
<1>5. /\ notices \in 0 .. MaxNotices /\ now \in 0 .. MaxTime /\ faults \in 0 .. MaxFaults
      /\ scope \in [Notices -> Scopes \union {<<>>}]
      /\ version \in [DOMAIN Std -> 0 .. notices]
      /\ \A h \in DOMAIN Std : devtree[h] \in [PropertyNames(h) -> Seq(0 .. notices)]
  BY DEF PrrnInv, FirmwareInv
<1> QED
  BY <1>1, <1>2, <1>3, <1>4, <1>5 DEF PrrnTypeOK, Active, InNode

(* At rest everything has been passed, and drmgr holds nothing.            *)
LEMMA RestedReassigned ==
  ASSUME PrrnInv
  PROVE  ReassignedAtRest
<1> SUFFICES ASSUME PrrnAtRest
             PROVE  ReassignedAtRest
  BY DEF ReassignedAtRest
<1>1. ~Active /\ daemon.event = notices /\ \A e \in Notices : ~Pending(e)
  BY DEF PrrnAtRest, Active
<1>2. \A t \in 0 .. MaxTime : dir[t] = 0
  <2>1. \A t : UserOf(t) = {}
    BY <1>1 DEF UserOf
  <2> QED
    BY <1>1, <2>1 DEF PrrnInv, DirInv
<1>3. ASSUME NEW e \in (1 .. notices) \ excused,
             NEW i \in DOMAIN scope[e], NEW k \in DOMAIN scope[e][i], scope[e][i][k].op = Update,
             NEW h, h = scope[e][i][k].node
      PROVE  /\ Line(e, h) \subseteq done
             /\ h \in DOMAIN Std \ MemoryBlocks => UpToDate(e, h)
  <2>1. e \in Notices /\ e \in Nat /\ notices \in Nat
    BY NoticeNumbers DEF PrrnInv
  <2>2. scope[e] \in Seq(Seq(Entries))
    BY <2>1, NoticeScope DEF PrrnInv
  <2>3. i \in Nat /\ scope[e][i] \in Seq(Entries)
    BY <2>2
  <2>4. k \in Nat /\ scope[e][i][k] \in Entries
    BY <2>3
  <2>5. h \in Phandles /\ Asks(e, i, k, h)
    BY <1>3, <2>4 DEF Entries, Asks
  <2>6. Passed(e, i, k) /\ Logged(e, i, k)
    BY <1>1, <2>1 DEF Passed, Logged
  <2>7. ~Holding(e)
    BY <1>1, <2>1 DEF Holding, Pending
  <2>8. Line(e, h) \subseteq done
    BY <1>1, <2>3, <2>4, <2>5, <2>6, <2>7 DEF PrrnInv, HandledInv
  <2>9. h \in DOMAIN Std \ MemoryBlocks => UpToDate(e, h)
    BY <1>1, <2>3, <2>4, <2>5, <2>6 DEF PrrnInv, UpdatedInv
  <2> QED
    BY <2>8, <2>9
<1> QED
  BY <1>2, <1>3 DEF ReassignedAtRest

(* A property in the device tree is whole and of one version, unless its   *)
(* node has changed between two calls for it: update_properties keeps the  *)
(* pieces until the last has come.                                         *)
THEOREM PropertiesWhole == PrrnSpec => []WholeProperties
<1>1. PrrnInv => WholeProperties
  BY DEF PrrnInv
<1> QED
  BY <1>1, PrrnAlways, PTL

(* A notification has its effect in full and in this order, the properties *)
(* in the device tree, then drmgr, then the file is gone, unless a call    *)
(* failed in it (of firmware, of ofdt or the log, whose results nobody     *)
(* looks at, or of fork), it had to share its file, or the child could not *)
(* become drmgr: handle_prrn_event, do_node_update, do_update.             *)
THEOREM UpdatedInOrder == PrrnSpec => []UpdatedThenReassigned
<1>1. PrrnInv => UpdatedThenReassigned
  BY PrrnTyped, RestedReassigned DEF PrrnInv, UpdatedThenReassigned
<1> QED
  BY <1>1, PrrnAlways, PTL
=============================================================================

----------------------------- MODULE ConvertDt -----------------------------
(***************************************************************************)
(* convert_dt_node_props, the program that rtas_errd runs to learn the     *)
(* drc-name of a resource and that an operator may run to convert between  *)
(* the names, the drc-indexes and the interrupt servers of processors      *)
(* (rtas_errd/convert_dt_node_props.c).                                    *)
(*                                                                         *)
(* A device tree t is a record:                                            *)
(*   nodes     the processors: their drc-index and interrupt servers       *)
(*   cpu, mem  how resources are named.  version 1: the lists indexes and  *)
(*             names; version 2: info, a sequence of ranges                *)
(*   big       the program runs on a big-endian processor                  *)
(* A name is a pair of a prefix and a number; a search gives a set of one  *)
(* value, or of none when it fails.  Abstracted: the bytes of properties,  *)
(* all of which fit the buffers.                                           *)
(***************************************************************************)
EXTENDS Integers, SequencesExt

MAX_IRQ_SERVERS_PER_CPU == 16

First(seq, Test(_)) == IF \E i \in DOMAIN seq : Test(seq[i]) THEN {SelectInSeq(seq, Test)} ELSE {}
DrcType(kind) == IF kind = "cpu" THEN "CPU" ELSE "MEM"

(* Version 1: the name at the place of the index, and the other way round. *)
NextName(lists, drc_idx) ==  \* mutant: one name too many is skipped
  {lists.names[i + 1] : i \in {j \in First(lists.indexes, LAMBDA x : x = drc_idx) : j < Len(lists.names)}}
search_drcindex_to_drcname_v1(lists, drc_idx) ==
  {lists.names[i] : i \in First(lists.indexes, LAMBDA x : x = drc_idx) \cap DOMAIN lists.names}
search_drcname_to_drcindex_v1(lists, name) ==
  {lists.indexes[i] : i \in First(lists.names, LAMBDA x : x = name) \cap DOMAIN lists.indexes}

(* Version 2: the first range of the type that spans the index.  The names *)
(* are numbered as the indexes are; whether the index is one of the range  *)
(* or lies between two of them is not looked at.                           *)
LastIndex(range) == range.index + (range.count - 1) * range.incr
search_drcindex_to_drcname(lists, type, drc_idx) ==
  IF lists.version = 1 THEN search_drcindex_to_drcname_v1(lists, drc_idx)
  ELSE LET Spans(range) == range.type = type /\ drc_idx \in range.index..LastIndex(range)
       IN {<<lists.info[i].prefix, lists.info[i].number + (drc_idx - lists.info[i].index)>> :
             i \in First(lists.info, Spans)}

(* The other way round nothing is found: a range is passed over when sscanf *)
(* does find a number after its prefix, and a name that has not its prefix *)
(* is not the name then formed from it.                                    *)
search_drcname_to_drcindex(lists, name) ==
  IF lists.version = 1 THEN search_drcname_to_drcindex_v1(lists, name) ELSE {}

cpu_interruptserver_to_drcindex(t, int_serv) ==
  {n.index : n \in {m \in t.nodes : int_serv \in ToSet(m.servers)}}

(* The servers are printed as they are read, in the order of the bytes of  *)
(* the tree.                                                               *)
Swapped(n) ==
  (n % 256) * 16777216 + (n \div 256 % 256) * 65536 + (n \div 65536 % 256) * 256 + n \div 16777216
AsRead(t, n) == IF t.big THEN n ELSE Swapped(n)
cpu_drcindex_to_interruptserver(t, drc_idx) ==
  {[i \in DOMAIN n.servers \cap 1..MAX_IRQ_SERVERS_PER_CPU |-> AsRead(t, n.servers[i])] :
     n \in {m \in t.nodes : m.index = drc_idx /\ m.servers # <<>>}}

(***************************************************************************)
(* main: the exit status and what is printed.  Only names are converted to *)
(* for memory; any other form is accepted, and nothing printed.            *)
(***************************************************************************)
Forms == {"interrupt-server", "drc-index", "drc-name"}
Fails(rc) == [rc |-> rc, printed |-> {}]
Prints(found) == [rc |-> IF found = {} THEN 4 ELSE 0, printed |-> found]

IndexesOf(t, from, value) ==
  CASE from = "interrupt-server" -> cpu_interruptserver_to_drcindex(t, value)
    [] from = "drc-name" -> search_drcname_to_drcindex(t.cpu, value)
    [] OTHER -> {value}

ConvertCpu(t, from, to, value) ==
  IF from \notin Forms THEN Fails(2)
  ELSE IF to \notin Forms \ {from} THEN Fails(3)
  ELSE Prints(UNION {CASE to = "drc-index" -> {x}
                       [] to = "drc-name" -> search_drcindex_to_drcname(t.cpu, DrcType("cpu"), x)
                       [] OTHER -> cpu_drcindex_to_interruptserver(t, x) :
                     x \in IndexesOf(t, from, value)})

ConvertMem(t, from, to, value) ==
  IF from # "drc-index" THEN Fails(3)
  ELSE IF to # "drc-name" THEN [rc |-> 0, printed |-> {}]
  ELSE Prints(search_drcindex_to_drcname(t.mem, DrcType("mem"), value))

Convert(t, context, from, to, value) ==
  CASE context = "cpu" -> ConvertCpu(t, from, to, value)
    [] context = "mem" -> ConvertMem(t, from, to, value)
    [] OTHER -> Fails(1)

(* What the platform and drmgr mean by the same properties: the resources  *)
(* they describe, each with its name.                                      *)
Elements(lists, type) ==
  IF lists.version = 1
  THEN {[index |-> lists.indexes[i], name |-> lists.names[i]] : i \in DOMAIN lists.indexes}
  ELSE UNION {{[index |-> r.index + k * r.incr, name |-> <<r.prefix, r.number + k * r.incr>>] :
                 k \in 0..r.count - 1} : r \in {s \in ToSet(lists.info) : s.type = type}}
=============================================================================

------------------------------ MODULE PlatDump ------------------------------
(***************************************************************************)
(* Platform dumps on an LPAR: rtas_errd is told of a dump by an event and  *)
(* runs extract_platdump, which copies it piece by piece and then lets the *)
(* platform delete its own copy (rtas_errd/dump.c, extract_platdump.c).    *)
(* The log tells the administrator to run the tool by hand when there was  *)
(* no space, so that two extractions may run at the same time.             *)
(*                                                                         *)
(* A file is the sequence of what has been written, one cell per buffer.   *)
(***************************************************************************)
EXTENDS Integers, Sequences, FiniteSets

CONSTANTS
  Dumps,     \* the dumps of the platform
  FileNames, \* the names their headers suggest
  NameOf,    \* the name each of them suggests
  Pieces,    \* how many buffers a dump fills
  MaxManual  \* bound: how often the administrator runs the tool

ASSUME PlatDumpAssumption ==
  /\ IsFiniteSet(Dumps) /\ NameOf \in [Dumps -> FileNames]
  /\ Pieces \in Nat \ {0} /\ MaxManual \in Nat

Extractors == {"daemon", "manual"}

VARIABLES
  firmware,   \* the dumps the platform holds
  announced,  \* events that rtas_errd has not handled yet
  ex,         \* each extraction: where it is, its dump, the piece in its
              \*   buffer, its offset in the file
  files,      \* the files of the dump directory
  available,  \* dumps whose event names a file (RE_PLATDUMP_AVAIL)
  manual,     \* runs by hand
  \* history
  arrived, short, shared, replaced

ghosts == <<short, shared, replaced>>
dumpVars == <<firmware, announced, ex, files, available, manual, arrived, ghosts>>

Resting == [at |-> "idle", dump |-> "none", piece |-> 0, offset |-> 0]
NoFile == <<>>  \* nor is there anything in it
Hole == [dump |-> "hole", piece |-> 0, whole |-> FALSE]
Cell(d, i, whole) == [dump |-> d, piece |-> i, whole |-> whole]
WholeFile(d) == [i \in 1..Pieces |-> Cell(d, i, TRUE)]
Whole(d) == files[NameOf[d]] = WholeFile(d)

(* write at an offset: what lies between the end and the offset is a hole. *)
Written(file, offset, cell) ==
  [i \in 1..(IF offset >= Len(file) THEN offset + 1 ELSE Len(file)) |->
    IF i = offset + 1 THEN cell ELSE IF i <= Len(file) THEN file[i] ELSE Hole]

DumpInit ==
  /\ firmware = {} /\ announced = {} /\ available = {} /\ manual = 0
  /\ ex = [p \in Extractors |-> Resting]
  /\ files = [n \in FileNames |-> NoFile]
  /\ arrived = {} /\ short = {} /\ shared = {} /\ replaced = {}

ExAt(p, place) == ex[p].at = place
ExGo(p, place) == ex' = [ex EXCEPT ![p].at = place]
End(p) == ex' = [ex EXCEPT ![p] = Resting]
Name(p) == NameOf[ex[p].dump]

(* The platform takes a dump and sends an event, once.                     *)
Post(d) ==
  /\ d \notin arrived /\ arrived' = arrived \union {d}
  /\ firmware' = firmware \union {d} /\ announced' = announced \union {d}
  /\ UNCHANGED <<ex, files, available, manual, ghosts>>

(* The event has no subtype, the file system no space, or the extractor    *)
(* cannot be run.                                                          *)
NotExtracted(d) ==
  /\ d \in announced /\ ExAt("daemon", "idle")
  /\ announced' = announced \ {d}
  /\ UNCHANGED <<firmware, ex, files, available, manual, arrived, ghosts>>

Start(p, d) ==
  /\ ExAt(p, "idle")
  /\ ex' = [ex EXCEPT ![p] = [Resting EXCEPT !.at = "first", !.dump = d]]
  /\ shared' = shared \union
       UNION {{d, ex[q].dump} : q \in {q \in Extractors : ~ExAt(q, "idle") /\ Name(q) = NameOf[d]}}
  /\ UNCHANGED <<firmware, files, available, arrived, short, replaced>>

check_platform_dump(d) ==
  /\ d \in announced /\ announced' = announced \ {d}
  /\ Start("daemon", d) /\ UNCHANGED manual

RunByHand(d) ==
  /\ manual < MaxManual /\ manual' = manual + 1
  /\ Start("manual", d) /\ UNCHANGED announced

(* The header, with the name, comes with the first piece.                  *)
FirstCallUnchecked(p) ==  \* mutant: neither the return code nor the size is tested
  /\ ExAt(p, "first")
  /\ ex' = [ex EXCEPT ![p].at = "create", ![p].piece = 1]
  /\ UNCHANGED <<firmware, announced, files, available, manual, arrived, ghosts>>
FirstCall(p) ==
  /\ ExAt(p, "first")
  /\ \/ ex[p].dump \in firmware
        /\ ex' = [ex EXCEPT ![p].at = "create", ![p].piece = 1]
     \/ End(p)
  /\ UNCHANGED <<firmware, announced, files, available, manual, arrived, ghosts>>

(* creat truncates what is there.                                          *)
Create(p) ==
  /\ ExAt(p, "create") /\ ExGo(p, "write")
  /\ files' = [files EXCEPT ![Name(p)] = <<>>]
  /\ replaced' = (replaced \ {ex[p].dump}) \union
                   {d \in Dumps \ {ex[p].dump} : NameOf[d] = Name(p)}
  /\ UNCHANGED <<firmware, announced, available, manual, arrived, short, shared>>

(* Only a negative return of write is an error.                            *)
AfterWriteEarly(p) ==  \* mutant: complete one call too early
  IF ex[p].piece + 1 >= Pieces THEN "release" ELSE "fetch"
AfterWrite(p) == IF ex[p].piece = Pieces THEN "release" ELSE "fetch"
Write(p) ==
  /\ ExAt(p, "write")
  /\ \E whole \in BOOLEAN :
       /\ files' = [files EXCEPT ![Name(p)] =
                     Written(@, ex[p].offset, Cell(ex[p].dump, ex[p].piece, whole))]
       /\ short' = IF whole THEN short ELSE short \union {ex[p].dump}
  /\ ex' = [ex EXCEPT ![p].at = AfterWrite(p), ![p].offset = @ + 1]
  /\ UNCHANGED <<firmware, announced, available, manual, arrived, shared, replaced>>

Fetch(p) ==
  /\ ExAt(p, "fetch") /\ ex[p].dump \in firmware
  /\ ex' = [ex EXCEPT ![p].at = "write", ![p].piece = @ + 1]
  /\ UNCHANGED <<firmware, announced, files, available, manual, arrived, ghosts>>

(* A call to the platform, creat or write fails, or the tool is killed:    *)
(* nothing is printed, so that rtas_errd leaves the event as it is.        *)
ExtractionFails(p) ==
  /\ ex[p].at \in {"create", "write", "fetch", "release", "print"} /\ End(p)
  /\ UNCHANGED <<firmware, announced, files, available, manual, arrived, ghosts>>

(* The platform may delete its copy; when the call fails that is said and  *)
(* no more.                                                                *)
Release(p) ==
  /\ ExAt(p, "release") /\ ExGo(p, "print")
  /\ firmware' \in {firmware \ {ex[p].dump}, firmware}
  /\ UNCHANGED <<announced, files, available, manual, arrived, ghosts>>

(* rtas_errd writes the name that is printed to the event.                 *)
PrintName(p) ==
  /\ ExAt(p, "print") /\ End(p)
  /\ available' = IF p = "daemon" THEN available \union {ex[p].dump} ELSE available
  /\ UNCHANGED <<firmware, announced, files, manual, arrived, ghosts>>

DumpNext ==
  \/ \E d \in Dumps : Post(d) \/ NotExtracted(d) \/ check_platform_dump(d) \/ RunByHand(d)
  \/ \E p \in Extractors :
       FirstCall(p) \/ Create(p) \/ Write(p) \/ Fetch(p) \/ ExtractionFails(p) \/ Release(p) \/ PrintName(p)
DumpSpec == DumpInit /\ [][DumpNext]_dumpVars
-----------------------------------------------------------------------------
(* Every variable keeps its type; a running extraction has a dump, and its *)
(* offset follows the piece in its buffer.                                 *)
DumpTypeOK ==
  /\ firmware \subseteq arrived /\ announced \subseteq arrived /\ arrived \subseteq Dumps
  /\ available \subseteq Dumps /\ manual \in 0..MaxManual
  /\ \A p \in Extractors :
       \/ ex[p] = Resting
       \/ /\ ex[p].dump \in Dumps /\ ex[p].piece \in 0..Pieces
          /\ ex[p].offset = CASE ex[p].at \in {"first", "create"} -> 0
                              [] ex[p].at = "write" -> ex[p].piece - 1
                              [] OTHER -> ex[p].piece
  /\ \A n \in FileNames : files[n] = NoFile \/
       \A i \in DOMAIN files[n] : files[n][i].piece \in 0..Pieces

(* A dump that the platform has let go of is whole in its file, unless a   *)
(* write was short (which the tool ignores), two extractions into one file *)
(* overlapped, or another dump of the same suggested name has been         *)
(* extracted since.  So a run by hand that comes late leaves the file      *)
(* alone, and a run that fails leaves the dump with the platform           *)
(* (extract_platform_dump).                                                *)
Spoilt == short \union shared \union replaced
(* Includes the type invariant.                                            *)
ReleasedIsWhole == DumpTypeOK /\ \A d \in arrived \ firmware : Whole(d) \/ d \in Spoilt

(* When rtas_errd writes to an event that its dump is available, the file  *)
(* it names holds that dump, with the same exceptions                      *)
(* (check_platform_dump; the exit status of the tool is not seen).         *)
NamedIsWhole == [][\A d \in available' \ available : Whole(d) \/ d \in Spoilt]_dumpVars
=============================================================================

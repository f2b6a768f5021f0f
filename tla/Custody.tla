------------------------------ MODULE Custody ------------------------------
(***************************************************************************)
(* What the OPAL tools promise of the records (error logs, platform dumps) *)
(* that the firmware hands over: a record stays with the firmware until it *)
(* has been stored on disk or the attempt to store it has failed.  It may  *)
(* be stored several times, and evicted from disk at any time.             *)
(*                                                                         *)
(* opal_errd and extract_opal_dump implement this specification.           *)
(***************************************************************************)
CONSTANT Records

VARIABLES
  firmware,  \* the records that the firmware holds
  disk,      \* the records of which the disk has a whole copy
  stored,    \* the records that have been stored at least once
  failed     \* the records that could not be stored at least once

custody == <<firmware, disk, stored, failed>>

Init ==
  /\ firmware = {} /\ stored = {} /\ failed = {}
  /\ disk \in SUBSET Records

Post(r) ==
  /\ r \notin firmware \union stored \union failed
  /\ firmware' = firmware \union {r}
  /\ UNCHANGED <<disk, stored, failed>>

(* Its file may replace others.                                            *)
Store(r) ==
  /\ r \in firmware
  /\ \E kept \in SUBSET disk : disk' = kept \union {r}
  /\ stored' = stored \union {r}
  /\ UNCHANGED <<firmware, failed>>

Fail(r) ==
  /\ r \in firmware
  /\ failed' = failed \union {r}
  /\ UNCHANGED <<firmware, disk, stored>>

Release(r) ==
  /\ r \in firmware /\ r \in stored \union failed
  /\ firmware' = firmware \ {r}
  /\ UNCHANGED <<disk, stored, failed>>

Evict ==
  /\ disk' \in SUBSET disk
  /\ UNCHANGED <<firmware, stored, failed>>

Next ==
  \/ \E r \in Records : Post(r) \/ Store(r) \/ Fail(r) \/ Release(r)
  \/ Evict

Spec == Init /\ [][Next]_custody
=============================================================================

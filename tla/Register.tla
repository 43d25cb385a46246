------------------------------ MODULE Register ------------------------------
(***************************************************************************)
(* What platform.hpp promises of a private per-user file: it holds one text  *)
(* at a time (or is absent), it changes from one whole text to another, and  *)
(* a reader gets a text the file held at one moment of the read.  Nothing is *)
(* promised of when a change reaches the disk: a loss of power brings back   *)
(* what the file was when it last did, and a text that was not flushed may   *)
(* come back damaged.                                                        *)
(***************************************************************************)
CONSTANTS Values, Absent, Damaged, Readers

VARIABLES
  file,   \* the text the path holds, and whether it has been flushed (solid)
  disk,   \* the same, as a loss of power would find it
  got     \* per reader: what it got

vars == <<file, disk, got>>

Init ==
  /\ file \in [text: Values \cup {Absent}, solid: {TRUE}]
  /\ disk = file
  /\ got = [r \in Readers |-> Absent]

\* atomic_write_private_file; whether its flush worked nobody knows
Put(v, s) == file' = [text |-> v, solid |-> s] /\ UNCHANGED <<disk, got>>

\* remove_file
Remove == file' = [text |-> Absent, solid |-> TRUE] /\ UNCHANGED <<disk, got>>

\* a reader's open of the path
Get(r) == got' = [got EXCEPT ![r] = file.text] /\ UNCHANGED <<file, disk>>

\* the directory reaches the disk
Settle == disk' = file /\ UNCHANGED <<file, got>>

PowerLoss ==
  /\ \/ file' = [text |-> disk.text, solid |-> TRUE]
     \/ ~disk.solid /\ file' = [text |-> Damaged, solid |-> FALSE]
  /\ disk' = file'
  /\ UNCHANGED got

Next ==
  \/ \E v \in Values, s \in BOOLEAN : Put(v, s)
  \/ Remove
  \/ \E r \in Readers : Get(r)
  \/ Settle
  \/ PowerLoss

Spec == Init /\ [][Next]_vars
=============================================================================

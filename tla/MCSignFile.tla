----------------------------- MODULE MCSignFile -----------------------------
(* An instance of SignFile for TLC. *)
EXTENDS SignFile, TLC
CONSTANTS j1, j2, j3, msi, pe

\* Two arguments name one MSI, or a single one names a PE file.
TwoOfThem == (j1 :> msi) @@ (j2 :> msi) @@ (j3 :> pe)
KindOf == (msi :> "msi") @@ (pe :> "pe")
PairOrSingle == {{j1, j2}, {j3}}
=============================================================================

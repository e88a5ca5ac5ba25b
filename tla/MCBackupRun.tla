---------------------------- MODULE MCBackupRun ----------------------------
(* Small instances of BackupRun for TLC. *)
EXTENDS BackupRun, TLC

CONSTANTS t1, t2

TwoNames  == (t1 :> "n1") @@ (t2 :> "n2")
TwoXtra   == (t1 :> "M01") @@ (t2 :> "M01")
DumpXtra  == (t1 :> "M02") @@ (t2 :> "M01")
TwoYes    == (t1 :> TRUE) @@ (t2 :> TRUE)
TwoNo     == (t1 :> FALSE) @@ (t2 :> FALSE)
YesNo     == (t1 :> TRUE) @@ (t2 :> FALSE)

Interchangeable == Permutations(Request) \cup Permutations(Exec)
=============================================================================

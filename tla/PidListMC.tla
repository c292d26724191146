----------------------------- MODULE PidListMC -----------------------------
(***************************************************************************)
(* Instances of PidList for TLC.                                           *)
(***************************************************************************)
EXTENDS PidList, TLC

CONSTANTS t1, t2, t3, t4

\* Every task has a number of its own.
OwnPids == (t1 :> 1) @@ (t2 :> 2) @@ (t3 :> 3)

\* Task t4 gets the number of t1 once that is free again.
ReusedPid == (t1 :> 1) @@ (t2 :> 2) @@ (t3 :> 3) @@ (t4 :> 1)
=============================================================================

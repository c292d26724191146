----------------------------- MODULE PageWalkMC -----------------------------
(***************************************************************************)
(* Instances of PageWalk for TLC.                                          *)
(***************************************************************************)
EXTENDS PageWalk

AllDram == [p \in (0 .. 1) \X (0 .. 1) |-> "DRAM"]
=============================================================================

---------------------------- MODULE SwitchWalkMC ----------------------------
(***************************************************************************)
(* Instances of SwitchWalk, and with it of PageWalk, for TLC.              *)
(***************************************************************************)
EXTENDS SwitchWalk

\* Two pages in each tier, crosswise.
Mixed == [p \in (0 .. 1) \X (0 .. 1) |-> IF p[1] = p[2] THEN "NVRAM" ELSE "DRAM"]
=============================================================================

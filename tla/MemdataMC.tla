----------------------------- MODULE MemdataMC -----------------------------
(***************************************************************************)
(* Instance of Memdata for TLC.                                            *)
(***************************************************************************)
EXTENDS Memdata

MCSwitched == {-1, 0, 1}
MCMoved == {0, 1, 2}
=============================================================================

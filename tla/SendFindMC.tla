----------------------------- MODULE SendFindMC -----------------------------
(***************************************************************************)
(* Instances of SendFind for TLC.                                          *)
(***************************************************************************)
EXTENDS SendFind

\* Two pages of one process and one of another.
Pages == {[pid |-> 1, addr |-> 1], [pid |-> 1, addr |-> 2], [pid |-> 2, addr |-> 1]}
Entries == Pages \cup {End}
=============================================================================

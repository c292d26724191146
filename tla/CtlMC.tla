------------------------------- MODULE CtlMC -------------------------------
(***************************************************************************)
(* Instances of Ctl for TLC.                                               *)
(***************************************************************************)
EXTENDS Ctl

CONSTANT c1

\* Room everywhere; one tier full and the other empty, which between them lead
\* memcheck to each of its decisions.
Low == {<<"low", "low">>}
OneFull == {<<"low", "limit">>, <<"limit", "low">>}
=============================================================================

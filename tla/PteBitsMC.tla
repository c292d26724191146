----------------------------- MODULE PteBitsMC -----------------------------
(***************************************************************************)
(* An instance of PteBits for TLC; the pages are interchangeable.          *)
(***************************************************************************)
EXTENDS PteBits, TLC

CONSTANTS p1, p2

Symmetry == Permutations(Page)
=============================================================================

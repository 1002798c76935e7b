----------------------------- MODULE MCQuadb -------------------------------
(* Small instances of Quadb for TLC.                                       *)
EXTENDS Quadb

InterchangeableValues == Permutations(Val)
=============================================================================

--------------------------- MODULE MCPartialTree ---------------------------
(* Instances of PartialTree for TLC.                                       *)
EXTENDS PartialTree

(* The model treats no value differently from another.                     *)
InterchangeableValues == Permutations(Val)
=============================================================================

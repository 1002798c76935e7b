----------------------------- MODULE MCTreeDiff -----------------------------
(* Small instances of TreeDiff for TLC.                                    *)
EXTENDS TreeDiff

InterchangeableValues == Permutations(Val)
=============================================================================

---------------------------- MODULE MCNodeStore ----------------------------
(* Small instances of NodeStore for TLC.  The threads are not symmetric:   *)
(* they differ in whether they track keys.                                 *)
EXTENDS NodeStore, TLC

InterchangeableKeys == Permutations(Key)
============================================================================

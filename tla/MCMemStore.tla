---------------------------- MODULE MCMemStore ----------------------------
(* Small instances of MemStore for TLC.                                    *)
EXTENDS MemStore, TLC

InterchangeableStores == Permutations(Store)
===========================================================================

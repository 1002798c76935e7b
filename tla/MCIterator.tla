----------------------------- MODULE MCIterator -----------------------------
(* Small instances of Iterator for TLC: the trees that a set of updates    *)
(* leaves of an empty one.                                                 *)
EXTENDS Iterator, UpdateSet

CONSTANT Key    \* the keys in use

TreeOf(records) ==
  LET result == PutAll(NoTable, Empty, records) IN
  [nodes |-> result.nodes, root |-> result.built.id]

MCTrees == {TreeOf(records) : records \in UNION {[S -> {Put(v) : v \in Val}] : S \in SUBSET Key}}
=============================================================================

----------------------------- MODULE DiffLines -----------------------------
(***************************************************************************)
(* The difference of two trees: what diff() lists, in its order, and what  *)
(* it owes to the records of both.                                         *)
(***************************************************************************)
EXTENDS TreeNodes, Sequences

VARIABLES
  nodes,     \* the stored nodes
  from,      \* root node id of the tree a diff starts from
  to         \* root node id of the tree it leads to

---------------------------------------------------------------------------
(* The output: one entry per deletion and per insertion, in order.         *)

Entry(node, deletion) == [key |-> node.key, val |-> node.val, deletion |-> deletion]
DiffAdd(node) == <<Entry(node, FALSE)>>
DiffDel(node) == <<Entry(node, TRUE)>>

NodeId == DOMAIN nodes \cup {Empty}

(* diffWalk: what the callback lists for the leaves below a node, from     *)
(* left to right.                                                          *)
WalkTree(lines, below) ==
  [id \in NodeId |->
     LET node == ParsedNode(nodes, id) IN
     IF IsLeaf(node) THEN lines[id]
     ELSE IF IsBranch(node) THEN below[node.left] \o below[node.right]
     ELSE <<>>]

DiffWalk(id, lines) ==
  LET walked[n \in Nat] == IF n = 0 THEN [x \in NodeId |-> <<>>] ELSE WalkTree(lines, walked[n - 1])
  IN  walked[Depth + 1][id]

HasKey(id, key) == \E leaf \in Leaves(nodes, id) : nodes[leaf].key = key

(* Mutant: a leaf of B that is in neither place is not looked for.         *)
FromBranchNoRest(a, nodeB) ==
  DiffWalk(a, [leaf \in Leaves(nodes, a) |->
    IF nodes[leaf].key = nodeB.key THEN <<>> ELSE DiffDel(nodes[leaf])])

(* A is a branch and B is not: the leaves of A are gone, but for B's own.  *)
(* When that one's value has changed, B's is the one listed as deleted and *)
(* A's as added.                                                           *)
FromBranch(a, nodeB) ==
  DiffWalk(a, [leaf \in Leaves(nodes, a) |->
    IF nodes[leaf].key # nodeB.key THEN DiffDel(nodes[leaf])
    ELSE IF nodes[leaf].val # nodeB.val THEN DiffDel(nodeB) \o DiffAdd(nodes[leaf])
    ELSE <<>>])
  \o (IF IsLeaf(nodeB) /\ ~HasKey(a, nodeB.key) THEN DiffAdd(nodeB) ELSE <<>>)

(* Mutant: a changed record is listed the wrong way round here too.        *)
ToBranchInverted(nodeA, b) ==
  DiffWalk(b, [leaf \in Leaves(nodes, b) |->
    IF nodes[leaf].key # nodeA.key THEN DiffAdd(nodes[leaf])
    ELSE IF nodes[leaf].val # nodeA.val THEN DiffDel(nodes[leaf]) \o DiffAdd(nodeA)
    ELSE <<>>])
  \o (IF IsLeaf(nodeA) /\ ~HasKey(b, nodeA.key) THEN DiffDel(nodeA) ELSE <<>>)

(* B is a branch and A is not: the leaves of B are new, but for A's own.   *)
ToBranch(nodeA, b) ==
  DiffWalk(b, [leaf \in Leaves(nodes, b) |->
    IF nodes[leaf].key # nodeA.key THEN DiffAdd(nodes[leaf])
    ELSE IF nodes[leaf].val # nodeA.val THEN DiffDel(nodeA) \o DiffAdd(nodes[leaf])
    ELSE <<>>])
  \o (IF IsLeaf(nodeA) /\ ~HasKey(b, nodeA.key) THEN DiffDel(nodeA) ELSE <<>>)

(* Mutant: two leaves with the same key are taken for the same record.     *)
OfLeavesByKey(nodeA, nodeB) ==
  IF nodeA.key = nodeB.key THEN <<>>
  ELSE (IF IsLeaf(nodeA) THEN DiffDel(nodeA) ELSE <<>>)
       \o (IF IsLeaf(nodeB) THEN DiffAdd(nodeB) ELSE <<>>)

(* Neither is a branch, and their hashes differ.                           *)
OfLeaves(nodeA, nodeB) ==
  (IF IsLeaf(nodeA) THEN DiffDel(nodeA) ELSE <<>>)
  \o (IF IsLeaf(nodeB) THEN DiffAdd(nodeB) ELSE <<>>)

(* diffAux, of each pair of nodes, with what its own calls list.           *)
DiffAux(below) ==
  [pair \in NodeId \X NodeId |->
     LET a == pair[1]
         b == pair[2]
         nodeA == ParsedNode(nodes, a)
         nodeB == ParsedNode(nodes, b)
     IN  IF a = b \/ nodeA.hash = nodeB.hash THEN <<>>
         ELSE IF IsBranch(nodeA) /\ IsBranch(nodeB)
              THEN below[<<nodeA.left, nodeB.left>>] \o below[<<nodeA.right, nodeB.right>>]
         ELSE IF IsBranch(nodeB) THEN ToBranch(nodeA, b)
         ELSE IF IsBranch(nodeA) THEN FromBranch(a, nodeB)
         ELSE OfLeaves(nodeA, nodeB)]

(* The calls are as deep as the trees.                                     *)
Diff ==
  LET diff[n \in Nat] == IF n = 0 THEN [pair \in NodeId \X NodeId |-> <<>>] ELSE DiffAux(diff[n - 1])
  IN  diff[Depth + 1][<<from, to>>]

---------------------------------------------------------------------------
(* Properties                                                              *)

TreesOK == TreeOK(nodes, from) /\ TreeOK(nodes, to)

Old == Contents(nodes, from)
New == Contents(nodes, to)

ValueIn(map, k) == IF k \in DOMAIN map THEN {map[k]} ELSE {}

(* A diff has lines for exactly the keys whose records differ, whether the *)
(* trees share nodes or not: no change is lost and none is made up.        *)
NamesTheChanges ==
  {Diff[i].key : i \in DOMAIN Diff}
    = {k \in DOMAIN Old \cup DOMAIN New : ValueIn(Old, k) # ValueIn(New, k)}

(* A key is kept with another value by a tree that has lost all the others *)
(* under one of its prefixes.                                              *)
Under(map, k, n) == {x \in DOMAIN map : \A i \in 0 .. n - 1 : GetBit(x, i) = GetBit(k, i)}

Collapsed(k) ==
  /\ k \in DOMAIN Old \cap DOMAIN New
  /\ Old[k] # New[k]
  /\ \E n \in 0 .. Depth : Under(New, k, n) = {k} /\ Under(Old, k, n) # {k}

(* When there is no such key, a record is deleted with its old value and   *)
(* added with its new one.                                                 *)
LinesTellOldAndNew ==
  (\A k \in DOMAIN Old : ~Collapsed(k)) =>
    \A i \in DOMAIN Diff :
      ValueIn(IF Diff[i].deletion THEN Old ELSE New, Diff[i].key) = {Diff[i].val}
=============================================================================

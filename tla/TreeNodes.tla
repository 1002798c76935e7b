----------------------------- MODULE TreeNodes -----------------------------
(***************************************************************************)
(* The nodes of a Quadrable tree: what BuiltNode writes, what ParsedNode   *)
(* reads, and the hash that each node carries.  A key is a path of Depth   *)
(* bits (256 in the code); the hash is symbolic, the term it was computed  *)
(* from, so that two nodes have one hash only when they were built from    *)
(* the same data.                                                          *)
(***************************************************************************)
EXTENDS Integers, FiniteSetsExt, TLC

CONSTANTS
  Depth,           \* bits of a key
  Val,             \* values of records
  EmptyVal,        \* the value "", which a deletion and a reuse carry
  FirstInterior    \* firstInteriorNodeId

ASSUME DepthAssumption == Depth \in Nat \ {0}
ASSUME FirstInteriorAssumption == FirstInterior \in Nat \ {0}

TwoTo(n) ==
  LET power[i \in Nat] == IF i = 0 THEN 1 ELSE 2 * power[i - 1] IN power[n]

KeySpace == 0 .. TwoTo(Depth) - 1
NoKey    == -1
Empty    == 0                     \* node id of the implicit empty node

ShiftRight(key, by) ==
  LET shifted[i \in Nat] == IF i = 0 THEN key ELSE shifted[i - 1] \div 2 IN shifted[by]

(* Bits are counted from the top.                                          *)
KeyBits == [k \in KeySpace |-> [n \in 0 .. Depth - 1 |-> ShiftRight(k, Depth - 1 - n) % 2]]

GetBit(key, n) == KeyBits[key][n]

(* The three shapes have different lengths: the extra byte that newLeaf    *)
(* hashes keeps leaves and branches apart.                                 *)
NullHash         == <<>>
LeafHash(k, v)   == <<k, v, 0>>
BranchHash(l, r) == <<l, r>>

---------------------------------------------------------------------------
(* ParsedNode                                                              *)

EmptyNode == [type |-> "Empty", hash |-> NullHash, left |-> Empty, right |-> Empty,
              key |-> NoKey, val |-> EmptyVal]

NoTable == [id \in {} |-> id]

ParsedNode(nodes, id) == IF id = Empty THEN EmptyNode ELSE nodes[id]

IsLeaf(node)       == node.type \in {"Leaf", "WitnessLeaf"}
IsBranch(node)     == node.type \in {"BranchLeft", "BranchRight", "BranchBoth"}
IsWitnessAny(node) == node.type \in {"Witness", "WitnessLeaf"}

---------------------------------------------------------------------------
(* BuiltNode: an id, its hash and its type.  The constructors that write   *)
(* return it with the table of nodes that holds it.                        *)

Built(id, node) == [id |-> id, hash |-> node.hash, type |-> node.type]
BuiltEmpty      == Built(Empty, EmptyNode)

Reuse(nodes, id) == Built(id, ParsedNode(nodes, id))

(* Mutant: one counter for leaves and interior nodes.                      *)
NextIdShared(ids, isLeaf) ==
  IF ids = {} THEN IF isLeaf THEN 1 ELSE FirstInterior ELSE Max(ids) + 1

NextId(ids, isLeaf) ==
  LET first == IF isLeaf THEN 1 ELSE FirstInterior
      used  == {id \in ids : (id < FirstInterior) <=> isLeaf}
  IN  IF used = {} THEN first ELSE Max(used) + 1

(* Nodes are written beside those that are there.                          *)
Written(id, node) == [n \in {id} |-> node]

With(nodes, written) ==
  [id \in DOMAIN nodes \cup DOMAIN written |-> IF id \in DOMAIN nodes THEN nodes[id] ELSE written[id]]

WriteNode(nodes, node) ==
  LET id == NextId(DOMAIN nodes, IsLeaf(node)) IN
  [nodes |-> With(nodes, Written(id, node)), built |-> Built(id, node)]

LeafNode(k, v) ==
  [EmptyNode EXCEPT !.type = "Leaf", !.hash = LeafHash(k, v), !.key = k, !.val = v]

NewLeaf(nodes, k, v) == WriteNode(nodes, LeafNode(k, v))

BranchNode(l, r) ==
  [EmptyNode EXCEPT
    !.type = IF r.id = Empty THEN "BranchLeft" ELSE IF l.id = Empty THEN "BranchRight" ELSE "BranchBoth",
    !.hash = BranchHash(l.hash, r.hash),
    !.left = l.id, !.right = r.id]

NewBranch(nodes, l, r) == WriteNode(nodes, BranchNode(l, r))

(* Stand-ins in a partial tree: a subtree of which only the hash is known, *)
(* and a leaf of which only the hash of the value is.  The record has that *)
(* hash in the place of the value, and it is taken for the value itself.   *)
NewWitness(nodes, hash) ==
  WriteNode(nodes, [EmptyNode EXCEPT !.type = "Witness", !.hash = hash])

NewWitnessLeaf(nodes, k, v) ==
  WriteNode(nodes, [EmptyNode EXCEPT
    !.type = "WitnessLeaf", !.hash = LeafHash(k, v), !.key = k, !.val = v])

---------------------------------------------------------------------------
(* walkTree visits the nodes below an id, the id itself included.  AtDepth *)
(* has those that are n steps down.                                        *)
Children(nodes, ids) == (UNION {{nodes[m].left, nodes[m].right} : m \in ids}) \ {Empty}

AtDepth(nodes, id, n) ==
  LET level[i \in Nat] == IF i = 0 THEN {id} \ {Empty} ELSE Children(nodes, level[i - 1])
  IN  level[n]

Walk(nodes, id) == UNION {AtDepth(nodes, id, n) : n \in 0 .. Depth}

Leaves(nodes, id) == {n \in Walk(nodes, id) : IsLeaf(nodes[n])}

(* What readers of a complete tree rely on: a branch has two different     *)
(* children, one of which may be Empty, and the leaves on its two sides    *)
(* differ in the bit of its depth; nothing is deeper than Depth.           *)
WellFormed(nodes, root) ==
  \A d \in 0 .. Depth : \A id \in AtDepth(nodes, root, d) :
    /\ id \in DOMAIN nodes
    /\ IsLeaf(nodes[id]) => nodes[id].key \in KeySpace /\ Children(nodes, {id}) = {}
    /\ ~IsLeaf(nodes[id]) =>
         /\ IsBranch(nodes[id]) /\ d < Depth
         /\ nodes[id].left # nodes[id].right
         /\ \A leaf \in Leaves(nodes, nodes[id].left)  : GetBit(nodes[leaf].key, d) = 0
         /\ \A leaf \in Leaves(nodes, nodes[id].right) : GetBit(nodes[leaf].key, d) = 1

(* Every node has the hash of its data: of its record, or of the hashes of *)
(* its children.                                                           *)
Hashed(nodes, root) ==
  \A d \in 0 .. Depth : \A id \in AtDepth(nodes, root, d) :
    nodes[id].hash =
      IF IsLeaf(nodes[id]) THEN LeafHash(nodes[id].key, nodes[id].val)
      ELSE BranchHash(ParsedNode(nodes, nodes[id].left).hash, ParsedNode(nodes, nodes[id].right).hash)

(* A leaf that is alone is not below a branch.                             *)
Compact(nodes, root) ==
  \A d \in 0 .. Depth : \A id \in AtDepth(nodes, root, d) :
    ~IsLeaf(nodes[id]) => \E x, y \in Leaves(nodes, id) : x # y

(* What every stored tree that has no witnesses is.                        *)
TreeOK(nodes, root) ==
  /\ root \in DOMAIN nodes \cup {Empty}
  /\ WellFormed(nodes, root) /\ Hashed(nodes, root) /\ Compact(nodes, root)
  /\ \A leaf \in Leaves(nodes, root) : nodes[leaf].type = "Leaf"

(* The records of a tree, as the function from keys to values it stands    *)
(* for; the reading is only meaningful when no key has two leaves.         *)
Contents(nodes, id) ==
  LET leaves == Leaves(nodes, id) IN
  [k \in {nodes[n].key : n \in leaves} |-> nodes[CHOOSE n \in leaves : nodes[n].key = k].val]

(* The hash that the records under a prefix have on every way to build     *)
(* them: nothing, one collapsed leaf, or a branch over both halves.  Keys  *)
(* that share all but their last h bits are told apart by these.           *)
CollapsedHash(map, keys) ==
  LET k == CHOOSE x \in keys : TRUE IN IF keys = {} THEN NullHash ELSE LeafHash(k, map[k])

DividedHash(map, h, hash) ==
  [keys \in SUBSET DOMAIN map |->
     LET right == {k \in keys : GetBit(k, Depth - h) = 1} IN
     IF \A j, k \in keys : j = k THEN CollapsedHash(map, keys)
     ELSE BranchHash(hash[keys \ right], hash[right])]

CanonicalHash(map) ==
  LET hash[h \in Nat] == IF h = 0 THEN [keys \in SUBSET DOMAIN map |-> CollapsedHash(map, keys)]
                         ELSE DividedHash(map, h, hash[h - 1])
  IN  hash[Depth][DOMAIN map]
============================================================================

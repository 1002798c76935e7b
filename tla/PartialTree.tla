---------------------------- MODULE PartialTree ----------------------------
(***************************************************************************)
(* A client that works on a partial tree, made of proofs that were         *)
(* exported from a provider's full one: it imports and merges proofs,      *)
(* which may come late, looks records up and updates them.                 *)
(*                                                                         *)
(* Beside the client's tree the module keeps the full tree it stands for:  *)
(* the provider's at the version the client trusts, with the same updates  *)
(* made to it as the client makes to the partial one.                      *)
(***************************************************************************)
EXTENDS ProofStrands, Lookup

CONSTANTS
  Key,          \* the keys in use, a few of KeySpace
  MaxProofs,    \* bound: how many proofs the client imports or merges
  MaxUpdates    \* bound: how many sets of updates it applies

ASSUME KeyAssumption == Key \subseteq KeySpace

VARIABLES
  nodes,        \* the provider's stored nodes
  versions,     \* the roots its head has had
  cnodes,       \* the client's stored nodes
  head,         \* the client's head: the root of its partial tree
  full,         \* the root, among nodes, of the full tree this stands for
  proven,       \* the keys the client has proofs for, or has updated
  proofs, updates    \* how many of each there have been

vars == <<nodes, versions, cnodes, head, full, proven, proofs, updates>>

RootHash(id) == ParsedNode(nodes, id).hash

Updates    == {Delete} \cup {Put(v) : v \in Val}
UpdateSets == UNION {[S -> Updates] : S \in SUBSET Key \ {{}}}

---------------------------------------------------------------------------
(* The provider builds its tree.  A proof may be of the tree as it was     *)
(* before, if it is slow to arrive.                                        *)
Apply(set) ==
  /\ versions = {Empty}
  /\ RoomForLeaves(nodes, set)
  /\ \E result \in {PutAll(nodes, Empty, set)} :
       /\ nodes' = result.nodes
       /\ versions' = versions \cup {result.built.id}
  /\ UNCHANGED <<cnodes, head, full, proven, proofs, updates>>

(* Mutant: the candidate root is not compared with the expected one.       *)
ImportUnchecked(proof, version, keys) ==
  /\ head = Empty
  /\ proofs < MaxProofs
  /\ proofs' = proofs + 1
  /\ \E result \in {Import(cnodes, proof, 0)} :
       /\ cnodes' = result.nodes
       /\ IF result.thrown
          THEN UNCHANGED <<head, full, proven>>
          ELSE head' = result.built.id /\ full' = version /\ proven' = keys
  /\ UNCHANGED <<nodes, versions, updates>>

(* importProof, with the root of some version as expectedRoot.  It throws  *)
(* at once if the head is not empty; if the root is not the expected one   *)
(* the nodes are written but the head stays.                               *)
ImportProof(proof, version, keys) ==
  /\ head = Empty
  /\ proofs < MaxProofs
  /\ proofs' = proofs + 1
  /\ \E result \in {Import(cnodes, proof, 0)} :
       /\ cnodes' = result.nodes
       /\ IF result.thrown \/ result.built.hash # RootHash(version)
          THEN UNCHANGED <<head, full, proven>>
          ELSE head' = result.built.id /\ full' = version /\ proven' = keys
  /\ UNCHANGED <<nodes, versions, updates>>

(* The tree of a proof goes into the one that is there.                    *)
Merge(result, keys) ==
  \E merged \in {MergeTrees(result.nodes, head, result.built.id)} :
    cnodes' = merged.nodes /\ head' = merged.built.id /\ proven' = proven \cup keys

(* Mutant: a tree with another root is merged, too.                        *)
MergeAnyway(proof, keys) ==
  /\ proofs < MaxProofs
  /\ proofs' = proofs + 1
  /\ \E result \in {Import(cnodes, proof, 0)} :
       IF result.thrown
       THEN cnodes' = result.nodes /\ UNCHANGED <<head, proven>>
       ELSE Merge(result, keys)
  /\ UNCHANGED <<nodes, versions, full, updates>>

MergeProof(proof, keys) ==
  /\ proofs < MaxProofs
  /\ proofs' = proofs + 1
  /\ \E result \in {Import(cnodes, proof, 0)} :
       IF result.thrown \/ result.built.hash # ParsedNode(cnodes, head).hash
       THEN cnodes' = result.nodes /\ UNCHANGED <<head, proven>>
       ELSE Merge(result, keys)
  /\ UNCHANGED <<nodes, versions, full, updates>>

(* Updates of the partial tree, and the same ones of the full tree.        *)
ClientApply(set) ==
  /\ updates < MaxUpdates
  /\ RoomForLeaves(nodes, set) /\ RoomForLeaves(cnodes, set)
  /\ updates' = updates + 1
  /\ \E result \in {PutAll(cnodes, head, set)} :
       /\ cnodes' = result.nodes
       /\ \/ result.thrown /\ UNCHANGED <<nodes, head, full, proven>>
          \/ /\ ~result.thrown
             /\ head' = result.built.id
             /\ \E mirror \in {PutAll(nodes, full, set)} :
                  nodes' = mirror.nodes /\ full' = mirror.built.id
             /\ proven' = proven \cup DOMAIN set
  /\ UNCHANGED <<versions, proofs>>

---------------------------------------------------------------------------
Init ==
  /\ nodes = NoTable
  /\ versions = {Empty}
  /\ cnodes = NoTable
  /\ head = Empty
  /\ full = Empty
  /\ proven = {}
  /\ proofs = 0
  /\ updates = 0

(* Bound: there are ids for the leaves of a proof, too.                    *)
RoomForStrands(strands) == NextId(DOMAIN cnodes, TRUE) + Len(strands) <= FirstInterior

Receive(proof, keys) ==
  /\ RoomForStrands(proof.strands)
  /\ \/ \E version \in versions : ImportProof(proof, version, keys)
     \/ MergeProof(proof, keys)

ProofOf(root, keys)         == MakeProof(nodes, root, ItemsOf(nodes, root, keys))
ProofOfRange(root, low, high) == MakeProof(nodes, root, ItemsInRange(nodes, root, low, high))

Next ==
  \/ \E set \in UpdateSets : Apply(set) \/ ClientApply(set)
  \/ \E root \in versions : \E keys \in SUBSET Key \ {{}} : Receive(ProofOf(root, keys), keys)
  \/ \E root \in versions : \E low, high \in Key :
       low < high /\ Receive(ProofOfRange(root, low, high), low .. high)

Spec == Init /\ [][Next]_vars

---------------------------------------------------------------------------
(* Properties                                                              *)

Get(k) == GetMulti(cnodes, head, {k})[k]

(* Every variable has its type; a witness is there for an interior node    *)
(* and a witness leaf for a leaf.                                          *)
TypeOK ==
  /\ \A id \in DOMAIN cnodes :
       LET node == cnodes[id] IN
       /\ node.type \in {"Leaf", "WitnessLeaf", "Witness", "BranchLeft", "BranchRight", "BranchBoth"}
       /\ {node.left, node.right} \subseteq DOMAIN cnodes \cup {Empty}
       /\ id < FirstInterior <=> IsLeaf(node)
       /\ node.key \in IF IsLeaf(node) THEN Key ELSE {NoKey}
  /\ {head} \subseteq DOMAIN cnodes \cup {Empty}
  /\ versions \cup {full} \subseteq DOMAIN nodes \cup {Empty}
  /\ proven \subseteq KeySpace

(* "After an update, the new root of the partial-tree will be the same as  *)
(* the root would be if you made the same modifications to the full tree"  *)
(* (README): through imports, merges and updates that split or move leaves *)
(* and witness leaves, the two roots stay the same.                        *)
SameRoot == ParsedNode(cnodes, head).hash = RootHash(full)

(* What the full tree says of a key.                                       *)
AsInFullTree(answer, k) ==
  LET map == Contents(nodes, full) IN
  \/ k \in DOMAIN map /\ answer.exists /\ answer.val = map[k]
  \/ k \notin DOMAIN map /\ ~answer.exists

(* A lookup in the partial tree throws or finds what the full tree has; it *)
(* never throws for a key that was proven, present or not, alone or with   *)
(* others or in a range, once or before any updates and merges.            *)
AnswersAreTrue ==
  \A k \in KeySpace : (k \notin proven /\ Get(k) = Unknown) \/ AsInFullTree(Get(k), k)

(* "New proofs can also be generated from a partial-tree" (README), and    *)
(* they are the proofs that the full tree gives for the keys.              *)
ProofsArePassedOn ==
  \A keys \in SUBSET (proven \cap Key) \ {{}} :
    LET items == ItemsOf(cnodes, head, keys) IN
    Provable(items) /\ MakeProof(cnodes, head, items) = ProofOf(full, keys)

(* A set of updates without deletions never meets a witness if all of its  *)
(* keys are proven (README, "so long as you don't attempt to modify a      *)
(* non-authenticated value"); a deletion may.  EmptyVal is the value of no *)
(* record here, so that each put changes the tree.                         *)
ProvenKeysCanBePut ==
  \A keys \in SUBSET (proven \cap Key) \ {{}} :
    ~PutAll(cnodes, head, [k \in keys |-> Put(EmptyVal)]).thrown

(* "Never includes redundant sibling hashes, or ones that could be         *)
(* calculated during verification" (README, "Compact proofs"): in a tree   *)
(* made of one proof, each hash that was given belongs to a subtree with   *)
(* none of the proven keys, beside one that has some.                      *)
Positions == {s \in (0 .. Depth) \X KeySpace : KeepPrefixBits(s[2], s[1]) = s[2]}

ChildAt(id, key, depth) == IF GetBit(key, depth) = 1 THEN cnodes[id].right ELSE cnodes[id].left

NodeAt(depth, path) ==
  LET node[n \in Nat] ==
        IF n = 0 THEN head
        ELSE LET above == node[n - 1] IN
             IF IsBranch(ParsedNode(cnodes, above)) THEN ChildAt(above, path, n - 1) ELSE Empty
  IN  node[depth]

HasProven(d, p) == \E k \in proven : KeepPrefixBits(k, d) = p
Sibling(d, p)   == IF GetBit(p, d - 1) = 1 THEN p - 2^(Depth - d) ELSE p + 2^(Depth - d)

NothingRedundant ==
  proofs = 1 /\ updates = 0 =>
    \A s \in Positions :
      ParsedNode(cnodes, NodeAt(s[1], s[2])).type = "Witness" =>
        ~HasProven(s[1], s[2]) /\ HasProven(s[1], Sibling(s[1], s[2]))
=============================================================================

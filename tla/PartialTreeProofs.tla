------------------------- MODULE PartialTreeProofs -------------------------
(***************************************************************************)
(* A partial tree has the root hash of the full tree that it stands for,   *)
(* and lookups in it say what that tree says or throw.                     *)
(*                                                                         *)
(* The client's nodes need not be trees: imports write whatever a proof    *)
(* says.  But each of them has the hash of its data, so that a node with   *)
(* the hash of a full tree's node is a witness or of the same kind as that *)
(* one, and so are its children.  The same updates then take the recursion *)
(* of putAux through both trees in step, until one of its calls meets a    *)
(* witness in the partial tree and throws.                                 *)
(***************************************************************************)
EXTENDS PartialTree, TreeProofs

---------------------------------------------------------------------------
(* Nodes that have the hashes of their data                                *)

HonestNode(T, x) ==
  /\ \/ T[x].type = "Witness" /\ T[x].left = Empty /\ T[x].right = Empty
     \/ /\ IsLeaf(T[x]) /\ T[x].left = Empty /\ T[x].right = Empty
        /\ T[x].hash = LeafHash(T[x].key, T[x].val)
     \/ /\ IsBranch(T[x])
        /\ T[x].left \in DOMAIN T \cup {Empty} /\ T[x].right \in DOMAIN T \cup {Empty}
        /\ T[x].hash = BranchHash(ParsedNode(T, T[x].left).hash, ParsedNode(T, T[x].right).hash)
  /\ x < FirstInterior <=> IsLeaf(T[x])

Honest(T) ==
  /\ DOMAIN T \in SUBSET Nat /\ Bounded(DOMAIN T) /\ Empty \notin DOMAIN T
  /\ \A x \in DOMAIN T : HonestNode(T, x)

(* A node stays what it is when others are written beside it.              *)
LEMMA HonestNodesStay ==
  ASSUME NEW T, Honest(T), NEW U, Extends(U, T), Empty \notin DOMAIN U, NEW x \in DOMAIN T
  PROVE  HonestNode(U, x)
<1>1. U[x] = T[x] /\ HonestNode(T, x)
  BY DEF Extends, Honest
<1>2. \A y \in DOMAIN T \cup {Empty} : ParsedNode(U, y) = ParsedNode(T, y) /\ y \in DOMAIN U \cup {Empty}
  BY DEF Extends, ParsedNode
<1>3. CASE IsBranch(T[x])
  <2>1. T[x].left \in DOMAIN T \cup {Empty} /\ T[x].right \in DOMAIN T \cup {Empty}
    BY <1>1, <1>3 DEF HonestNode, IsBranch, IsLeaf
  <2>2. ParsedNode(U, T[x].left) = ParsedNode(T, T[x].left) /\ ParsedNode(U, T[x].right) = ParsedNode(T, T[x].right)
    BY <1>2, <2>1
  <2>3. T[x].left \in DOMAIN U \cup {Empty} /\ T[x].right \in DOMAIN U \cup {Empty}
    BY <1>2, <2>1
  <2> QED  BY <1>1, <1>3, <2>2, <2>3 DEF HonestNode, IsBranch, IsLeaf
<1> QED  BY <1>1, <1>3 DEF HonestNode

(* Two lots of nodes, written beside those of one table.                   *)
LEMMA HonestTogether ==
  ASSUME NEW U, NEW V, Honest(V), NEW W, Honest(W), Extends(U, V), Extends(U, W),
         DOMAIN U = DOMAIN V \cup DOMAIN W, DOMAIN U \in SUBSET Nat, Bounded(DOMAIN U)
  PROVE  Honest(U)
<1>1. Empty \notin DOMAIN U
  BY DEF Honest
<1>2. \A x \in DOMAIN U : HonestNode(U, x)
  BY <1>1, HonestNodesStay
<1> QED  BY <1>1, <1>2 DEF Honest

(* One more node.                                                          *)
LEMMA HonestWithOneMore ==
  ASSUME NEW T, Honest(T), NEW U, Extends(U, T), NEW x \in Nat, x # Empty,
         DOMAIN U = DOMAIN T \cup {x}, HonestNode(U, x)
  PROVE  Honest(U)
<1>1. Empty \notin DOMAIN U /\ DOMAIN U \in SUBSET Nat
  BY DEF Honest
<1>2. \A y \in DOMAIN U : HonestNode(U, y)
  BY <1>1, HonestNodesStay
<1>3. Bounded(DOMAIN U)
  BY StillBounded DEF Honest
<1> QED  BY <1>1, <1>2, <1>3 DEF Honest

(* Hashes of branches tell their children's.                               *)
LEMMA BranchHashes ==
  ASSUME NEW a, NEW b, NEW c, NEW d, BranchHash(a, b) = BranchHash(c, d)
  PROVE  a = c /\ b = d
BY DEF BranchHash

(* What a node can be that has the hash of a full tree's node.             *)
SameKind(n, o) ==
  /\ n.hash = o.hash
  /\ \/ n.type = "Witness"
     \/ n.type = "Empty" /\ o.type = "Empty"
     \/ IsLeaf(n) /\ o.type = "Leaf"
     \/ IsBranch(n) /\ IsBranch(o)

Stands(T, x, F, y) ==
  x \in DOMAIN T \cup {Empty} /\ ParsedNode(T, x).hash = ParsedNode(F, y).hash

(* It stands for that node, and if it is a branch, then its children stand *)
(* for the children of that node.                                          *)
LEMMA KindsAlike ==
  ASSUME NEW T, Honest(T), NEW x, NEW F, NEW y, NEW d \in 0 .. Depth, SubOK(F, y, d), Stands(T, x, F, y)
  PROVE  /\ SameKind(ParsedNode(T, x), ParsedNode(F, y))
         /\ \/ ParsedNode(T, x).type = "Witness" /\ x # Empty
            \/ x = Empty /\ y = Empty
            \/ /\ x # Empty /\ y # Empty /\ IsLeaf(T[x]) /\ F[y].type = "Leaf" /\ StoredLeaf(F, y)
               /\ T[x].key = F[y].key /\ T[x].val = F[y].val
               /\ T[x].left = Empty /\ T[x].right = Empty /\ F[y].left = Empty /\ F[y].right = Empty
            \/ /\ x # Empty /\ y # Empty /\ IsBranch(T[x]) /\ IsBranch(F[y]) /\ d \in 0 .. Depth - 1
               /\ SubOK(F, F[y].left, d + 1) /\ SubOK(F, F[y].right, d + 1)
               /\ Stands(T, T[x].left, F, F[y].left) /\ Stands(T, T[x].right, F, F[y].right)
<1>1. \/ y = Empty /\ ParsedNode(F, y) = EmptyNode
      \/ y # Empty /\ ParsedNode(F, y) = F[y] /\ StoredLeaf(F, y)
      \/ /\ y # Empty /\ ParsedNode(F, y) = F[y] /\ StoredBranch(F, y, d) /\ IsBranch(F[y])
         /\ d \in 0 .. Depth - 1 /\ SubOK(F, F[y].left, d + 1) /\ SubOK(F, F[y].right, d + 1)
  BY KindsOfTrees
<1>2. EmptyNode.hash = NullHash /\ EmptyNode.type = "Empty"
  BY DEF EmptyNode
<1>5. /\ y = Empty => ParsedNode(F, y).hash = NullHash
      /\ StoredLeaf(F, y) /\ y # Empty => ParsedNode(F, y).hash = LeafHash(F[y].key, F[y].val)
      /\ StoredBranch(F, y, d) /\ y # Empty =>
           ParsedNode(F, y).hash = BranchHash(ParsedNode(F, F[y].left).hash, ParsedNode(F, F[y].right).hash)
  BY <1>1, <1>2 DEF StoredLeaf, StoredBranch, ParsedNode
<1>3. CASE x = Empty
  <2>1. ParsedNode(T, x) = EmptyNode /\ ParsedNode(F, y).hash = NullHash
    BY <1>2, <1>3 DEF Stands, ParsedNode
  <2>2. y = Empty
    BY <1>1, <2>1, HashesDiffer DEF StoredLeaf, StoredBranch
  <2> QED  BY <1>1, <1>2, <1>3, <2>1, <2>2 DEF SameKind
<1>4. CASE x # Empty
  <2>1. ParsedNode(T, x) = T[x] /\ x \in DOMAIN T /\ HonestNode(T, x) /\ T[x].hash = ParsedNode(F, y).hash
    BY <1>4 DEF Stands, ParsedNode, Honest
  <2>2. CASE T[x].type = "Witness"
    BY <1>4, <2>1, <2>2 DEF SameKind
  <2>3. CASE IsLeaf(T[x]) /\ T[x].hash = LeafHash(T[x].key, T[x].val) /\ T[x].left = Empty /\ T[x].right = Empty
    <3>1. y # Empty /\ ParsedNode(F, y) = F[y] /\ StoredLeaf(F, y)
      <4>1. ParsedNode(F, y).hash = LeafHash(T[x].key, T[x].val)
        BY <2>1, <2>3
      <4>2. y # Empty /\ ~StoredBranch(F, y, d)
        BY <4>1, <1>5, HashesDiffer
      <4> QED  BY <4>2, <1>1
    <3>2. T[x].key = F[y].key /\ T[x].val = F[y].val /\ F[y].type = "Leaf"
      <4>1. LeafHash(T[x].key, T[x].val) = LeafHash(F[y].key, F[y].val)
        BY <2>1, <2>3, <3>1, <1>5
      <4> QED  BY <4>1, <3>1, HashesDiffer DEF StoredLeaf
    <3> QED  BY <1>4, <2>1, <2>3, <3>1, <3>2 DEF SameKind, StoredLeaf
  <2>4. CASE /\ IsBranch(T[x])
             /\ T[x].left \in DOMAIN T \cup {Empty} /\ T[x].right \in DOMAIN T \cup {Empty}
             /\ T[x].hash = BranchHash(ParsedNode(T, T[x].left).hash, ParsedNode(T, T[x].right).hash)
    <3>1. /\ y # Empty /\ ParsedNode(F, y) = F[y] /\ StoredBranch(F, y, d) /\ IsBranch(F[y])
          /\ d \in 0 .. Depth - 1 /\ SubOK(F, F[y].left, d + 1) /\ SubOK(F, F[y].right, d + 1)
      <4> DEFINE l == ParsedNode(T, T[x].left).hash
                 r == ParsedNode(T, T[x].right).hash
      <4>1. ParsedNode(F, y).hash = BranchHash(l, r)
        BY <2>1, <2>4
      <4> HIDE DEF l, r
      <4>2. y # Empty /\ ~StoredLeaf(F, y)
        BY <4>1, <1>5, HashesDiffer
      <4> QED  BY <4>2, <1>1
    <3>2. F[y].hash = BranchHash(ParsedNode(F, F[y].left).hash, ParsedNode(F, F[y].right).hash)
      BY <3>1 DEF StoredBranch
    <3>3. /\ ParsedNode(T, T[x].left).hash = ParsedNode(F, F[y].left).hash
          /\ ParsedNode(T, T[x].right).hash = ParsedNode(F, F[y].right).hash
      <4>1. BranchHash(ParsedNode(T, T[x].left).hash, ParsedNode(T, T[x].right).hash) =
            BranchHash(ParsedNode(F, F[y].left).hash, ParsedNode(F, F[y].right).hash)
        BY <2>1, <2>4, <3>1, <3>2
      <4> QED  BY <4>1, BranchHashes
    <3> QED  BY <1>4, <2>1, <2>4, <3>1, <3>3 DEF SameKind, Stands
  <2> QED  BY <2>1, <2>2, <2>3, <2>4 DEF HonestNode
<1> QED  BY <1>3, <1>4
---------------------------------------------------------------------------
(* Two recursions in step                                                  *)

SameLeaf(T, x, F, y) ==
  /\ x \in DOMAIN T /\ IsLeaf(T[x]) /\ StoredLeaf(F, y)
  /\ T[x].key = F[y].key /\ T[x].hash = F[y].hash

SameEntry(T, F, p, q) ==
  /\ p = NoEntry <=> q = NoEntry
  /\ p.deletion <=> q.deletion
  /\ p.val = q.val
  /\ p.override = Empty <=> q.override = Empty
  /\ q # NoEntry /\ q.override # Empty => SameLeaf(T, p.override, F, q.override)

SameUpdates(T, F, u, v) == \A k \in KeySpace : SameEntry(T, F, u[k], v[k])

(* The same updates have the same iterators.                               *)
LEMMA SameWindows ==
  ASSUME NEW T, NEW F, NEW u, NEW v, SameUpdates(T, F, u, v)
  PROVE  /\ Present(u) = Present(v)
         /\ \A it : After(u, it) = After(v, it)
         /\ \A begin, end : Window(u, begin, end) = Window(v, begin, end)
         /\ \A begin, end, d : Middle(u, begin, end, d) = Middle(v, begin, end, d)
<1>1. Present(u) = Present(v)
  BY DEF SameUpdates, SameEntry, Present
<1> QED  BY <1>1 DEF After, Window, Middle

(* What a frame of putAux is given in the full tree, ...                   *)
Idle(work) == work \in Works /\ Bounded(work.used)

InPlace(d, I, begin, end, work) ==
  /\ Region(I, d) /\ \A k \in I : k < end
  /\ Iterators(work.updates, begin, end) /\ Window(work.updates, begin, end) \subseteq I

HasRoom(work, b, begin, end) ==
  RoomAbove(work.used, b) /\ b + Cardinality(Fresh(Asks(work, begin, end))) <= FirstInterior

(* ... and in both.                                                        *)
InStep(T, F, d, I, b, begin, end, work, workF) ==
  /\ InPlace(d, I, begin, end, work) /\ HasRoom(work, b, begin, end)
  /\ Running(T, work) /\ Idle(workF) /\ SameUpdates(T, F, work.updates, workF.updates)

(* What it returns: the nodes of the partial tree are honest ones, whether *)
(* or not it throws, and if it does not, then the full tree's frame has    *)
(* done the same.                                                          *)
WroteHonestly(T, b, work, out) ==
  /\ IsOutcome(out)
  /\ Honest(With(T, out.written)) /\ Running(With(T, out.written), out.work)
  /\ out.work.used = work.used \cup DOMAIN out.written /\ work.used \cap DOMAIN out.written = {}
  /\ RoomAbove(out.work.used, b)

InTable(U, built) == built.id \in DOMAIN U \cup {Empty} /\ built = Reuse(U, built.id)

SameBuilt(U, built, builtF) == InTable(U, built) /\ builtF.id \in Nat /\ SameKind(built, builtF)

EndInStep(T, F, I, work, out, outF) ==
  /\ IsOutcome(outF) /\ ~outF.thrown /\ (out.bubble <=> outF.bubble)
  /\ Idle(outF.work) /\ SameUpdates(T, F, out.work.updates, outF.work.updates)
  /\ \A k \in KeySpace \ I : out.work.updates[k] = work.updates[k]
  /\ SameBuilt(With(T, out.written), out.built, outF.built)

Mirrored(T, F, I, b, Q, work, out, outF) ==
  /\ WroteHonestly(T, b + Cardinality(Fresh(Q)), work, out)
  /\ ~out.thrown => EndInStep(T, F, I, work, out, outF)

(* Nothing is written when something is returned or thrown.                *)
LEMMA NothingIsHonest ==
  ASSUME NEW T, Honest(T), NEW work, Running(T, work), NEW b, RoomAbove(work.used, b), NEW b2 \in Nat, b <= b2,
         NEW work2 \in Works, work2.used = work.used,
         NEW out, IsOutcome(out), out.work = work2, out.written = NoTable
  PROVE  /\ WroteHonestly(T, b2, work, out)
         /\ \A built : InTable(T, built) => InTable(With(T, out.written), built)
<1> DEFINE U == With(T, out.written)
<1>1. DOMAIN U = DOMAIN T /\ Extends(U, T) /\ DOMAIN out.written = {}
  <2>1. U = With(T, NoTable) /\ DOMAIN out.written = DOMAIN NoTable
    OBVIOUS
  <2>2. DOMAIN NoTable = {} /\ Extends(U, T) /\ Extends(T, U)
    BY <2>1, NothingAdded
  <2> QED  BY <2>1, <2>2 DEF Extends
<1> HIDE DEF U
<1>2. Honest(U)
  <2>1. DOMAIN T \in SUBSET Nat /\ Bounded(DOMAIN T) /\ Empty \notin DOMAIN T
    BY DEF Honest
  <2> QED  BY <1>1, <2>1, HonestTogether
<1>3. Running(U, work2) /\ RoomAbove(work.used, b2)
  BY <1>1 DEF Running, RoomAbove, Works
<1>4. \A built : InTable(T, built) => InTable(U, built)
  BY <1>1 DEF InTable, Reuse, Extends, ParsedNode
<1> QED  BY <1>1, <1>2, <1>3, <1>4 DEF WroteHonestly, U

(* The two kinds of node that are written are honest.                      *)
LEMMA BranchesAreHonest ==
  ASSUME NEW U, NEW x \in DOMAIN U, x \in Nat, x >= FirstInterior, NEW T, NEW l, NEW r, Extends(U, T),
         InTable(T, l), InTable(T, r), U[x] = BranchNode(l, r)
  PROVE  HonestNode(U, x)
<1>1. l.id \in DOMAIN U \cup {Empty} /\ r.id \in DOMAIN U \cup {Empty}
  BY DEF InTable, Extends
<1>2. \A y \in DOMAIN T \cup {Empty} : ParsedNode(U, y) = ParsedNode(T, y)
  BY DEF Extends, ParsedNode
<1>3. l.hash = ParsedNode(U, l.id).hash /\ r.hash = ParsedNode(U, r.id).hash
  BY <1>2 DEF InTable, Reuse, Built
<1>4. /\ U[x].left = l.id /\ U[x].right = r.id /\ U[x].hash = BranchHash(l.hash, r.hash)
      /\ IsBranch(U[x]) /\ ~IsLeaf(U[x])
  BY DEF BranchNode, EmptyNode, IsBranch, IsLeaf
<1>5. ~(x < FirstInterior)
  BY FirstInteriorAssumption
<1> QED  BY <1>1, <1>3, <1>4, <1>5 DEF HonestNode

(* A leaf.                                                                 *)
LEMMA LeavesAreHonest ==
  ASSUME NEW U, NEW x \in DOMAIN U, x < FirstInterior, NEW k, NEW v, U[x] = LeafNode(k, v)
  PROVE  HonestNode(U, x)
BY DEF HonestNode, LeafNode, EmptyNode, IsLeaf

(* What Join does, or a branch by itself.                                  *)
JoinedInStep(U, b, work, workF, out, outF) ==
  /\ WroteHonestly(U, b, work, out)
  /\ out.work.updates = work.updates
  /\ ~out.thrown =>
       /\ IsOutcome(outF) /\ ~outF.thrown /\ (out.bubble <=> outF.bubble)
       /\ Idle(outF.work) /\ outF.work.updates = workF.updates
       /\ SameBuilt(With(U, out.written), out.built, outF.built)

(* What is returned unwritten, to be moved up.                             *)
LEMMA MovedInStep ==
  ASSUME NEW U, Honest(U), NEW work, Running(U, work), NEW b, RoomAbove(work.used, b), NEW workF, Idle(workF),
         NEW built, NEW builtF, SameBuilt(U, built, builtF), NEW bubble
  PROVE  JoinedInStep(U, b, work, workF, Return(work, built, bubble), Return(workF, builtF, bubble))
<1> DEFINE out == Return(work, built, bubble)
           outF == Return(workF, builtF, bubble)
<1>1. /\ IsOutcome(out) /\ out.work = work /\ out.written = NoTable /\ ~out.thrown /\ ~outF.thrown
      /\ IsOutcome(outF)
      /\ out.bubble = bubble /\ outF.bubble = bubble /\ outF.work = workF
      /\ out.built = built /\ outF.built = builtF
  BY DEF Return, IsOutcome
<1> HIDE DEF out, outF
<1>2. WroteHonestly(U, b, work, out) /\ InTable(With(U, out.written), built)
  <2>1. work \in Works /\ b \in Nat /\ b <= b /\ InTable(U, built)
    BY DEF Running, RoomAbove, SameBuilt
  <2> QED  BY <1>1, <2>1, NothingIsHonest
<1>3. JoinedInStep(U, b, work, workF, out, outF)
  BY <1>1, <1>2 DEF JoinedInStep, SameBuilt
<1> QED  BY <1>3 DEF out, outF

(* A thrown outcome writes nothing of its own.                             *)
LEMMA ThrownInStep ==
  ASSUME NEW U, Honest(U), NEW work, Running(U, work), NEW b, RoomAbove(work.used, b), NEW b2 \in Nat, b <= b2,
         NEW work2 \in Works, work2.used = work.used
  PROVE  /\ WroteHonestly(U, b2, work, Throw(work2)) /\ Throw(work2).thrown
         /\ Throw(work2).work = work2
<1> DEFINE out == Throw(work2)
<1>1. IsOutcome(out) /\ out.work = work2 /\ out.written = NoTable /\ out.thrown
  BY DEF Throw, IsOutcome
<1> HIDE DEF out
<1>2. WroteHonestly(U, b2, work, out)
  BY <1>1, NothingIsHonest
<1> QED  BY <1>1, <1>2 DEF out

(* A new branch.                                                           *)
LEMMA BranchedInStep ==
  ASSUME NEW U, Honest(U), NEW work, Running(U, work), NEW b, RoomAbove(work.used, b), NEW workF, Idle(workF),
         NEW l, NEW lF, SameBuilt(U, l, lF), NEW r, NEW rF, SameBuilt(U, r, rF)
  PROVE  JoinedInStep(U, b, work, workF, WriteNew(work, BranchNode(l, r)), WriteNew(workF, BranchNode(lF, rF)))
<1> DEFINE node == BranchNode(l, r)
           nodeF == BranchNode(lF, rF)
           out == WriteNew(work, node)
           outF == WriteNew(workF, nodeF)
           id == BranchNext(work.used)
           idF == BranchNext(workF.used)
           V == With(U, out.written)
<1>1. ~IsLeaf(node) /\ ~IsLeaf(nodeF) /\ IsBranch(node) /\ IsBranch(nodeF)
  BY DEF BranchNode, EmptyNode, IsLeaf, IsBranch
<1>2. node.hash = nodeF.hash
  <2>1. l.hash = lF.hash /\ r.hash = rF.hash
    BY DEF SameBuilt, SameKind
  <2>2. node.hash = BranchHash(l.hash, r.hash) /\ nodeF.hash = BranchHash(lF.hash, rF.hash)
    BY DEF BranchNode, EmptyNode
  <2> QED  BY <2>1, <2>2
<1> HIDE DEF nodeF
<1>3. id = NextId(work.used, IsLeaf(node)) /\ idF = NextId(workF.used, IsLeaf(nodeF))
  BY <1>1, TwoCounters
<1>4. /\ Writes(work, id, node, out) /\ ~out.thrown /\ ~out.bubble /\ IsOutcome(out)
      /\ Writes(workF, idF, nodeF, outF) /\ ~outF.thrown /\ ~outF.bubble /\ IsOutcome(outF)
  BY <1>3, WritesNext
<1>5. /\ work \in Works /\ work.used \in SUBSET Nat /\ Bounded(work.used)
      /\ workF \in Works /\ workF.used \in SUBSET Nat /\ Bounded(workF.used)
  BY DEF Running, Idle, Works
<1>6. /\ id \in Nat /\ id # Empty /\ id >= FirstInterior /\ id \notin work.used /\ idF \in Nat
  BY <1>5, NextBranchId
<1> HIDE DEF id, idF, out, outF, node
<1>7. Beside(U, V, work, id, node, out)
  BY <1>4, <1>6, WritingOne
<1> HIDE DEF V
<1>8. Honest(V)
  <2>1. DOMAIN V = DOMAIN U \cup {id}
    <3>1. DOMAIN With(U, out.written) = DOMAIN U \cup DOMAIN out.written
      BY TablesAdd
    <3> QED  BY <1>7, <3>1 DEF Beside, V
  <2>2. HonestNode(V, id)
    <3>1. V[id] = BranchNode(l, r) /\ id \in DOMAIN V /\ Extends(V, U)
      BY <1>7 DEF Beside, node
    <3>2. InTable(U, l) /\ InTable(U, r)
      BY DEF SameBuilt
    <3> QED  BY <3>1, <3>2, <1>6, BranchesAreHonest
  <2> QED  BY <1>6, <1>7, <2>1, <2>2, HonestWithOneMore DEF Beside
<1>9. RoomAbove(out.work.used, b)
  BY <1>5, <1>6, <1>7, FirstInteriorAssumption DEF RoomAbove, Beside
<1>10. WroteHonestly(U, b, work, out)
  BY <1>4, <1>6, <1>7, <1>8, <1>9 DEF WroteHonestly, Beside, V
<1>11. Idle(outF.work) /\ outF.work.updates = workF.updates /\ outF.built = Built(idF, nodeF)
  <2>1. outF.work = [workF EXCEPT !.used = @ \cup {idF}] /\ outF.built = Built(idF, nodeF)
    BY <1>4 DEF Writes
  <2>2. outF.work \in Works /\ outF.work.used = workF.used \cup {idF} /\ outF.work.updates = workF.updates
    BY <1>5, <1>6, <2>1 DEF Works
  <2>3. Bounded(workF.used \cup {idF})
    BY <1>5, <1>6, StillBounded
  <2> QED  BY <2>1, <2>2, <2>3 DEF Idle
<1>12. SameBuilt(V, out.built, outF.built)
  <2>1. InTable(V, out.built)
    <3>1. out.built = Reuse(V, id) /\ id \in DOMAIN V
      BY <1>7 DEF Beside
    <3> QED  BY <3>1 DEF InTable, Reuse, Built
  <2>2. out.built = Built(id, node)
    BY <1>4 DEF Writes
  <2>3. SameKind(Built(id, node), Built(idF, nodeF))
    BY <1>1, <1>2 DEF SameKind, Built, IsBranch
  <2>4. Built(idF, nodeF).id \in Nat
    BY <1>6 DEF Built
  <2> QED  BY <1>11, <2>1, <2>2, <2>3, <2>4 DEF SameBuilt
<1>13. out.work.updates = work.updates
  BY <1>7 DEF Beside
<1>14. JoinedInStep(U, b, work, workF, out, outF)
  BY <1>4, <1>10, <1>11, <1>12, <1>13 DEF JoinedInStep, V
<1> QED  BY <1>14 DEF out, outF, node, nodeF

(* Every way to join two subtrees that stand for two others.               *)
LEMMA JoinInStep ==
  ASSUME NEW U, Honest(U), NEW work, Running(U, work), NEW b, RoomAbove(work.used, b), NEW workF, Idle(workF),
         NEW l, NEW lF, SameBuilt(U, l, lF), NEW r, NEW rF, SameBuilt(U, r, rF), NEW check, NEW checkF, check <=> checkF
  PROVE  JoinedInStep(U, b, work, workF, Join(work, l, r, check), Join(workF, lF, rF, checkF))
<1> DEFINE out == Join(work, l, r, check)
           outF == Join(workF, lF, rF, checkF)
<1>1. /\ l.type = "Witness" \/ (l.type = "Empty" /\ lF.type = "Empty") \/ (IsLeaf(l) /\ lF.type = "Leaf")
           \/ (IsBranch(l) /\ IsBranch(lF))
      /\ r.type = "Witness" \/ (r.type = "Empty" /\ rF.type = "Empty") \/ (IsLeaf(r) /\ rF.type = "Leaf")
           \/ (IsBranch(r) /\ IsBranch(rF))
  BY DEF SameBuilt, SameKind
<1>2. CASE check /\ "Witness" \in {l.type, r.type}
  <2>1. out = Throw(work)
    <3>1. ~({l.type, r.type} = {"Empty"}) /\ ~(IsLeaf(l) /\ r.type = "Empty") /\ ~(l.type = "Empty" /\ IsLeaf(r))
      BY <1>2 DEF IsLeaf
    <3> QED  BY <1>2, <3>1 DEF Join
  <2>2. work \in Works /\ b \in Nat /\ b <= b
    BY DEF Running, RoomAbove
  <2>3. WroteHonestly(U, b, work, out) /\ out.thrown /\ out.work = work
    BY <2>1, <2>2, ThrownInStep
  <2> HIDE DEF out, outF
  <2>4. JoinedInStep(U, b, work, workF, out, outF)
    BY <2>3 DEF JoinedInStep
  <2> QED  BY <2>4 DEF out, outF
<1>3. CASE check /\ ~("Witness" \in {l.type, r.type})
  <2>1. /\ l.type = "Empty" <=> lF.type = "Empty"
        /\ r.type = "Empty" <=> rF.type = "Empty"
        /\ IsLeaf(l) <=> IsLeaf(lF)
        /\ IsLeaf(r) <=> IsLeaf(rF)
        /\ lF.type # "Witness" /\ rF.type # "Witness"
    BY <1>1, <1>3 DEF IsLeaf, IsBranch
  <2>2. CASE {l.type, r.type} = {"Empty"}
    <3>1. out = Return(work, BuiltEmpty, TRUE) /\ outF = Return(workF, BuiltEmpty, TRUE)
      BY <1>3, <2>1, <2>2 DEF Join, IsLeaf
    <3>2. SameBuilt(U, BuiltEmpty, BuiltEmpty)
      BY DEF SameBuilt, SameKind, InTable, BuiltEmpty, Built, Reuse, ParsedNode, EmptyNode, Empty
    <3> QED  BY <3>1, <3>2, MovedInStep
  <2>3. CASE IsLeaf(l) /\ r.type = "Empty"
    <3>1. out = Return(work, l, TRUE) /\ outF = Return(workF, lF, TRUE)
      BY <1>3, <2>1, <2>3 DEF Join, IsLeaf
    <3> QED  BY <3>1, MovedInStep
  <2>4. CASE l.type = "Empty" /\ IsLeaf(r)
    <3>1. out = Return(work, r, TRUE) /\ outF = Return(workF, rF, TRUE)
      BY <1>3, <2>1, <2>4 DEF Join, IsLeaf
    <3> QED  BY <3>1, MovedInStep
  <2>5. CASE ~({l.type, r.type} = {"Empty"}) /\ ~(IsLeaf(l) /\ r.type = "Empty") /\ ~(l.type = "Empty" /\ IsLeaf(r))
    <3>1. ~({lF.type, rF.type} = {"Empty"})
      BY <2>1, <2>5
    <3>2. out = WriteNew(work, BranchNode(l, r)) /\ outF = WriteNew(workF, BranchNode(lF, rF))
      BY <1>3, <2>1, <2>5, <3>1 DEF Join
    <3> QED  BY <3>2, BranchedInStep
  <2> QED  BY <2>2, <2>3, <2>4, <2>5
<1>4. CASE ~check
  <2>1. out = WriteNew(work, BranchNode(l, r)) /\ outF = WriteNew(workF, BranchNode(lF, rF))
    BY <1>4 DEF Join
  <2> QED  BY <2>1, BranchedInStep
<1> QED  BY <1>2, <1>3, <1>4

(* A leaf for an entry that both have.                                     *)
LEMMA LeafInStep ==
  ASSUME NEW T, Honest(T), NEW F, NEW work, Running(T, work), NEW workF, Idle(workF),
         SameUpdates(T, F, work.updates, workF.updates), NEW k \in KeySpace, NEW b, RoomAbove(work.used, b),
         work.updates[k] # NoEntry, work.updates[k].override = Empty => b < FirstInterior,
         NEW b2, b2 = IF work.updates[k].override = Empty THEN b + 1 ELSE b
  PROVE  JoinedInStep(T, b2, work, workF, LeafFor(T, work, k), LeafFor(F, workF, k))
<1> DEFINE p == work.updates[k]
           q == workF.updates[k]
           out == LeafFor(T, work, k)
           outF == LeafFor(F, workF, k)
<1>1. SameEntry(T, F, p, q) /\ q # NoEntry
  BY DEF SameUpdates, SameEntry
<1>2. /\ work \in Works /\ work.used \in SUBSET Nat /\ Bounded(work.used) /\ Empty \notin work.used
      /\ workF \in Works /\ workF.used \in SUBSET Nat /\ Bounded(workF.used) /\ q \in Update
      /\ b \in Nat
  BY <1>1 DEF Running, Idle, Works, RoomAbove
<1>3. CASE p.override = Empty
  <2> DEFINE node == LeafNode(k, p.val)
             id == LeafNext(work.used)
             idF == LeafNext(workF.used)
             U == With(T, out.written)
  <2>1. out = WriteNew(work, node) /\ outF = WriteNew(workF, node)
    BY <1>1, <1>3 DEF LeafFor, SameEntry
  <2>2. IsLeaf(node) /\ node.type = "Leaf"
    BY DEF LeafNode, EmptyNode, IsLeaf
  <2>3. id = NextId(work.used, IsLeaf(node)) /\ idF = NextId(workF.used, IsLeaf(node))
    BY <2>2, TwoCounters
  <2>4. /\ Writes(work, id, node, out) /\ ~out.thrown /\ ~out.bubble /\ IsOutcome(out)
        /\ Writes(workF, idF, node, outF) /\ ~outF.thrown /\ ~outF.bubble /\ IsOutcome(outF)
    BY <2>1, <2>3, WritesNext
  <2>5. id \in Nat /\ id # Empty /\ id < FirstInterior /\ id \notin work.used /\ RoomAbove(work.used \cup {id}, b2)
    BY <1>2, <1>3, NextLeafId
  <2>6. idF \in Nat
    <3>1. LeafIds(workF.used) \in SUBSET Nat /\ Bounded(LeafIds(workF.used))
      BY <1>2 DEF LeafIds, Bounded
    <3> QED  BY <3>1, MaxIsGreatest DEF LeafNext, Over
  <2> HIDE DEF id, idF, out, outF
  <2>7. Beside(T, U, work, id, node, out)
    BY <2>4, <2>5, WritingOne
  <2>8. DOMAIN U = DOMAIN T \cup {id}
    <3>1. DOMAIN With(T, out.written) = DOMAIN T \cup DOMAIN out.written
      BY TablesAdd
    <3> QED  BY <2>7, <3>1 DEF Beside
  <2> HIDE DEF U, node
  <2>9. Honest(U)
    <3>1. U[id] = LeafNode(k, p.val) /\ id \in DOMAIN U /\ Extends(U, T)
      BY <2>7 DEF Beside, node
    <3>2. HonestNode(U, id)
      BY <2>5, <3>1, LeavesAreHonest
    <3> QED  BY <2>5, <2>8, <3>1, <3>2, HonestWithOneMore
  <2>10. WroteHonestly(T, b2, work, out)
    BY <2>4, <2>5, <2>7, <2>9 DEF WroteHonestly, Beside, U
  <2>11. Idle(outF.work) /\ outF.work.updates = workF.updates /\ outF.built = Built(idF, node)
    <3>1. outF.work = [workF EXCEPT !.used = @ \cup {idF}] /\ outF.built = Built(idF, node)
      BY <2>4 DEF Writes
    <3>2. outF.work \in Works /\ outF.work.used = workF.used \cup {idF} /\ outF.work.updates = workF.updates
      BY <1>2, <2>6, <3>1 DEF Works
    <3>3. Bounded(workF.used \cup {idF})
      BY <1>2, <2>6, StillBounded
    <3> QED  BY <3>1, <3>2, <3>3 DEF Idle
  <2>12. SameBuilt(U, out.built, outF.built)
    <3>1. InTable(U, out.built)
      <4>1. out.built = Reuse(U, id) /\ id \in DOMAIN U
        BY <2>7 DEF Beside
      <4> QED  BY <4>1 DEF InTable, Reuse, Built
    <3>2. out.built = Built(id, node)
      BY <2>4 DEF Writes
    <3>3. SameKind(Built(id, node), Built(idF, node))
      BY <2>2 DEF SameKind, Built, IsLeaf
    <3> QED  BY <2>6, <2>11, <3>1, <3>2, <3>3 DEF SameBuilt, Built
  <2>13. out.work.updates = work.updates
    BY <2>7 DEF Beside
  <2>14. JoinedInStep(T, b2, work, workF, out, outF)
    BY <2>4, <2>10, <2>11, <2>12, <2>13 DEF JoinedInStep, U
  <2> QED  BY <2>14 DEF out, outF
<1>4. CASE p.override # Empty
  <2>1. SameLeaf(T, p.override, F, q.override) /\ q.override # Empty /\ q.override \in Nat
    BY <1>1, <1>2, <1>4 DEF SameEntry, Update
  <2>2. /\ p.override \in DOMAIN T /\ IsLeaf(T[p.override]) /\ T[p.override].key = F[q.override].key
        /\ T[p.override].hash = F[q.override].hash /\ F[q.override].type = "Leaf"
        /\ ParsedNode(T, p.override) = T[p.override] /\ ParsedNode(F, q.override) = F[q.override]
    BY <1>4, <2>1 DEF SameLeaf, StoredLeaf, ParsedNode
  <2>3. CASE T[p.override].key = k
    <3> DEFINE built == Reuse(T, p.override)
               builtF == Reuse(F, q.override)
    <3>1. out = Return(work, built, FALSE) /\ outF = Return(workF, builtF, FALSE)
      BY <1>4, <2>1, <2>2, <2>3 DEF LeafFor, IsLeaf
    <3>2. SameBuilt(T, built, builtF)
      BY <2>1, <2>2 DEF SameBuilt, InTable, Reuse, Built, SameKind, IsLeaf
    <3> HIDE DEF built, builtF
    <3> QED  BY <1>4, <3>1, <3>2, MovedInStep
  <2>4. CASE T[p.override].key # k
    <3>1. out = Throw(work)
      BY <1>4, <2>2, <2>4 DEF LeafFor
    <3>2. b <= b /\ b \in Nat /\ work \in Works /\ work.used = work.used
      BY <1>2
    <3> HIDE DEF out, outF
    <3>4. WroteHonestly(T, b, work, Throw(work)) /\ Throw(work).thrown /\ Throw(work).work = work
      BY <3>2, ThrownInStep
    <3>3. JoinedInStep(T, b2, work, workF, out, outF)
      BY <1>4, <3>1, <3>4 DEF JoinedInStep
    <3> QED  BY <3>3 DEF out, outF
  <2> QED  BY <2>3, <2>4
<1> QED  BY <1>3, <1>4

(* With more room, and for what is asked of a frame.                       *)
LEMMA JoinedIsMirrored ==
  ASSUME NEW T, NEW F, NEW I, NEW b, NEW Q, NEW work, NEW workF, SameUpdates(T, F, work.updates, workF.updates),
         NEW out, NEW outF, JoinedInStep(T, b + Cardinality(Fresh(Q)), work, workF, out, outF)
  PROVE  Mirrored(T, F, I, b, Q, work, out, outF)
BY DEF Mirrored, JoinedInStep, EndInStep

(* How much room an entry takes.                                           *)
LEMMA RoomForEntry ==
  ASSUME NEW b, NEW begin, NEW end, NEW work \in Works, HasRoom(work, b, begin, end),
         NEW k \in Window(work.updates, begin, end), ~work.updates[k].deletion,
         NEW b2, b2 = IF work.updates[k].override = Empty THEN b + 1 ELSE b
  PROVE  /\ k \in KeySpace /\ work.updates[k] # NoEntry /\ b \in Nat
         /\ work.updates[k].override = Empty => b < FirstInterior
         /\ b2 <= b + Cardinality(Fresh(Asks(work, begin, end)))
         /\ Cardinality(Fresh(Asks(work, begin, end))) \in Nat
<1> DEFINE Q == Asks(work, begin, end)
           N == Cardinality(Fresh(Q))
<1>1. k \in KeySpace /\ work.updates[k] # NoEntry
  BY DEF Window, Present
<1>2. N \in Nat /\ (Fresh(Q) # {} => N > 0)
  BY FreshAreCounted
<1>3. Q[k] = work.updates[k]
  BY <1>1, AsksOfWindow
<1>4. work.updates[k].override = Empty => Fresh(Q) # {}
  BY <1>1, <1>3 DEF Fresh
<1>5. b \in Nat /\ b + N <= FirstInterior
  BY DEF HasRoom, RoomAbove
<1> HIDE DEF N, Q
<1>6. work.updates[k].override = Empty => b < FirstInterior
  BY <1>2, <1>4, <1>5, FirstInteriorAssumption
<1>7. b2 <= b + N
  BY <1>2, <1>4, <1>5
<1> QED  BY <1>1, <1>2, <1>5, <1>6, <1>7 DEF N, Q

(* Room for some is room for more.                                         *)
LEMMA MoreRoom ==
  ASSUME NEW T, NEW b \in Nat, NEW b2 \in Nat, b <= b2, NEW work, NEW out, WroteHonestly(T, b, work, out)
  PROVE  WroteHonestly(T, b2, work, out)
<1>1. RoomAbove(out.work.used, b2)
  <2>1. out.work.used \in SUBSET Nat /\ RoomAbove(out.work.used, b)
    BY DEF WroteHonestly, Running, Works
  <2> QED  BY <2>1, FirstInteriorAssumption DEF RoomAbove
<1> QED  BY <1>1 DEF WroteHonestly

(* What is found in a table has an id.                                     *)
LEMMA IdsAreNumbers ==
  ASSUME NEW T, Honest(T), NEW built, InTable(T, built)
  PROVE  built.id \in Nat
BY DEF InTable, Honest, Empty

(* PutLeaf finds or writes a leaf in both trees.                           *)
LEMMA PutLeafInStep ==
  ASSUME NEW T, Honest(T), NEW F, NEW d, NEW I, NEW b, NEW begin, NEW end, NEW work, NEW workF,
         InStep(T, F, d, I, b, begin, end, work, workF),
         NEW k \in Window(work.updates, begin, end), ~work.updates[k].deletion
  PROVE  JoinedInStep(T, b + Cardinality(Fresh(Asks(work, begin, end))), work, workF,
                      PutLeaf(T, work, k), PutLeaf(F, workF, k))
<1> DEFINE leaf == LeafFor(T, work, k)
           leafF == LeafFor(F, workF, k)
           out == PutLeaf(T, work, k)
           outF == PutLeaf(F, workF, k)
           N == Cardinality(Fresh(Asks(work, begin, end)))
           b2 == IF work.updates[k].override = Empty THEN b + 1 ELSE b
           U == With(T, leaf.written)
<1>1. /\ Running(T, work) /\ work \in Works /\ Idle(workF) /\ SameUpdates(T, F, work.updates, workF.updates)
      /\ HasRoom(work, b, begin, end) /\ RoomAbove(work.used, b)
  BY DEF InStep, HasRoom, Running
<1>2. /\ k \in KeySpace /\ work.updates[k] # NoEntry /\ b \in Nat
      /\ work.updates[k].override = Empty => b < FirstInterior
      /\ b2 <= b + N /\ N \in Nat
  BY <1>1, RoomForEntry
<1>3. JoinedInStep(T, b2, work, workF, leaf, leafF)
  BY <1>1, <1>2, LeafInStep
<1>4. WroteHonestly(T, b + N, work, leaf)
  <2>1. b2 \in Nat /\ b + N \in Nat
    BY <1>2
  <2> HIDE DEF b2, leaf, N
  <2> QED  BY <1>2, <1>3, <2>1, MoreRoom DEF JoinedInStep
<1>5. CASE leaf.thrown
  <2>1. out = leaf
    BY <1>5 DEF PutLeaf
  <2> QED  BY <1>3, <1>4, <1>5, <2>1 DEF JoinedInStep
<1>6. CASE ~leaf.thrown
  <2>1. out = [leaf EXCEPT !.work = Report(leaf.work, k, leaf.built.id)]
    BY <1>6 DEF PutLeaf
  <2>2. outF = [leafF EXCEPT !.work = Report(leafF.work, k, leafF.built.id)]
    BY <1>3, <1>6 DEF PutLeaf, JoinedInStep
  <2>3. /\ IsOutcome(leafF) /\ ~leafF.thrown /\ (leaf.bubble <=> leafF.bubble) /\ Idle(leafF.work)
        /\ leafF.work.updates = workF.updates /\ leaf.work.updates = work.updates
        /\ SameBuilt(U, leaf.built, leafF.built)
    BY <1>3, <1>6 DEF JoinedInStep
  <2>4. IsOutcome(leaf) /\ Honest(U) /\ Running(U, leaf.work)
    BY <1>4 DEF WroteHonestly
  <2>5. leaf.built.id \in Nat /\ leafF.built.id \in Nat
    BY <2>3, <2>4, IdsAreNumbers DEF SameBuilt
  <2> HIDE DEF leaf, leafF, out, outF, N, b2
  <2>6. ReportedTo(leaf.work, k, leaf.built.id, Report(leaf.work, k, leaf.built.id))
    BY <1>2, <2>4, <2>5, Reported DEF Running
  <2>7. ReportedTo(leafF.work, k, leafF.built.id, Report(leafF.work, k, leafF.built.id))
    BY <1>2, <2>3, <2>5, Reported DEF Idle
  <2>8. /\ out.work \in Works /\ out.work.used = leaf.work.used /\ out.work.updates = work.updates
        /\ out.written = leaf.written /\ out.built = leaf.built /\ ~out.thrown /\ out.bubble = leaf.bubble
        /\ IsOutcome(out)
    BY <1>6, <2>1, <2>3, <2>4, <2>6 DEF ReportedTo, IsOutcome
  <2>9. /\ outF.work \in Works /\ outF.work.used = leafF.work.used /\ outF.work.updates = workF.updates
    <3>1. outF.work = Report(leafF.work, k, leafF.built.id)
      BY <2>2, <2>3 DEF IsOutcome
    <3> QED  BY <2>3, <2>7, <3>1 DEF ReportedTo
  <2>10. outF.built = leafF.built /\ ~outF.thrown /\ outF.bubble = leafF.bubble /\ IsOutcome(outF)
    BY <2>2, <2>3 DEF IsOutcome
  <2>11. WroteHonestly(T, b + N, work, out)
    BY <1>4, <2>8 DEF WroteHonestly, Running
  <2>12. JoinedInStep(T, b + N, work, workF, out, outF)
    BY <2>3, <2>8, <2>9, <2>10, <2>11 DEF JoinedInStep, Idle, U
  <2> QED  BY <2>12 DEF out, outF, N
<1> QED  BY <1>5, <1>6

(* What is returned without a node being written.                          *)
LEMMA ReturnMirrored ==
  ASSUME NEW T, Honest(T), NEW F, NEW I, NEW b, NEW Q, NEW work, Running(T, work), RoomAbove(work.used, b),
         NEW work2 \in Works, work2.used = work.used, NEW workF2, Idle(workF2),
         SameUpdates(T, F, work2.updates, workF2.updates),
         \A k \in KeySpace \ I : work2.updates[k] = work.updates[k],
         NEW built, NEW builtF, SameBuilt(T, built, builtF), NEW bubble
  PROVE  Mirrored(T, F, I, b, Q, work, Return(work2, built, bubble), Return(workF2, builtF, bubble))
<1> DEFINE out == Return(work2, built, bubble)
           outF == Return(workF2, builtF, bubble)
           N == Cardinality(Fresh(Q))
<1>1. /\ IsOutcome(out) /\ out.work = work2 /\ out.written = NoTable /\ ~out.thrown /\ ~outF.thrown
      /\ out.bubble = bubble /\ outF.bubble = bubble /\ outF.work = workF2
      /\ out.built = built /\ outF.built = builtF /\ IsOutcome(outF)
  BY DEF Return, IsOutcome
<1>2. b + N \in Nat /\ b <= b + N
  BY FreshAreCounted DEF RoomAbove
<1> HIDE DEF out, outF, N
<1>3. WroteHonestly(T, b + N, work, out) /\ InTable(With(T, out.written), built)
  <2>1. InTable(T, built)
    BY DEF SameBuilt
  <2> QED  BY <1>1, <1>2, <2>1, NothingIsHonest
<1>4. Mirrored(T, F, I, b, Q, work, out, outF)
  BY <1>1, <1>3 DEF Mirrored, EndInStep, SameBuilt, N
<1> QED  BY <1>4 DEF out, outF

(* A leaf, and the one it stands for.                                      *)
LeavesAlike(T, id, F, idF) ==
  /\ id \in DOMAIN T /\ id # Empty /\ idF # Empty /\ idF \in Nat
  /\ IsLeaf(T[id]) /\ StoredLeaf(F, idF) /\ T[id].hash = F[idF].hash
  /\ T[id].key = F[idF].key /\ T[id].val = F[idF].val /\ T[id].left = Empty /\ T[id].right = Empty

(* The one entry for its own key: a witness leaf is replaced even if the   *)
(* value stays.                                                            *)
LEMMA UpdateLeafInStep ==
  ASSUME NEW T, Honest(T), NEW F, NEW d, NEW I, NEW b, NEW begin, NEW end, NEW work, NEW workF,
         InStep(T, F, d, I, b, begin, end, work, workF), NEW id, NEW idF, LeavesAlike(T, id, F, idF),
         NEW k \in Window(work.updates, begin, end), k = T[id].key, work.updates[k].override = Empty
  PROVE  Mirrored(T, F, I, b, Asks(work, begin, end), work, UpdateLeaf(T, id, k, work), UpdateLeaf(F, idF, k, workF))
<1> DEFINE p == work.updates[k]
           q == workF.updates[k]
           out == UpdateLeaf(T, id, k, work)
           outF == UpdateLeaf(F, idF, k, workF)
           Q == Asks(work, begin, end)
           N == Cardinality(Fresh(Q))
<1>1. /\ Running(T, work) /\ work \in Works /\ Idle(workF) /\ SameUpdates(T, F, work.updates, workF.updates)
      /\ RoomAbove(work.used, b) /\ workF \in Works
  BY DEF InStep, HasRoom, Running, Idle
<1>2. k \in KeySpace /\ p # NoEntry /\ id \in Nat
  BY DEF Window, Present, LeavesAlike, Honest
<1>3. SameEntry(T, F, p, q) /\ q # NoEntry /\ (p.deletion <=> q.deletion) /\ p.val = q.val /\ q.override = Empty
  BY <1>1, <1>2 DEF SameUpdates, SameEntry
<1>4. /\ IsLeaf(T[id]) /\ F[idF].type = "Leaf" /\ T[id].val = F[idF].val
      /\ F[idF].hash = LeafHash(F[idF].key, F[idF].val) /\ F[idF].key = k
  BY DEF LeavesAlike, StoredLeaf
<1>5. SameBuilt(T, Reuse(T, id), Reuse(F, idF))
  BY DEF LeavesAlike, SameBuilt, InTable, Reuse, Built, ParsedNode, SameKind, IsLeaf, StoredLeaf
<1>6. CASE p.deletion
  <2>1. out = Return(Report(work, k, id), BuiltEmpty, TRUE) /\ outF = Return(Report(workF, k, idF), BuiltEmpty, TRUE)
    BY <1>3, <1>6 DEF UpdateLeaf
  <2>2. ReportedTo(work, k, id, Report(work, k, id)) /\ ReportedTo(workF, k, idF, Report(workF, k, idF))
    BY <1>1, <1>2, Reported DEF LeavesAlike
  <2>3. SameBuilt(T, BuiltEmpty, BuiltEmpty)
    BY DEF SameBuilt, SameKind, InTable, BuiltEmpty, Built, Reuse, ParsedNode, EmptyNode, Empty
  <2>4. /\ Report(work, k, id) \in Works /\ Report(work, k, id).used = work.used
        /\ Report(work, k, id).updates = work.updates /\ Report(workF, k, idF).updates = workF.updates
        /\ Idle(Report(workF, k, idF))
    BY <1>1, <2>2 DEF ReportedTo, Idle
  <2>5. Mirrored(T, F, I, b, Q, work, Return(Report(work, k, id), BuiltEmpty, TRUE),
                 Return(Report(workF, k, idF), BuiltEmpty, TRUE))
    BY <1>1, <2>3, <2>4, ReturnMirrored
  <2> QED  BY <2>1, <2>5
<1>7. CASE ~p.deletion /\ q.val # F[idF].val
  <2>1. out = PutLeaf(T, work, k) /\ outF = PutLeaf(F, workF, k)
    BY <1>3, <1>4, <1>7 DEF UpdateLeaf
  <2>2. JoinedInStep(T, b + N, work, workF, PutLeaf(T, work, k), PutLeaf(F, workF, k))
    BY <1>7, PutLeafInStep
  <2> QED  BY <1>1, <2>1, <2>2, JoinedIsMirrored
<1>8. CASE ~p.deletion /\ q.val = F[idF].val
  <2>1. outF = Return(workF, Reuse(F, idF), FALSE)
    BY <1>3, <1>4, <1>8 DEF UpdateLeaf
  <2>2. CASE T[id].type = "Leaf"
    <3>1. out = Return(work, Reuse(T, id), FALSE)
      BY <1>3, <1>4, <1>8, <2>2 DEF UpdateLeaf
    <3>2. Mirrored(T, F, I, b, Q, work, Return(work, Reuse(T, id), FALSE), Return(workF, Reuse(F, idF), FALSE))
      BY <1>1, <1>5, ReturnMirrored
    <3> QED  BY <2>1, <3>1, <3>2
  <2>3. CASE T[id].type # "Leaf"
    <3> DEFINE put == PutLeaf(F, workF, k)
    <3>1. out = PutLeaf(T, work, k)
      BY <1>3, <1>8, <2>3 DEF UpdateLeaf
    <3>2. JoinedInStep(T, b + N, work, workF, out, put)
      BY <1>8, <3>1, PutLeafInStep
    <3>3. ~put.bubble /\ put.built.hash = LeafHash(k, q.val) /\ put.built.type = "Leaf"
      BY <1>3 DEF PutLeaf, LeafFor, WriteNew, Built, LeafNode, EmptyNode
    <3>4. outF.built.hash = LeafHash(k, q.val) /\ outF.built.type = "Leaf" /\ outF.built.id \in Nat
      BY <1>4, <1>8, <2>1 DEF Return, Reuse, Built, ParsedNode, LeavesAlike
    <3>5. IsOutcome(outF) /\ ~outF.thrown /\ ~outF.bubble /\ outF.work = workF
      BY <2>1 DEF Return, IsOutcome
    <3> HIDE DEF put, out, outF, N, Q
    <3>6. ~out.thrown => SameBuilt(With(T, out.written), out.built, outF.built)
      BY <3>2, <3>3, <3>4 DEF JoinedInStep, SameBuilt, SameKind, IsBranch
    <3>7. JoinedInStep(T, b + N, work, workF, out, outF)
      BY <1>1, <3>2, <3>3, <3>5, <3>6 DEF JoinedInStep
    <3>8. Mirrored(T, F, I, b, Q, work, out, outF)
      BY <1>1, <3>7, JoinedIsMirrored DEF N
    <3> QED  BY <3>8 DEF Q, out, outF
  <2> QED  BY <2>2, <2>3
<1> QED  BY <1>6, <1>7, <1>8

(* The deletions of a window are erased in both.                           *)
LEMMA ErasedInStep ==
  ASSUME NEW T, NEW F, NEW d, NEW I, NEW b, NEW begin, NEW end, NEW work, NEW workF,
         InStep(T, F, d, I, b, begin, end, work, workF), begin # end,
         NEW rest, rest = EraseDeletions(work, begin, end), NEW restF, restF = EraseDeletions(workF, begin, end)
  PROVE  /\ InStep(T, F, d, I, b, rest.begin, end, rest.work, restF.work) /\ restF.begin = rest.begin
         /\ Erased(work, begin, end, rest)
         /\ Fresh(Asks(rest.work, rest.begin, end)) = Fresh(Asks(work, begin, end))
         /\ \A k \in KeySpace \ I : rest.work.updates[k] = work.updates[k]
<1>1. /\ Running(T, work) /\ work \in Works /\ Idle(workF) /\ SameUpdates(T, F, work.updates, workF.updates)
      /\ workF \in Works /\ HasRoom(work, b, begin, end) /\ Iterators(work.updates, begin, end)
      /\ Window(work.updates, begin, end) \subseteq I
  BY DEF InStep, Running, Idle, InPlace
<1>2. /\ Present(work.updates) = Present(workF.updates)
      /\ Window(work.updates, begin, end) = Window(workF.updates, begin, end)
  BY <1>1, SameWindows
<1>3. Erased(work, begin, end, rest)
  BY <1>1, DeletionsErased
<1>4. Erased(workF, begin, end, restF)
  <2>1. Iterators(workF.updates, begin, end)
    BY <1>1, <1>2 DEF Iterators
  <2> QED  BY <1>1, <2>1, DeletionsErased
<1> DEFINE doomed == {k \in Window(work.updates, begin, end) : work.updates[k].deletion}
           doomedF == {k \in Window(workF.updates, begin, end) : workF.updates[k].deletion}
<1>5. doomed = doomedF
  <2>1. \A k \in Window(work.updates, begin, end) : work.updates[k].deletion <=> workF.updates[k].deletion
    BY <1>1 DEF SameUpdates, SameEntry, Window, Present
  <2> QED  BY <1>2, <2>1
<1>6. /\ \A k \in KeySpace : rest.work.updates[k] = IF k \in doomed \ {begin} THEN NoEntry ELSE work.updates[k]
      /\ \A k \in KeySpace : restF.work.updates[k] = IF k \in doomedF \ {begin} THEN NoEntry ELSE workF.updates[k]
      /\ rest.begin = IF begin \in doomed THEN After(rest.work.updates, begin) ELSE begin
      /\ restF.begin = IF begin \in doomedF THEN After(restF.work.updates, begin) ELSE begin
  BY <1>1 DEF EraseDeletions, Works
<1>7. doomed \subseteq I
  BY <1>1
<1> HIDE DEF doomed, doomedF
<1>8. SameUpdates(T, F, rest.work.updates, restF.work.updates)
  <2>1. SameEntry(T, F, NoEntry, NoEntry)
    BY DEF SameEntry
  <2> QED  BY <1>1, <1>5, <1>6, <2>1 DEF SameUpdates
<1>9. restF.begin = rest.begin
  BY <1>5, <1>6, <1>8, SameWindows
<1>10. \A k \in KeySpace \ I : rest.work.updates[k] = work.updates[k]
  BY <1>6, <1>7
<1>11. Fresh(Asks(rest.work, rest.begin, end)) = Fresh(Asks(work, begin, end))
  <2> DEFINE W == Window(work.updates, begin, end)
             W2 == Window(rest.work.updates, rest.begin, end)
  <2>1. \A k \in KeySpace : k \in W2 <=> k \in W /\ ~work.updates[k].deletion
    BY <1>3 DEF Erased
  <2>2. \A k \in W2 : rest.work.updates[k] = work.updates[k]
    BY <1>3, WindowsHaveKeys DEF Erased
  <2>3. \A k \in KeySpace : /\ Asks(work, begin, end)[k] = IF k \in W THEN work.updates[k] ELSE NoEntry
                            /\ Asks(rest.work, rest.begin, end)[k] = IF k \in W2 THEN rest.work.updates[k] ELSE NoEntry
    BY DEF Asks
  <2>4. NoEntry.override # Empty
    BY DEF NoEntry, Empty
  <2> HIDE DEF W, W2
  <2> QED  BY <2>1, <2>2, <2>3, <2>4 DEF Fresh
<1>12. Running(T, rest.work) /\ RoomAbove(rest.work.used, b) /\ Idle(restF.work)
  BY <1>1, <1>3, <1>4 DEF Running, Erased, HasRoom, Idle
<1>13. InPlace(d, I, rest.begin, end, rest.work)
  <2>1. Window(rest.work.updates, rest.begin, end) \subseteq I
    BY <1>1, <1>3, WindowsHaveKeys DEF Erased
  <2> QED  BY <1>3, <2>1 DEF InPlace, InStep, Erased
<1>14. HasRoom(rest.work, b, rest.begin, end)
  BY <1>1, <1>11, <1>12 DEF HasRoom
<1> QED  BY <1>3, <1>8, <1>9, <1>10, <1>11, <1>12, <1>13, <1>14 DEF InStep

---------------------------------------------------------------------------
(* What is written in turn                                                 *)

(* Two calls, the second one with the work that the first one left.        *)
LEMMA WroteInTurn ==
  ASSUME NEW T, Honest(T), NEW work, Running(T, work), NEW b1, NEW b2, NEW first, WroteHonestly(T, b1, work, first),
         NEW second, WroteHonestly(T, b2, first.work, second)
  PROVE  /\ WroteHonestly(T, b2, work, Then(first, second))
         /\ Extends(With(T, Then(first, second).written), With(T, first.written))
         /\ Extends(With(T, Then(first, second).written), With(T, second.written))
<1> DEFINE both == Then(first, second)
           V == first.written
           W == second.written
           U == With(T, With(V, W))
<1>1. both.written = With(V, W) /\ both.work = second.work /\ IsOutcome(both)
  BY DEF Then, IsOutcome, WroteHonestly
<1>2. /\ Running(With(T, V), first.work) /\ Running(With(T, W), second.work)
      /\ first.work.used = work.used \cup DOMAIN V /\ work.used \cap DOMAIN V = {}
      /\ second.work.used = first.work.used \cup DOMAIN W /\ first.work.used \cap DOMAIN W = {}
      /\ Honest(With(T, V)) /\ Honest(With(T, W)) /\ RoomAbove(second.work.used, b2)
  BY DEF WroteHonestly
<1> HIDE DEF both, V, W
<1>3. Extends(U, With(T, V)) /\ Extends(U, With(T, W))
  BY <1>2, BothExtend
<1>4. /\ DOMAIN With(V, W) = DOMAIN V \cup DOMAIN W
      /\ DOMAIN U = DOMAIN T \cup DOMAIN With(V, W)
      /\ DOMAIN With(T, V) = DOMAIN T \cup DOMAIN V /\ DOMAIN With(T, W) = DOMAIN T \cup DOMAIN W
  BY TablesAdd
<1> HIDE DEF U
<1>5. DOMAIN U = DOMAIN With(T, V) \cup DOMAIN With(T, W) /\ DOMAIN U \subseteq second.work.used
  BY <1>2, <1>4 DEF Running
<1>6. DOMAIN U \in SUBSET Nat /\ Bounded(DOMAIN U)
  BY <1>2, <1>5 DEF Running, Works, Bounded
<1>7. Honest(U)
  BY <1>2, <1>3, <1>5, <1>6, HonestTogether
<1>8. Running(U, second.work)
  BY <1>2, <1>5 DEF Running
<1>9. second.work.used = work.used \cup DOMAIN With(V, W) /\ work.used \cap DOMAIN With(V, W) = {}
  BY <1>2, <1>4
<1>10. With(T, both.written) = U
  BY <1>1 DEF U
<1>11. WroteHonestly(T, b2, work, both)
  BY <1>1, <1>2, <1>7, <1>8, <1>9, <1>10 DEF WroteHonestly
<1>12. Extends(With(T, both.written), With(T, V)) /\ Extends(With(T, both.written), With(T, W))
  BY <1>3, <1>10
<1> QED  BY <1>11, <1>12 DEF both, V, W

(* A node on top of what was written before.                               *)
LEMMA WroteOnTop ==
  ASSUME NEW T, NEW work, NEW b1, NEW b2, NEW before, WroteHonestly(T, b1, work, before),
         NEW U, U = With(T, before.written), NEW top, WroteHonestly(U, b2, before.work, top)
  PROVE  /\ WroteHonestly(T, b2, work, Then(before, top))
         /\ With(T, Then(before, top).written) = With(U, top.written)
<1> DEFINE both == Then(before, top)
           V == before.written
           W == top.written
<1>1. both.written = With(V, W) /\ both.work = top.work /\ IsOutcome(both)
  BY DEF Then, IsOutcome, WroteHonestly
<1>2. /\ before.work.used = work.used \cup DOMAIN V /\ work.used \cap DOMAIN V = {}
      /\ top.work.used = before.work.used \cup DOMAIN W /\ before.work.used \cap DOMAIN W = {}
      /\ Honest(With(U, W)) /\ Running(With(U, W), top.work) /\ RoomAbove(top.work.used, b2)
  BY DEF WroteHonestly
<1>3. With(U, W) = With(T, With(V, W))
  BY TablesAssociate
<1>4. DOMAIN With(V, W) = DOMAIN V \cup DOMAIN W
  BY TablesAdd
<1> HIDE DEF both, V, W
<1>5. With(T, both.written) = With(U, W)
  BY <1>1, <1>3
<1>6. top.work.used = work.used \cup DOMAIN With(V, W) /\ work.used \cap DOMAIN With(V, W) = {}
  BY <1>2, <1>4
<1>7. WroteHonestly(T, b2, work, both)
  BY <1>1, <1>2, <1>5, <1>6 DEF WroteHonestly
<1> QED  BY <1>5, <1>7 DEF both, W

(* What has been built stays in the table.                                 *)
LEMMA BuiltStays ==
  ASSUME NEW U, Honest(U), NEW V, Honest(V), Extends(V, U), NEW built, NEW builtF, SameBuilt(U, built, builtF)
  PROVE  SameBuilt(V, built, builtF)
<1>1. InTable(U, built)
  BY DEF SameBuilt
<1>2. InTable(V, built)
  BY <1>1 DEF InTable, Extends, Reuse, ParsedNode, Honest
<1> QED  BY <1>2 DEF SameBuilt

---------------------------------------------------------------------------
(* Calls one level further down                                            *)

(* What is asked of two nodes; below one that is not empty no entry has    *)
(* been passed over, and none is there to be reused.                       *)
Unpassed(I, begin, work) ==
  \A k \in I : k \in Present(work.updates) => begin <= k /\ work.updates[k].override = Empty

Called(T, F, d, I, b, id, idF, begin, end, work, workF) ==
  /\ SubOK(F, idF, d) /\ Stands(T, id, F, idF)
  /\ \A x \in Leaves(F, idF) : F[x].key \in I
  /\ InStep(T, F, d, I, b, begin, end, work, workF)
  /\ idF # Empty => Unpassed(I, begin, work)

Mirrors(T, F, deeper, deeperF, d) ==
  \A I, b, id, idF, begin, end, work, workF :
    Called(T, F, d, I, b, id, idF, begin, end, work, workF) =>
      Mirrored(T, F, I, b, Asks(work, begin, end), work,
               deeper[PutCall(id, begin, end, work)], deeperF[PutCall(idF, begin, end, workF)])

BelowInStep(T, F, d, I, node, nodeF, begin, work) ==
  /\ SubOK(F, nodeF.left, d + 1) /\ SubOK(F, nodeF.right, d + 1)
  /\ Stands(T, node.left, F, nodeF.left) /\ Stands(T, node.right, F, nodeF.right)
  /\ \A x \in Leaves(F, nodeF.left) : F[x].key \in Half(I, d, 0)
  /\ \A x \in Leaves(F, nodeF.right) : F[x].key \in Half(I, d, 1)
  /\ nodeF.left # Empty \/ nodeF.right # Empty => Unpassed(I, begin, work)

(* The call for the left half.                                             *)
LEMMA LeftIsCalled ==
  ASSUME NEW T, NEW F, NEW d \in 0 .. Depth - 1, NEW I, NEW b, NEW begin, NEW end, NEW work, NEW workF,
         InStep(T, F, d, I, b, begin, end, work, workF), NEW m, DividesAt(I, d, work.updates, begin, end, m),
         NEW id, NEW idF, SubOK(F, idF, d + 1), Stands(T, id, F, idF), idF # Empty => Unpassed(I, begin, work),
         \A x \in Leaves(F, idF) : F[x].key \in Half(I, d, 0),
         b + Cardinality(Fresh(Asks(work, begin, m))) <= FirstInterior
  PROVE  Called(T, F, d + 1, Half(I, d, 0), b, id, idF, begin, m, work, workF)
<1>1. Region(I, d) /\ RoomAbove(work.used, b)
  BY DEF InStep, InPlace, HasRoom
<1>2. InPlace(d + 1, Half(I, d, 0), begin, m, work)
  BY <1>1, Halves DEF InPlace, DividesAt
<1>3. HasRoom(work, b, begin, m)
  BY <1>1 DEF HasRoom
<1>4. Half(I, d, 0) \subseteq I
  BY DEF Half
<1> QED  BY <1>2, <1>3, <1>4 DEF Called, InStep, Unpassed

(* The call for the right half, after the one for the left.                *)
LEMMA RightIsCalled ==
  ASSUME NEW T, NEW F, NEW d \in 0 .. Depth - 1, NEW I, NEW b, NEW begin, NEW end, NEW work, NEW workF,
         InStep(T, F, d, I, b, begin, end, work, workF), NEW m, DividesAt(I, d, work.updates, begin, end, m),
         NEW id, NEW idF, SubOK(F, idF, d + 1), Stands(T, id, F, idF), idF # Empty => Unpassed(I, begin, work),
         \A x \in Leaves(F, idF) : F[x].key \in Half(I, d, 1),
         NEW work2, Running(T, work2), NEW workF2, Idle(workF2), SameUpdates(T, F, work2.updates, workF2.updates),
         \A k \in KeySpace \ Half(I, d, 0) : work2.updates[k] = work.updates[k],
         NEW b2, RoomAbove(work2.used, b2), b2 + Cardinality(Fresh(Asks(work, m, end))) <= FirstInterior
  PROVE  /\ Called(T, F, d + 1, Half(I, d, 1), b2, id, idF, m, end, work2, workF2)
         /\ Asks(work2, m, end) = Asks(work, m, end)
<1>1. /\ Region(I, d) /\ (\A k \in I : k < end) /\ I \in SUBSET KeySpace /\ KeySpace \subseteq Nat
      /\ end \in Present(work.updates) \cup {MapEnd}
  BY KeysAreNumbers DEF InStep, InPlace, Region, Iterators
<1>2. /\ Region(Half(I, d, 1), d + 1) /\ I = Half(I, d, 0) \cup Half(I, d, 1)
      /\ Half(I, d, 0) \cap Half(I, d, 1) = {}
  BY <1>1, Halves
<1>3. /\ Iterators(work.updates, m, end)
      /\ Window(work.updates, m, end) = Window(work.updates, begin, end) \cap Half(I, d, 1)
      /\ \A k \in Half(I, d, 0) : k < m
      /\ \A k \in Half(I, d, 1) : k \in Present(work.updates) /\ begin <= k => m <= k
  BY DEF DividesAt
<1>4. Asks(work2, m, end) = Asks(work, m, end)
  BY RightAsks
<1>5. m \in Nat
  BY <1>3, EndOfMap DEF Iterators
<1>6. \A k \in KeySpace : k \notin Half(I, d, 0) => (k \in Present(work2.updates) <=> k \in Present(work.updates))
  BY DEF Present
<1>7. Window(work2.updates, m, end) = Window(work.updates, m, end)
  <2>1. \A k \in KeySpace : m <= k => k \notin Half(I, d, 0)
    BY <1>1, <1>3, <1>5
  <2>2. \A k \in KeySpace : m <= k => (k \in Present(work2.updates) <=> k \in Present(work.updates))
    BY <1>6, <2>1
  <2> QED  BY <2>2, WindowsHaveKeys DEF Window
<1>8. Iterators(work2.updates, m, end)
  <2>1. m # end => m \in Present(work2.updates)
    <3>1. m # end => m \in Present(work.updates)
      BY <1>3 DEF Iterators
    <3>2. m \notin Half(I, d, 0)
      BY <1>3, <1>5
    <3> QED  BY <1>6, <3>1, <3>2, WindowsHaveKeys
  <2>2. end \in Present(work2.updates) \cup {MapEnd}
    <3>1. end \notin I
      <4>1. end \in Nat
        BY <1>3, EndOfMap DEF Iterators
      <4> QED  BY <1>1, <4>1
    <3> QED  BY <1>1, <1>2, <1>6, <3>1, WindowsHaveKeys
  <2> QED  BY <1>3, <2>1, <2>2 DEF Iterators
<1>9. InPlace(d + 1, Half(I, d, 1), m, end, work2)
  BY <1>1, <1>2, <1>3, <1>7, <1>8 DEF InPlace
<1>10. HasRoom(work2, b2, m, end)
  BY <1>4 DEF HasRoom
<1>11. idF # Empty => Unpassed(Half(I, d, 1), m, work2)
  <2>1. SUFFICES ASSUME idF # Empty, NEW k \in Half(I, d, 1), k \in Present(work2.updates)
                 PROVE  m <= k /\ work2.updates[k].override = Empty
    BY DEF Unpassed
  <2>2. k \in I /\ k \in KeySpace /\ k \notin Half(I, d, 0)
    BY <1>1, <1>2, <2>1
  <2>3. k \in Present(work.updates) /\ work2.updates[k] = work.updates[k]
    BY <1>6, <2>1, <2>2
  <2>4. begin <= k /\ work.updates[k].override = Empty
    BY <2>1, <2>2, <2>3 DEF Unpassed
  <2> QED  BY <1>3, <2>1, <2>3, <2>4
<1>12. InStep(T, F, d + 1, Half(I, d, 1), b2, m, end, work2, workF2)
  BY <1>9, <1>10 DEF InStep
<1> QED  BY <1>4, <1>11, <1>12 DEF Called

(* The whole of putAux below a node.                                       *)
LEMMA PutBelowInStep ==
  ASSUME NEW T, Honest(T), NEW F, NEW d \in 0 .. Depth - 1, NEW I, NEW b, NEW begin, NEW end, NEW work, NEW workF,
         InStep(T, F, d, I, b, begin, end, work, workF), NEW deeper, NEW deeperF, Mirrors(T, F, deeper, deeperF, d + 1),
         NEW node, NEW nodeF, BelowInStep(T, F, d, I, node, nodeF, begin, work),
         NEW check, NEW checkF, check <=> checkF
  PROVE  Mirrored(T, F, I, b, Asks(work, begin, end), work,
                  PutBelow(Frame(T, d, deeper), node, begin, end, work, check),
                  PutBelow(Frame(F, d, deeperF), nodeF, begin, end, workF, checkF))
<1> DEFINE L      == Half(I, d, 0)
           R      == Half(I, d, 1)
           m      == Middle(work.updates, begin, end, d)
           Q      == Asks(work, begin, end)
           QL     == Asks(work, begin, m)
           QR     == Asks(work, m, end)
           left   == deeper[PutCall(node.left, begin, m, work)]
           right  == deeper[PutCall(node.right, m, end, left.work)]
           leftF  == deeperF[PutCall(nodeF.left, begin, m, workF)]
           rightF == deeperF[PutCall(nodeF.right, m, end, leftF.work)]
           joined == Join(right.work, left.built, right.built, check \/ left.bubble \/ right.bubble)
           joinedF == Join(rightF.work, leftF.built, rightF.built, checkF \/ leftF.bubble \/ rightF.bubble)
           out    == PutBelow(Frame(T, d, deeper), node, begin, end, work, check)
           outF   == PutBelow(Frame(F, d, deeperF), nodeF, begin, end, workF, checkF)
           c      == b + Cardinality(Fresh(QL))
           e      == b + Cardinality(Fresh(Q))
<1> SUFFICES Mirrored(T, F, I, b, Q, work, out, outF)
  OBVIOUS
<1>1. /\ Region(I, d) /\ (\A k \in I : k < end)
      /\ Iterators(work.updates, begin, end) /\ Window(work.updates, begin, end) \subseteq I
      /\ Running(T, work) /\ Idle(workF) /\ SameUpdates(T, F, work.updates, workF.updates)
      /\ RoomAbove(work.used, b) /\ b + Cardinality(Fresh(Q)) <= FirstInterior
  BY DEF InStep, InPlace, HasRoom
<1>2. DividesAt(I, d, work.updates, begin, end, m)
  <2> HIDE DEF m
  <2>1. DividesAt(I, d, work.updates, begin, end, Middle(work.updates, begin, end, d))
    BY <1>1, MiddleDivides
  <2> QED  BY <2>1 DEF m
<1>3. out = IF left.thrown THEN left
            ELSE IF right.thrown THEN Then(left, right)
            ELSE Then(left, Then(right, joined))
  BY DEF PutBelow, Frame, Middle
<1>4. outF = IF leftF.thrown THEN leftF
             ELSE IF rightF.thrown THEN Then(leftF, rightF)
             ELSE Then(leftF, Then(rightF, joinedF))
  <2>1. Middle(workF.updates, begin, end, d) = m
    BY <1>1, SameWindows
  <2> QED  BY <2>1 DEF PutBelow, Frame, Middle
<1> HIDE DEF m, out, outF
<1>5. Divided(Q, L, QL, R, QR)
  BY <1>1, <1>2, WindowDivided
<1>6. /\ SubOK(F, nodeF.left, d + 1) /\ SubOK(F, nodeF.right, d + 1)
      /\ Stands(T, node.left, F, nodeF.left) /\ Stands(T, node.right, F, nodeF.right)
      /\ \A x \in Leaves(F, nodeF.left) : F[x].key \in L
      /\ \A x \in Leaves(F, nodeF.right) : F[x].key \in R
      /\ nodeF.left # Empty => Unpassed(I, begin, work)
      /\ nodeF.right # Empty => Unpassed(I, begin, work)
  BY DEF BelowInStep
<1>7. /\ b \in Nat /\ Cardinality(Fresh(QL)) \in Nat /\ Cardinality(Fresh(QR)) \in Nat
      /\ Cardinality(Fresh(Q)) = Cardinality(Fresh(QL)) + Cardinality(Fresh(QR))
      /\ FirstInterior \in Nat
  BY <1>1, <1>5, FreshDivided, FreshAreCounted, FirstInteriorAssumption DEF RoomAbove
<1>8. /\ c <= FirstInterior /\ c + Cardinality(Fresh(QR)) <= FirstInterior /\ c \in Nat
      /\ e = c + Cardinality(Fresh(QR)) /\ e \in Nat /\ c <= e
  <2> DEFINE n == Cardinality(Fresh(QL))
             r == Cardinality(Fresh(QR))
             q == Cardinality(Fresh(Q))
  <2>1. n \in Nat /\ r \in Nat /\ q = n + r /\ b + q <= FirstInterior
    BY <1>1, <1>7
  <2> HIDE DEF n, r, q
  <2> QED  BY <1>7, <2>1 DEF n, r, q
<1>9. L \subseteq I /\ R \subseteq I /\ I \subseteq KeySpace
  BY <1>1 DEF Half, Region
<1>10. Mirrored(T, F, L, b, QL, work, left, leftF)
  <2>1. Called(T, F, d + 1, L, b, node.left, nodeF.left, begin, m, work, workF)
    BY <1>2, <1>6, <1>8, LeftIsCalled
  <2> HIDE DEF L
  <2> QED  BY <2>1 DEF Mirrors
<1> HIDE DEF c, left, leftF
<1>11. WroteHonestly(T, c, work, left)
  BY <1>10 DEF Mirrored, c
<1>12. CASE left.thrown
  <2>1. WroteHonestly(T, e, work, left)
    BY <1>8, <1>11, MoreRoom
  <2>2. out = left
    BY <1>3, <1>12
  <2> HIDE DEF Q
  <2> QED  BY <1>12, <2>1, <2>2 DEF Mirrored
<1>13. CASE ~left.thrown
  <2>1. EndInStep(T, F, L, work, left, leftF)
    BY <1>10, <1>13 DEF Mirrored
  <2>2. /\ ~leftF.thrown /\ (left.bubble <=> leftF.bubble) /\ Idle(leftF.work)
        /\ SameUpdates(T, F, left.work.updates, leftF.work.updates)
        /\ \A k \in KeySpace \ L : left.work.updates[k] = work.updates[k]
        /\ SameBuilt(With(T, left.written), left.built, leftF.built)
    BY <2>1 DEF EndInStep
  <2>3. Running(T, left.work) /\ RoomAbove(left.work.used, c) /\ Honest(With(T, left.written))
    <3>1. /\ Honest(With(T, left.written)) /\ Running(With(T, left.written), left.work)
          /\ RoomAbove(left.work.used, c)
      BY <1>11 DEF WroteHonestly
    <3>2. DOMAIN T \subseteq DOMAIN With(T, left.written)
      BY DEF With
    <3> QED  BY <3>1, <3>2 DEF Running
  <2>4. /\ Called(T, F, d + 1, R, c, node.right, nodeF.right, m, end, left.work, leftF.work)
        /\ Asks(left.work, m, end) = QR
    <3> DEFINE work2  == left.work
               workF2 == leftF.work
    <3>1. /\ Running(T, work2) /\ Idle(workF2) /\ SameUpdates(T, F, work2.updates, workF2.updates)
          /\ \A k \in KeySpace \ Half(I, d, 0) : work2.updates[k] = work.updates[k]
          /\ RoomAbove(work2.used, c)
      BY <2>2, <2>3
    <3> HIDE DEF work2, workF2, L, R, Q, QL, QR, e, right, rightF, joined, joinedF
    <3>3. /\ \A x \in Leaves(F, nodeF.right) : F[x].key \in Half(I, d, 1)
          /\ c + Cardinality(Fresh(Asks(work, m, end))) <= FirstInterior
      BY <1>6, <1>8 DEF R, QR
    <3>4. /\ SubOK(F, nodeF.right, d + 1) /\ Stands(T, node.right, F, nodeF.right)
          /\ nodeF.right # Empty => Unpassed(I, begin, work)
      BY <1>6
    <3>2. Called(T, F, d + 1, Half(I, d, 1), c, node.right, nodeF.right, m, end, work2, workF2)
      BY <1>2, <3>1, <3>3, <3>4, RightIsCalled
    <3>5. Asks(work2, m, end) = Asks(work, m, end)
      BY <1>2, <3>1, RightAsks
    <3> QED  BY <3>2, <3>5 DEF work2, workF2, R, QR
  <2>5. Mirrored(T, F, R, c, QR, left.work, right, rightF)
    <3> HIDE DEF R, QR
    <3>1. Mirrored(T, F, R, c, Asks(left.work, m, end), left.work, right, rightF)
      BY <2>4 DEF Mirrors
    <3> QED  BY <2>4, <3>1
  <2> HIDE DEF right, rightF
  <2>6. WroteHonestly(T, e, left.work, right)
    BY <1>8, <2>5 DEF Mirrored
  <2> DEFINE both == Then(left, right)
             V    == With(T, both.written)
  <2>7. /\ WroteHonestly(T, e, work, both)
        /\ Extends(V, With(T, left.written)) /\ Extends(V, With(T, right.written))
    BY <1>1, <1>11, <2>6, WroteInTurn
  <2>8. CASE right.thrown
    <3>1. out = both
      BY <1>3, <1>13, <2>8
    <3>2. both.thrown
      BY <2>6, <2>8 DEF Then, WroteHonestly, IsOutcome
    <3> HIDE DEF both, Q
    <3> QED  BY <2>7, <3>1, <3>2 DEF Mirrored
  <2>9. CASE ~right.thrown
    <3>1. EndInStep(T, F, R, left.work, right, rightF)
      BY <2>5, <2>9 DEF Mirrored
    <3>2. /\ ~rightF.thrown /\ (right.bubble <=> rightF.bubble) /\ Idle(rightF.work) /\ IsOutcome(rightF)
          /\ SameUpdates(T, F, right.work.updates, rightF.work.updates)
          /\ \A k \in KeySpace \ R : right.work.updates[k] = left.work.updates[k]
          /\ SameBuilt(With(T, right.written), right.built, rightF.built)
      BY <3>1 DEF EndInStep
    <3>3. both.work = right.work
      BY <2>6 DEF Then, WroteHonestly, IsOutcome
    <3>4. Honest(V) /\ Running(V, right.work) /\ RoomAbove(right.work.used, e)
      BY <2>7, <3>3 DEF WroteHonestly
    <3>5. Honest(With(T, right.written))
      BY <2>6 DEF WroteHonestly
    <3> HIDE DEF both, V
    <3>6. SameBuilt(V, left.built, leftF.built) /\ SameBuilt(V, right.built, rightF.built)
      BY <2>2, <2>3, <2>7, <3>2, <3>4, <3>5, BuiltStays
    <3>7. JoinedInStep(V, e, right.work, rightF.work, joined, joinedF)
      <4>1. check \/ left.bubble \/ right.bubble <=> checkF \/ leftF.bubble \/ rightF.bubble
        BY <2>2, <3>2
      <4> QED  BY <3>2, <3>4, <3>6, <4>1, JoinInStep
    <3> HIDE DEF joined, joinedF
    <3>8. WroteHonestly(V, e, right.work, joined)
      BY <3>7 DEF JoinedInStep
    <3>9. /\ WroteHonestly(T, e, work, Then(both, joined))
          /\ With(T, Then(both, joined).written) = With(V, joined.written)
      BY <2>7, <3>3, <3>8, WroteOnTop DEF V
    <3>10. out = Then(both, joined)
      <4>1. Then(left, Then(right, joined)) = Then(both, joined)
        BY <2>6, <3>8, ThenAssociates DEF WroteHonestly, both
      <4> QED  BY <1>3, <1>13, <2>9, <4>1
    <3>11. outF = Then(leftF, Then(rightF, joinedF))
      BY <1>4, <2>2, <3>2
    <3>12. ASSUME ~out.thrown
           PROVE  EndInStep(T, F, I, work, out, outF)
      <4>1. /\ out.thrown = joined.thrown /\ out.work = joined.work /\ out.built = joined.built
            /\ out.bubble = joined.bubble
        BY <3>8, <3>10 DEF Then, WroteHonestly, IsOutcome
      <4>2. /\ IsOutcome(joinedF) /\ ~joinedF.thrown /\ (joined.bubble <=> joinedF.bubble)
            /\ Idle(joinedF.work) /\ joinedF.work.updates = rightF.work.updates
            /\ SameBuilt(With(V, joined.written), joined.built, joinedF.built)
            /\ joined.work.updates = right.work.updates
        BY <3>7, <3>12, <4>1 DEF JoinedInStep
      <4>3. /\ IsOutcome(outF) /\ outF.thrown = joinedF.thrown /\ outF.work = joinedF.work
            /\ outF.built = joinedF.built /\ outF.bubble = joinedF.bubble
        BY <3>11, <4>2 DEF Then, IsOutcome
      <4>4. SameBuilt(With(T, out.written), out.built, outF.built)
        BY <3>9, <3>10, <4>1, <4>2, <4>3
      <4>5. \A k \in KeySpace \ I : out.work.updates[k] = work.updates[k]
        BY <1>9, <2>2, <3>2, <4>1, <4>2
      <4>6. SameUpdates(T, F, out.work.updates, outF.work.updates)
        BY <3>2, <4>1, <4>2, <4>3
      <4>7. ~outF.thrown /\ (out.bubble <=> outF.bubble) /\ Idle(outF.work)
        BY <4>1, <4>2, <4>3
      <4> QED  BY <4>3, <4>4, <4>5, <4>6, <4>7 DEF EndInStep
    <3> HIDE DEF Q
    <3> QED  BY <3>9, <3>10, <3>12 DEF Mirrored
  <2> QED  BY <2>8, <2>9
<1> QED  BY <1>12, <1>13

(* What has been done for the rest of the entries has been done for all.   *)
LEMMA MirroredAsAsked ==
  ASSUME NEW T, NEW F, NEW I, NEW b, NEW Q, NEW Q2, Fresh(Q2) = Fresh(Q), NEW work, NEW work2, work2.used = work.used,
         \A k \in KeySpace \ I : work2.updates[k] = work.updates[k],
         NEW out, NEW outF, Mirrored(T, F, I, b, Q2, work2, out, outF)
  PROVE  Mirrored(T, F, I, b, Q, work, out, outF)
<1>1. WroteHonestly(T, b + Cardinality(Fresh(Q)), work, out)
  BY DEF Mirrored, WroteHonestly
<1>2. ASSUME ~out.thrown
      PROVE  EndInStep(T, F, I, work, out, outF)
  <2>1. EndInStep(T, F, I, work2, out, outF)
    BY <1>2 DEF Mirrored
  <2> QED  BY <2>1 DEF EndInStep
<1> QED  BY <1>1, <1>2 DEF Mirrored

(* The empty node stands for the empty node.                               *)
LEMMA EmptyInStep ==
  ASSUME NEW T, NEW F, NEW d \in 0 .. Depth
  PROVE  /\ Stands(T, Empty, F, Empty) /\ SameBuilt(T, BuiltEmpty, BuiltEmpty)
         /\ \A I, begin, work : BelowInStep(T, F, d, I, EmptyNode, EmptyNode, begin, work)
<1>1. Stands(T, Empty, F, Empty)
  BY DEF Stands, ParsedNode
<1>2. SameBuilt(T, BuiltEmpty, BuiltEmpty)
  BY DEF SameBuilt, InTable, Reuse, ParsedNode, BuiltEmpty, Built, EmptyNode, SameKind, Empty
<1>3. SubOK(F, Empty, d + 1) /\ Leaves(F, Empty) = {}
  BY EmptyIsATree
<1> QED  BY <1>1, <1>2, <1>3 DEF BelowInStep, EmptyNode

(* What is left of the window goes into an empty node.                     *)
LEMMA RestIntoEmptyInStep ==
  ASSUME NEW T, Honest(T), NEW F, NEW d \in 0 .. Depth, NEW I, NEW b, NEW begin, NEW end, NEW work, NEW workF,
         InStep(T, F, d, I, b, begin, end, work, workF), begin # end,
         \A k \in Window(work.updates, begin, end) : ~work.updates[k].deletion,
         NEW deeper, NEW deeperF, d < Depth => Mirrors(T, F, deeper, deeperF, d + 1)
  PROVE  /\ After(work.updates, begin) = end =>
              Mirrored(T, F, I, b, Asks(work, begin, end), work, PutLeaf(T, work, begin), PutLeaf(F, workF, begin))
         /\ After(work.updates, begin) # end =>
              Mirrored(T, F, I, b, Asks(work, begin, end), work,
                       PutBelow(Frame(T, d, deeper), EmptyNode, begin, end, work, FALSE),
                       PutBelow(Frame(F, d, deeperF), EmptyNode, begin, end, workF, FALSE))
<1>1. /\ Region(I, d) /\ Iterators(work.updates, begin, end) /\ Window(work.updates, begin, end) \subseteq I
      /\ SameUpdates(T, F, work.updates, workF.updates)
  BY DEF InStep, InPlace
<1>2. /\ begin \in Window(work.updates, begin, end)
      /\ After(work.updates, begin) # end => \E k \in Window(work.updates, begin, end) : k # begin
  BY <1>1, OneInWindow
<1>3. Mirrored(T, F, I, b, Asks(work, begin, end), work, PutLeaf(T, work, begin), PutLeaf(F, workF, begin))
  <2>1. JoinedInStep(T, b + Cardinality(Fresh(Asks(work, begin, end))), work, workF,
                     PutLeaf(T, work, begin), PutLeaf(F, workF, begin))
    BY <1>2, PutLeafInStep
  <2> DEFINE Q == Asks(work, begin, end)
             out == PutLeaf(T, work, begin)
             outF == PutLeaf(F, workF, begin)
  <2> HIDE DEF Q, out, outF
  <2>2. Mirrored(T, F, I, b, Q, work, out, outF)
    BY <1>1, <2>1, JoinedIsMirrored DEF Q, out, outF
  <2> QED  BY <2>2 DEF Q, out, outF
<1>4. ASSUME After(work.updates, begin) # end
      PROVE  Mirrored(T, F, I, b, Asks(work, begin, end), work,
                      PutBelow(Frame(T, d, deeper), EmptyNode, begin, end, work, FALSE),
                      PutBelow(Frame(F, d, deeperF), EmptyNode, begin, end, workF, FALSE))
  <2>1. PICK k \in Window(work.updates, begin, end) : k # begin
    BY <1>2, <1>4
  <2>2. d \in 0 .. Depth - 1
    BY <1>1, <1>2, <2>1, RoomBelow
  <2>3. Mirrors(T, F, deeper, deeperF, d + 1)
    BY <2>2, DepthAssumption
  <2>4. BelowInStep(T, F, d, I, EmptyNode, EmptyNode, begin, work)
    BY EmptyInStep
  <2> QED  BY <2>2, <2>3, <2>4, PutBelowInStep
<1> QED  BY <1>3, <1>4

(* Updates of an empty node.                                               *)
LEMMA PutIntoEmptyInStep ==
  ASSUME NEW T, Honest(T), NEW F, NEW d \in 0 .. Depth, NEW I, NEW b, NEW begin, NEW end, NEW work, NEW workF,
         InStep(T, F, d, I, b, begin, end, work, workF), begin # end,
         NEW deeper, NEW deeperF, d < Depth => Mirrors(T, F, deeper, deeperF, d + 1)
  PROVE  Mirrored(T, F, I, b, Asks(work, begin, end), work,
                  PutIntoEmpty(Frame(T, d, deeper), begin, end, work),
                  PutIntoEmpty(Frame(F, d, deeperF), begin, end, workF))
<1> DEFINE rest  == EraseDeletions(work, begin, end)
           restF == EraseDeletions(workF, begin, end)
           Q     == Asks(work, begin, end)
           Q2    == Asks(rest.work, rest.begin, end)
           out   == PutIntoEmpty(Frame(T, d, deeper), begin, end, work)
           outF  == PutIntoEmpty(Frame(F, d, deeperF), begin, end, workF)
<1> SUFFICES Mirrored(T, F, I, b, Q, work, out, outF)
  OBVIOUS
<1>1. out = CASE rest.begin = end -> Return(rest.work, BuiltEmpty, FALSE)
    [] rest.begin # end /\ After(rest.work.updates, rest.begin) = end -> PutLeaf(T, rest.work, rest.begin)
    [] OTHER -> PutBelow(Frame(T, d, deeper), EmptyNode, rest.begin, end, rest.work, FALSE)
  BY DEF PutIntoEmpty, Frame
<1>2. outF = CASE restF.begin = end -> Return(restF.work, BuiltEmpty, FALSE)
    [] restF.begin # end /\ After(restF.work.updates, restF.begin) = end -> PutLeaf(F, restF.work, restF.begin)
    [] OTHER -> PutBelow(Frame(F, d, deeperF), EmptyNode, restF.begin, end, restF.work, FALSE)
  BY DEF PutIntoEmpty, Frame
<1> HIDE DEF out, outF
<1>3. /\ InStep(T, F, d, I, b, rest.begin, end, rest.work, restF.work) /\ restF.begin = rest.begin
      /\ Erased(work, begin, end, rest) /\ Fresh(Q2) = Fresh(Q)
      /\ \A k \in KeySpace \ I : rest.work.updates[k] = work.updates[k]
  BY ErasedInStep
<1> HIDE DEF rest, restF, Q
<1>4. /\ rest.work.used = work.used
      /\ \A k \in KeySpace : k \in Window(rest.work.updates, rest.begin, end) => ~rest.work.updates[k].deletion
  BY <1>3 DEF Erased
<1>5. /\ Running(T, rest.work) /\ Idle(restF.work) /\ SameUpdates(T, F, rest.work.updates, restF.work.updates)
      /\ RoomAbove(rest.work.used, b) /\ rest.work \in Works
  BY <1>3 DEF InStep, HasRoom, Running
<1>6. After(restF.work.updates, rest.begin) = After(rest.work.updates, rest.begin)
  BY <1>5, SameWindows
<1>7. Mirrored(T, F, I, b, Q2, rest.work, out, outF)
  <2>1. CASE rest.begin = end
    <3>1. SameBuilt(T, BuiltEmpty, BuiltEmpty)
      BY EmptyInStep
    <3>2. out = Return(rest.work, BuiltEmpty, FALSE) /\ outF = Return(restF.work, BuiltEmpty, FALSE)
      BY <1>1, <1>2, <1>3, <2>1
    <3> DEFINE work2  == rest.work
               workF2 == restF.work
    <3> HIDE DEF Q2, work2, workF2
    <3>3. Mirrored(T, F, I, b, Q2, work2, Return(work2, BuiltEmpty, FALSE), Return(workF2, BuiltEmpty, FALSE))
      BY <1>5, <3>1, ReturnMirrored DEF work2, workF2
    <3> QED  BY <3>2, <3>3 DEF work2, workF2
  <2>2. CASE rest.begin # end
    <3>1. \A k \in Window(rest.work.updates, rest.begin, end) : ~rest.work.updates[k].deletion
      BY <1>4, WindowsHaveKeys
    <3>2. /\ After(rest.work.updates, rest.begin) = end =>
               Mirrored(T, F, I, b, Q2, rest.work,
                        PutLeaf(T, rest.work, rest.begin), PutLeaf(F, restF.work, rest.begin))
          /\ After(rest.work.updates, rest.begin) # end =>
               Mirrored(T, F, I, b, Q2, rest.work,
                        PutBelow(Frame(T, d, deeper), EmptyNode, rest.begin, end, rest.work, FALSE),
                        PutBelow(Frame(F, d, deeperF), EmptyNode, rest.begin, end, restF.work, FALSE))
      BY <1>3, <2>2, <3>1, RestIntoEmptyInStep
    <3> HIDE DEF Q2
    <3>3. CASE After(rest.work.updates, rest.begin) = end
      <4>1. out = PutLeaf(T, rest.work, rest.begin) /\ outF = PutLeaf(F, restF.work, rest.begin)
        BY <1>1, <1>2, <1>3, <1>6, <2>2, <3>3
      <4> QED  BY <3>2, <3>3, <4>1
    <3>4. CASE After(rest.work.updates, rest.begin) # end
      <4>1. /\ out = PutBelow(Frame(T, d, deeper), EmptyNode, rest.begin, end, rest.work, FALSE)
            /\ outF = PutBelow(Frame(F, d, deeperF), EmptyNode, rest.begin, end, restF.work, FALSE)
        BY <1>1, <1>2, <1>3, <1>6, <2>2, <3>4
      <4> QED  BY <3>2, <3>4, <4>1
    <3> QED  BY <3>3, <3>4
  <2> QED  BY <2>1, <2>2
<1> HIDE DEF Q2
<1> QED  BY <1>3, <1>4, <1>7, MirroredAsAsked

(* Updates of a leaf: what the two frames are at.                          *)
AtLeaves(T, F, d, I, b, id, idF, begin, end, work, workF) ==
  /\ InStep(T, F, d, I, b, begin, end, work, workF) /\ begin # end
  /\ LeavesAlike(T, id, F, idF) /\ T[id].key \in I /\ Unpassed(I, begin, work)

(* A leaf has nothing below it.                                            *)
LEMMA NothingBelowLeaves ==
  ASSUME NEW T, NEW F, NEW d \in 0 .. Depth, NEW id, NEW idF, LeavesAlike(T, id, F, idF)
  PROVE  \A I, begin, work : BelowInStep(T, F, d, I, T[id], F[idF], begin, work)
<1>1. T[id].left = Empty /\ T[id].right = Empty /\ F[idF].left = Empty /\ F[idF].right = Empty
  BY DEF LeavesAlike, StoredLeaf
<1>2. Stands(T, Empty, F, Empty)
  BY DEF Stands, ParsedNode
<1>3. SubOK(F, Empty, d + 1) /\ Leaves(F, Empty) = {}
  BY EmptyIsATree
<1> QED  BY <1>1, <1>2, <1>3 DEF BelowInStep

(* What is told of a leaf is no part of the updates.                       *)
LEMMA ReportInStep ==
  ASSUME NEW T, NEW F, NEW d, NEW I, NEW b, NEW begin, NEW end, NEW work, NEW workF,
         InStep(T, F, d, I, b, begin, end, work, workF),
         NEW k \in KeySpace, NEW id \in Nat, NEW idF \in Nat,
         NEW work1, work1 = Report(work, k, id), NEW work1F, work1F = Report(workF, k, idF)
  PROVE  /\ InStep(T, F, d, I, b, begin, end, work1, work1F)
         /\ work1.used = work.used /\ work1.updates = work.updates
         /\ Asks(work1, begin, end) = Asks(work, begin, end)
<1>1. work \in Works /\ workF \in Works
  BY DEF InStep, Running, Idle
<1>2. ReportedTo(work, k, id, work1) /\ ReportedTo(workF, k, idF, work1F)
  BY <1>1, Reported
<1>3. /\ work1 \in Works /\ work1.used = work.used /\ work1.updates = work.updates
      /\ work1F \in Works /\ work1F.used = workF.used /\ work1F.updates = workF.updates
  BY <1>2 DEF ReportedTo
<1>4. Asks(work1, begin, end) = Asks(work, begin, end)
  BY <1>3 DEF Asks
<1>5. InPlace(d, I, begin, end, work1)
  BY <1>3 DEF InStep, InPlace
<1>6. HasRoom(work1, b, begin, end)
  BY <1>3, <1>4 DEF InStep, HasRoom
<1>7. Running(T, work1) /\ Idle(work1F) /\ SameUpdates(T, F, work1.updates, work1F.updates)
  BY <1>3 DEF InStep, Running, Idle
<1> QED  BY <1>3, <1>4, <1>5, <1>6, <1>7 DEF InStep

(* A leaf that is deleted, with other entries.                             *)
GoneFrom(id, idF, key, begin, end, work, workF, rest, restF) ==
  /\ rest = EraseDeletions(Report(work, key, id), begin, end)
  /\ restF = EraseDeletions(Report(workF, key, idF), begin, end)

GoneAlike(T, F, d, I, b, id, idF, begin, end, work, deeper, deeperF, rest, restF) ==
  /\ restF.begin = rest.begin
  /\ rest.begin = end => Mirrored(T, F, I, b, Asks(work, begin, end), work,
                                  Return(rest.work, BuiltEmpty, TRUE), Return(restF.work, BuiltEmpty, TRUE))
  /\ rest.begin # end => Mirrored(T, F, I, b, Asks(work, begin, end), work,
                                  PutBelow(Frame(T, d, deeper), T[id], rest.begin, end, rest.work, TRUE),
                                  PutBelow(Frame(F, d, deeperF), F[idF], rest.begin, end, restF.work, TRUE))

(* It is gone from both.                                                   *)
LEMMA GoneInStep ==
  ASSUME NEW T, Honest(T), NEW F, NEW d \in 0 .. Depth, NEW I, NEW b, NEW begin, NEW end, NEW work, NEW workF,
         NEW id, NEW idF, AtLeaves(T, F, d, I, b, id, idF, begin, end, work, workF),
         NEW key, key = T[id].key, key \in Window(work.updates, begin, end), work.updates[key].deletion,
         NEW deeper, NEW deeperF, d < Depth => Mirrors(T, F, deeper, deeperF, d + 1),
         NEW rest, NEW restF, GoneFrom(id, idF, key, begin, end, work, workF, rest, restF)
  PROVE  GoneAlike(T, F, d, I, b, id, idF, begin, end, work, deeper, deeperF, rest, restF)
<1> DEFINE work1  == Report(work, key, id)
           work1F == Report(workF, key, idF)
           Q      == Asks(work, begin, end)
           Q2     == Asks(rest.work, rest.begin, end)
<1>1. /\ InStep(T, F, d, I, b, begin, end, work, workF) /\ begin # end
      /\ LeavesAlike(T, id, F, idF) /\ key \in I
  BY DEF AtLeaves
<1>2. id \in Nat /\ idF \in Nat /\ key \in KeySpace
  BY <1>1, WindowsHaveKeys DEF LeavesAlike, Honest
<1>3. /\ InStep(T, F, d, I, b, begin, end, work1, work1F)
      /\ work1.used = work.used /\ work1.updates = work.updates /\ Asks(work1, begin, end) = Q
  BY <1>1, <1>2, ReportInStep
<1>4. rest = EraseDeletions(work1, begin, end) /\ restF = EraseDeletions(work1F, begin, end)
  BY DEF GoneFrom
<1> HIDE DEF work1, work1F
<1>5. /\ InStep(T, F, d, I, b, rest.begin, end, rest.work, restF.work) /\ restF.begin = rest.begin
      /\ Erased(work1, begin, end, rest)
      /\ Fresh(Q2) = Fresh(Asks(work1, begin, end))
      /\ \A k \in KeySpace \ I : rest.work.updates[k] = work1.updates[k]
  BY <1>1, <1>3, <1>4, ErasedInStep
<1>6. rest.work.used = work.used /\ \A k \in KeySpace \ I : rest.work.updates[k] = work.updates[k]
  BY <1>3, <1>5 DEF Erased
<1>7. Fresh(Q2) = Fresh(Q)
  BY <1>3, <1>5
<1>8. ASSUME rest.begin = end
      PROVE  Mirrored(T, F, I, b, Q, work, Return(rest.work, BuiltEmpty, TRUE), Return(restF.work, BuiltEmpty, TRUE))
  <2>1. /\ Running(T, rest.work) /\ RoomAbove(rest.work.used, b) /\ rest.work \in Works /\ Idle(restF.work)
        /\ SameUpdates(T, F, rest.work.updates, restF.work.updates)
    BY <1>5 DEF InStep, HasRoom, Running
  <2>2. SameBuilt(T, BuiltEmpty, BuiltEmpty)
    BY EmptyInStep
  <2> DEFINE work2 == rest.work
             workF2 == restF.work
  <2> HIDE DEF Q, Q2, work2, workF2
  <2>3. Mirrored(T, F, I, b, Q2, work2, Return(work2, BuiltEmpty, TRUE), Return(workF2, BuiltEmpty, TRUE))
    BY <2>1, <2>2, ReturnMirrored DEF work2, workF2
  <2>4. Mirrored(T, F, I, b, Q, work, Return(work2, BuiltEmpty, TRUE), Return(workF2, BuiltEmpty, TRUE))
    BY <1>6, <1>7, <2>3, MirroredAsAsked DEF work2
  <2> QED  BY <1>5, <1>8, <2>4 DEF Q, work2, workF2
<1>9. ASSUME rest.begin # end
      PROVE  Mirrored(T, F, I, b, Q, work,
                      PutBelow(Frame(T, d, deeper), T[id], rest.begin, end, rest.work, TRUE),
                      PutBelow(Frame(F, d, deeperF), F[idF], rest.begin, end, restF.work, TRUE))
  <2>1. rest.begin \in Window(rest.work.updates, rest.begin, end)
    <3>1. Iterators(rest.work.updates, rest.begin, end)
      BY <1>5 DEF Erased
    <3> QED  BY <1>9, <3>1, OneInWindow
  <2>2. rest.begin \in KeySpace
    BY <2>1, WindowsHaveKeys
  <2>3. rest.begin \in Window(work1.updates, begin, end) /\ ~work1.updates[rest.begin].deletion
    BY <1>5, <2>1, <2>2 DEF Erased
  <2>4. rest.begin # key /\ rest.begin \in I /\ Region(I, d)
    BY <1>1, <1>3, <2>3 DEF InStep, InPlace
  <2>5. d \in 0 .. Depth - 1
    BY <1>1, <2>4, RoomBelow
  <2>6. Mirrors(T, F, deeper, deeperF, d + 1)
    BY <2>5, DepthAssumption
  <2>7. BelowInStep(T, F, d, I, T[id], F[idF], rest.begin, rest.work)
    BY <1>1, NothingBelowLeaves
  <2> DEFINE out  == PutBelow(Frame(T, d, deeper), T[id], rest.begin, end, rest.work, TRUE)
             outF == PutBelow(Frame(F, d, deeperF), F[idF], rest.begin, end, restF.work, TRUE)
  <2>8. Mirrored(T, F, I, b, Q2, rest.work, out, outF)
    BY <1>5, <2>5, <2>6, <2>7, PutBelowInStep
  <2> HIDE DEF Q, Q2, out, outF
  <2>9. Mirrored(T, F, I, b, Q, work, out, outF)
    BY <1>6, <1>7, <2>8, MirroredAsAsked
  <2> QED  BY <1>5, <1>9, <2>9 DEF Q, out, outF
<1> QED  BY <1>5, <1>8, <1>9 DEF GoneAlike

(* The leaf that is split joins the updates of both, and asks for no more  *)
(* leaves.                                                                 *)
LEMMA SplitInStep ==
  ASSUME NEW T, Honest(T), NEW F, NEW d \in 0 .. Depth, NEW I, NEW b, NEW begin, NEW end, NEW work, NEW workF,
         NEW id, NEW idF, AtLeaves(T, F, d, I, b, id, idF, begin, end, work, workF), NEW key, key = T[id].key,
         key \in Window(work.updates, begin, end) => ~work.updates[key].deletion,
         NEW rest, NEW restF, InStep(T, F, d, I, b, rest.begin, end, rest.work, restF.work), restF.begin = rest.begin,
         Erased(work, begin, end, rest), rest.begin # end,
         NEW split, split = AddSplitLeaf(rest.work, key, id, rest.begin),
         NEW splitF, splitF = AddSplitLeaf(restF.work, key, idF, restF.begin)
  PROVE  /\ InStep(T, F, d, I, b, split.begin, end, split.work, splitF.work) /\ splitF.begin = split.begin
         /\ split.work.used = work.used
         /\ Fresh(Asks(split.work, split.begin, end)) = Fresh(Asks(work, begin, end))
         /\ \A k \in KeySpace \ I : split.work.updates[k] = work.updates[k]
<1> DEFINE Q  == Asks(work, begin, end)
           Q2 == Asks(split.work, split.begin, end)
           W  == Window(work.updates, begin, end)
           W2 == Window(split.work.updates, split.begin, end)
<1>1. /\ InStep(T, F, d, I, b, begin, end, work, workF) /\ begin # end
      /\ LeavesAlike(T, id, F, idF) /\ key \in I /\ Unpassed(I, begin, work)
  BY DEF AtLeaves
<1>2. /\ Region(I, d) /\ (\A k \in I : k < end)
      /\ Iterators(work.updates, begin, end) /\ W \subseteq I
      /\ RoomAbove(work.used, b) /\ b + Cardinality(Fresh(Q)) <= FirstInterior
      /\ Running(T, work) /\ work \in Works
  BY <1>1 DEF InStep, InPlace, HasRoom, Running
<1>3. id \in Nat /\ idF \in Nat /\ id # Empty /\ idF # Empty /\ key \in KeySpace
  BY <1>1, <1>2 DEF LeavesAlike, Honest, Region
<1>4. Splits(I, id, key, begin, end, work, split)
  <2>1. LeafStays(I, id, key, begin, end, work)
    BY <1>1, <1>2, <1>3 DEF LeafStays, Unpassed, Region
  <2> QED  BY <2>1, LeafSplits
<1>5. /\ split.work \in Works /\ split.work.used = work.used
      /\ Iterators(split.work.updates, split.begin, end) /\ W2 \subseteq I
      /\ \A k \in KeySpace \ I : split.work.updates[k] = work.updates[k]
      /\ SplitKey(id, key, work.updates, W, split.work.updates, W2)
      /\ \A k \in KeySpace \ {key} : OtherKey(k, work.updates, W, split.work.updates, W2)
  BY <1>4 DEF Splits
<1>6. Fresh(Q2) = Fresh(Q)
  <2>1. ASSUME NEW k \in KeySpace
        PROVE  ~Q2[k].deletion /\ Q2[k].override = Empty <=> ~Q[k].deletion /\ Q[k].override = Empty
    <3>1. /\ k \in W => Q[k] = work.updates[k]
          /\ k \notin W => Q[k] = NoEntry
      BY DEF Asks
    <3>2. /\ k \in W2 => Q2[k] = split.work.updates[k]
          /\ k \notin W2 => Q2[k] = NoEntry
      BY DEF Asks
    <3> HIDE DEF Q, Q2, W, W2
    <3>3. NoEntry.override # Empty /\ PutReuse(id).override # Empty
      BY <1>3 DEF NoEntry, PutReuse, Empty
    <3>4. CASE k = key
      BY <1>5, <3>1, <3>2, <3>3, <3>4 DEF SplitKey
    <3>5. CASE k # key
      <4>1. OtherKey(k, work.updates, W, split.work.updates, W2)
        BY <1>5, <3>5
      <4> QED  BY <3>1, <3>2, <3>3, <4>1 DEF OtherKey
    <3> QED  BY <3>4, <3>5
  <2> HIDE DEF Q, Q2
  <2> QED  BY <2>1 DEF Fresh
<1>7. /\ SameUpdates(T, F, rest.work.updates, restF.work.updates) /\ rest.work \in Works
      /\ restF.work \in Works /\ Bounded(restF.work.used)
  BY DEF InStep, Running, Idle
<1>8. Present(restF.work.updates) = Present(rest.work.updates)
  BY <1>7, SameWindows
<1>9. /\ splitF.begin = split.begin /\ Idle(splitF.work)
      /\ SameUpdates(T, F, split.work.updates, splitF.work.updates)
  <2>1. CASE key \in Present(rest.work.updates)
    <3>1. /\ split = [work |-> rest.work, begin |-> rest.begin]
          /\ splitF = [work |-> restF.work, begin |-> restF.begin]
      BY <1>8, <2>1 DEF AddSplitLeaf
    <3> QED  BY <1>7, <3>1 DEF Idle
  <2>2. CASE key \notin Present(rest.work.updates)
    <3> DEFINE more  == [rest.work EXCEPT !.updates[key] = PutReuse(id)]
               moreF == [restF.work EXCEPT !.updates[key] = PutReuse(idF)]
    <3>1. /\ split = [work |-> more, begin |-> IF key < rest.begin THEN key ELSE rest.begin]
          /\ splitF = [work |-> moreF, begin |-> IF key < restF.begin THEN key ELSE restF.begin]
      BY <1>8, <2>2 DEF AddSplitLeaf
    <3>2. Added(rest.work, key, id, more) /\ Added(restF.work, key, idF, moreF)
      BY <1>3, <1>7, OneMore
    <3> HIDE DEF more, moreF
    <3>3. split.work = more /\ splitF.work = moreF /\ splitF.begin = split.begin
      BY <3>1
    <3>4. Idle(moreF)
      BY <1>7, <3>2 DEF Idle, Added
    <3>5. SameUpdates(T, F, more.updates, moreF.updates)
      <4>1. SameEntry(T, F, PutReuse(id), PutReuse(idF))
        <5>1. SameLeaf(T, id, F, idF)
          BY <1>1 DEF LeavesAlike, SameLeaf
        <5>2. PutReuse(id) # NoEntry /\ PutReuse(idF) # NoEntry
          BY <1>3 DEF PutReuse, NoEntry
        <5> QED  BY <1>3, <5>1, <5>2 DEF SameEntry, PutReuse
      <4>2. ASSUME NEW k \in KeySpace
            PROVE  SameEntry(T, F, more.updates[k], moreF.updates[k])
        <5>1. CASE k = key
          <6>1. more.updates[k] = PutReuse(id) /\ moreF.updates[k] = PutReuse(idF)
            BY <3>2, <5>1 DEF Added
          <6> QED  BY <4>1, <6>1
        <5>2. CASE k # key
          <6>1. more.updates[k] = rest.work.updates[k] /\ moreF.updates[k] = restF.work.updates[k]
            BY <3>2, <5>2 DEF Added
          <6> QED  BY <1>7, <6>1 DEF SameUpdates
        <5> QED  BY <5>1, <5>2
      <4> QED  BY <4>2 DEF SameUpdates
    <3> QED  BY <3>3, <3>4, <3>5
  <2> QED  BY <2>1, <2>2
<1>10. InPlace(d, I, split.begin, end, split.work)
  BY <1>2, <1>5 DEF InPlace
<1>11. HasRoom(split.work, b, split.begin, end)
  <2> HIDE DEF Q
  <2>1. b + Cardinality(Fresh(Q2)) <= FirstInterior
    BY <1>2, <1>6
  <2> QED  BY <1>2, <1>5, <2>1 DEF HasRoom
<1>12. Running(T, split.work)
  BY <1>2, <1>5 DEF Running
<1>13. InStep(T, F, d, I, b, split.begin, end, split.work, splitF.work)
  BY <1>9, <1>10, <1>11, <1>12 DEF InStep
<1> QED  BY <1>5, <1>6, <1>9, <1>13

(* A leaf that stays, with other entries.                                  *)
KeptIn(id, idF, key, begin, end, work, workF, rest, restF, split, splitF) ==
  /\ rest = EraseDeletions(work, begin, end) /\ restF = EraseDeletions(workF, begin, end)
  /\ split = AddSplitLeaf(rest.work, key, id, rest.begin)
  /\ splitF = AddSplitLeaf(restF.work, key, idF, restF.begin)

KeptAlike(T, F, d, I, b, id, idF, begin, end, work, deeper, deeperF, rest, restF, split, splitF, check, checkF) ==
  /\ restF.begin = rest.begin
  /\ rest.begin = end => Mirrored(T, F, I, b, Asks(work, begin, end), work,
                                  Return(rest.work, Reuse(T, id), FALSE), Return(restF.work, Reuse(F, idF), FALSE))
  /\ rest.begin # end =>
       /\ splitF.begin = split.begin
       /\ Mirrored(T, F, I, b, Asks(work, begin, end), work,
                   PutBelow(Frame(T, d, deeper), T[id], split.begin, end, split.work, check),
                   PutBelow(Frame(F, d, deeperF), F[idF], split.begin, end, splitF.work, checkF))

(* It stays in both.                                                       *)
LEMMA KeptInStep ==
  ASSUME NEW T, Honest(T), NEW F, NEW d \in 0 .. Depth, NEW I, NEW b, NEW begin, NEW end, NEW work, NEW workF,
         NEW id, NEW idF, AtLeaves(T, F, d, I, b, id, idF, begin, end, work, workF), NEW key, key = T[id].key,
         key \in Window(work.updates, begin, end) => ~work.updates[key].deletion,
         NEW other \in Window(work.updates, begin, end), other # key,
         NEW deeper, NEW deeperF, d < Depth => Mirrors(T, F, deeper, deeperF, d + 1),
         NEW rest, NEW restF, NEW split, NEW splitF,
         KeptIn(id, idF, key, begin, end, work, workF, rest, restF, split, splitF),
         NEW check, NEW checkF, check <=> checkF
  PROVE  KeptAlike(T, F, d, I, b, id, idF, begin, end, work, deeper, deeperF, rest, restF, split, splitF, check, checkF)
<1> DEFINE Q  == Asks(work, begin, end)
           Q2 == Asks(rest.work, rest.begin, end)
           Q3 == Asks(split.work, split.begin, end)
<1>0. /\ rest = EraseDeletions(work, begin, end) /\ restF = EraseDeletions(workF, begin, end)
      /\ split = AddSplitLeaf(rest.work, key, id, rest.begin)
      /\ splitF = AddSplitLeaf(restF.work, key, idF, restF.begin)
  BY DEF KeptIn
<1>1. /\ InStep(T, F, d, I, b, begin, end, work, workF) /\ begin # end
      /\ LeavesAlike(T, id, F, idF) /\ key \in I
  BY DEF AtLeaves
<1>2. /\ InStep(T, F, d, I, b, rest.begin, end, rest.work, restF.work) /\ restF.begin = rest.begin
      /\ Erased(work, begin, end, rest) /\ Fresh(Q2) = Fresh(Q)
      /\ \A k \in KeySpace \ I : rest.work.updates[k] = work.updates[k]
  BY <1>1, <1>0, ErasedInStep
<1>3. rest.work.used = work.used
  BY <1>2 DEF Erased
<1>4. ASSUME rest.begin = end
      PROVE  Mirrored(T, F, I, b, Q, work,
                      Return(rest.work, Reuse(T, id), FALSE), Return(restF.work, Reuse(F, idF), FALSE))
  <2>1. /\ Running(T, rest.work) /\ RoomAbove(rest.work.used, b) /\ rest.work \in Works /\ Idle(restF.work)
        /\ SameUpdates(T, F, rest.work.updates, restF.work.updates)
    BY <1>2 DEF InStep, HasRoom, Running
  <2>2. SameBuilt(T, Reuse(T, id), Reuse(F, idF))
    BY <1>1 DEF LeavesAlike, SameBuilt, InTable, Reuse, Built, ParsedNode, SameKind, IsLeaf, StoredLeaf
  <2> DEFINE work2 == rest.work
             workF2 == restF.work
             l == Reuse(T, id)
             lF == Reuse(F, idF)
  <2> HIDE DEF Q, Q2, work2, workF2, l, lF
  <2>3. Mirrored(T, F, I, b, Q2, work2, Return(work2, l, FALSE), Return(workF2, lF, FALSE))
    BY <2>1, <2>2, ReturnMirrored DEF work2, workF2, l, lF
  <2>4. Mirrored(T, F, I, b, Q, work, Return(work2, l, FALSE), Return(workF2, lF, FALSE))
    BY <1>2, <1>3, <2>3, MirroredAsAsked DEF work2
  <2> QED  BY <2>4 DEF work2, workF2, l, lF
<1>5. ASSUME rest.begin # end
      PROVE  /\ splitF.begin = split.begin
             /\ Mirrored(T, F, I, b, Q, work,
                         PutBelow(Frame(T, d, deeper), T[id], split.begin, end, split.work, check),
                         PutBelow(Frame(F, d, deeperF), F[idF], split.begin, end, splitF.work, checkF))
  <2>1. /\ InStep(T, F, d, I, b, split.begin, end, split.work, splitF.work) /\ splitF.begin = split.begin
        /\ split.work.used = work.used /\ Fresh(Q3) = Fresh(Q)
        /\ \A k \in KeySpace \ I : split.work.updates[k] = work.updates[k]
    BY <1>0, <1>2, <1>5, SplitInStep
  <2>2. other \in I /\ Region(I, d)
    BY <1>1 DEF InStep, InPlace
  <2>3. d \in 0 .. Depth - 1
    BY <1>1, <2>2, RoomBelow
  <2>4. Mirrors(T, F, deeper, deeperF, d + 1)
    BY <2>3, DepthAssumption
  <2>5. BelowInStep(T, F, d, I, T[id], F[idF], split.begin, split.work)
    BY <1>1, NothingBelowLeaves
  <2> DEFINE out  == PutBelow(Frame(T, d, deeper), T[id], split.begin, end, split.work, check)
             outF == PutBelow(Frame(F, d, deeperF), F[idF], split.begin, end, splitF.work, checkF)
  <2>6. Mirrored(T, F, I, b, Q3, split.work, out, outF)
    BY <2>1, <2>3, <2>4, <2>5, PutBelowInStep
  <2> HIDE DEF Q, Q3, out, outF
  <2>7. Mirrored(T, F, I, b, Q, work, out, outF)
    BY <2>1, <2>6, MirroredAsAsked
  <2> QED  BY <2>1, <2>7 DEF out, outF
<1> QED  BY <1>2, <1>4, <1>5 DEF KeptAlike

(* Updates of a leaf.                                                      *)
LEMMA PutIntoLeafInStep ==
  ASSUME NEW T, Honest(T), NEW F, NEW d \in 0 .. Depth, NEW I, NEW b, NEW begin, NEW end, NEW work, NEW workF,
         NEW id, NEW idF, AtLeaves(T, F, d, I, b, id, idF, begin, end, work, workF),
         NEW deeper, NEW deeperF, d < Depth => Mirrors(T, F, deeper, deeperF, d + 1)
  PROVE  Mirrored(T, F, I, b, Asks(work, begin, end), work,
                  PutIntoLeaf(Frame(T, d, deeper), id, begin, end, work),
                  PutIntoLeaf(Frame(F, d, deeperF), idF, begin, end, workF))
<1> DEFINE key      == T[id].key
           window   == Window(work.updates, begin, end)
           deleted  == {k \in window : work.updates[k].deletion}
           deletedF == {k \in Window(workF.updates, begin, end) : workF.updates[k].deletion}
           Q        == Asks(work, begin, end)
           out      == PutIntoLeaf(Frame(T, d, deeper), id, begin, end, work)
           outF     == PutIntoLeaf(Frame(F, d, deeperF), idF, begin, end, workF)
<1>1. /\ InStep(T, F, d, I, b, begin, end, work, workF) /\ begin # end
      /\ LeavesAlike(T, id, F, idF) /\ key \in I /\ Unpassed(I, begin, work) /\ F[idF].key = key
  BY DEF AtLeaves, LeavesAlike
<1>2. /\ Iterators(work.updates, begin, end) /\ SameUpdates(T, F, work.updates, workF.updates)
  BY <1>1 DEF InStep, InPlace
<1>3. begin \in window /\ window \subseteq Present(work.updates) /\ window \subseteq KeySpace
  BY <1>1, <1>2, OneInWindow, WindowsHaveKeys
<1>4. Frame(T, d, deeper).nodes = T /\ Frame(F, d, deeperF).nodes = F
  BY DEF Frame
<1>5. Window(workF.updates, begin, end) = window
  BY <1>2, SameWindows
<1>6. deletedF = deleted
  BY <1>2, <1>3, <1>5 DEF SameUpdates, SameEntry
<1>7. CASE window = {key}
  <2>1. begin = key
    BY <1>3, <1>7
  <2>2. out = UpdateLeaf(T, id, key, work) /\ outF = UpdateLeaf(F, idF, key, workF)
    BY <1>1, <1>4, <1>5, <1>7, <2>1 DEF PutIntoLeaf
  <2>3. work.updates[key].override = Empty
    BY <1>1, <1>3, <1>7 DEF Unpassed
  <2>4. Mirrored(T, F, I, b, Q, work, UpdateLeaf(T, id, key, work), UpdateLeaf(F, idF, key, workF))
    BY <1>1, <1>7, <2>3, UpdateLeafInStep
  <2> HIDE DEF out, outF
  <2> QED  BY <2>2, <2>4 DEF out, outF
<1>8. CASE window # {key} /\ key \in deleted
  <2> DEFINE rest  == EraseDeletions(Report(work, key, id), begin, end)
             restF == EraseDeletions(Report(workF, key, idF), begin, end)
  <2>1. /\ out = IF rest.begin # end
                 THEN PutBelow(Frame(T, d, deeper), T[id], rest.begin, end, rest.work, deleted # {})
                 ELSE Return(rest.work, BuiltEmpty, TRUE)
    BY <1>4, <1>8 DEF PutIntoLeaf
  <2>2. /\ outF = IF restF.begin # end
                  THEN PutBelow(Frame(F, d, deeperF), F[idF], restF.begin, end, restF.work, deletedF # {})
                  ELSE Return(restF.work, BuiltEmpty, TRUE)
    BY <1>1, <1>4, <1>5, <1>6, <1>8 DEF PutIntoLeaf
  <2>3. (deleted # {}) = TRUE /\ (deletedF # {}) = TRUE /\ key \in window /\ work.updates[key].deletion
    BY <1>6, <1>8
  <2>5. GoneFrom(id, idF, key, begin, end, work, workF, rest, restF)
    BY DEF GoneFrom
  <2> HIDE DEF out, outF, deleted, deletedF, rest, restF
  <2>6. GoneAlike(T, F, d, I, b, id, idF, begin, end, work, deeper, deeperF, rest, restF)
    BY <2>3, <2>5, GoneInStep
  <2>4. /\ restF.begin = rest.begin
        /\ rest.begin = end => Mirrored(T, F, I, b, Q, work,
                                        Return(rest.work, BuiltEmpty, TRUE), Return(restF.work, BuiltEmpty, TRUE))
        /\ rest.begin # end => Mirrored(T, F, I, b, Q, work,
                                        PutBelow(Frame(T, d, deeper), T[id], rest.begin, end, rest.work, TRUE),
                                        PutBelow(Frame(F, d, deeperF), F[idF], rest.begin, end, restF.work, TRUE))
    BY <2>6 DEF GoneAlike
  <2> QED  BY <2>1, <2>2, <2>3, <2>4 DEF out, outF
<1>9. CASE window # {key} /\ key \notin deleted
  <2> DEFINE rest   == EraseDeletions(work, begin, end)
             restF  == EraseDeletions(workF, begin, end)
             split  == AddSplitLeaf(rest.work, key, id, rest.begin)
             splitF == AddSplitLeaf(restF.work, key, idF, restF.begin)
             check  == deleted # {}
             checkF == deletedF # {}
  <2>1. out = IF rest.begin # end
              THEN PutBelow(Frame(T, d, deeper), T[id], split.begin, end, split.work, check)
              ELSE Return(rest.work, Reuse(T, id), FALSE)
    BY <1>4, <1>9 DEF PutIntoLeaf
  <2>2. outF = IF restF.begin # end
               THEN PutBelow(Frame(F, d, deeperF), F[idF], splitF.begin, end, splitF.work, checkF)
               ELSE Return(restF.work, Reuse(F, idF), FALSE)
    BY <1>1, <1>4, <1>5, <1>6, <1>9 DEF PutIntoLeaf
  <2>3. key \in window => ~work.updates[key].deletion
    BY <1>9
  <2>4. check <=> checkF
    BY <1>6
  <2>5. PICK other \in window : other # key
    BY <1>3, <1>9
  <2>7. KeptIn(id, idF, key, begin, end, work, workF, rest, restF, split, splitF)
    BY DEF KeptIn
  <2> HIDE DEF check, checkF, out, outF, rest, restF, split, splitF
  <2>8. KeptAlike(T, F, d, I, b, id, idF, begin, end, work, deeper, deeperF, rest, restF, split, splitF, check, checkF)
    BY <2>3, <2>4, <2>5, <2>7, KeptInStep
  <2>6. /\ restF.begin = rest.begin
        /\ rest.begin = end => Mirrored(T, F, I, b, Q, work,
                                        Return(rest.work, Reuse(T, id), FALSE), Return(restF.work, Reuse(F, idF), FALSE))
        /\ rest.begin # end =>
             /\ splitF.begin = split.begin
             /\ Mirrored(T, F, I, b, Q, work,
                         PutBelow(Frame(T, d, deeper), T[id], split.begin, end, split.work, check),
                         PutBelow(Frame(F, d, deeperF), F[idF], split.begin, end, splitF.work, checkF))
    BY <2>8 DEF KeptAlike
  <2> QED  BY <2>1, <2>2, <2>6 DEF out, outF
<1> QED  BY <1>7, <1>8, <1>9

---------------------------------------------------------------------------
(* All of putAux in step, and all calls of it, from the last level up.     *)

(* What the frames are called with are ids.                                *)
LEMMA CalledWithIds ==
  ASSUME NEW T, Honest(T), NEW F, DOMAIN F \in SUBSET Nat, NEW d \in 0 .. Depth, NEW I, NEW b, NEW id, NEW idF,
         NEW begin, NEW end, NEW work, NEW workF, Called(T, F, d, I, b, id, idF, begin, end, work, workF)
  PROVE  /\ id \in Nat /\ idF \in Nat
         /\ PutCall(id, begin, end, work) \in PutCalls /\ PutCall(idF, begin, end, workF) \in PutCalls
<1>1. /\ SubOK(F, idF, d) /\ id \in DOMAIN T \cup {Empty} /\ work \in Works /\ workF \in Works
      /\ begin \in 0 .. MapEnd /\ end \in 0 .. MapEnd
  BY DEF Called, Stands, InStep, InPlace, Running, Idle, Iterators
<1>2. idF = Empty \/ idF \in DOMAIN F
  BY <1>1, KindsOfTrees DEF StoredLeaf, StoredBranch
<1>3. id \in Nat /\ idF \in Nat
  BY <1>1, <1>2 DEF Honest, Empty
<1> QED  BY <1>1, <1>3 DEF PutCall, PutCalls

(* The children of branches that stand for each other.                     *)
LEMMA ChildrenInStep ==
  ASSUME NEW T, Honest(T), NEW F, NEW d \in 0 .. Depth - 1, NEW I, NEW b, NEW id, NEW idF, NEW begin, NEW end,
         NEW work, NEW workF, Called(T, F, d, I, b, id, idF, begin, end, work, workF),
         id # Empty, idF # Empty, IsBranch(T[id]), IsBranch(F[idF]),
         SubOK(F, F[idF].left, d + 1), SubOK(F, F[idF].right, d + 1),
         Stands(T, T[id].left, F, F[idF].left), Stands(T, T[id].right, F, F[idF].right)
  PROVE  BelowInStep(T, F, d, I, T[id], F[idF], begin, work)
<1>1. /\ SubOK(F, idF, d) /\ (\A x \in Leaves(F, idF) : F[x].key \in I) /\ Unpassed(I, begin, work)
  BY DEF Called
<1>2. d \in 0 .. Depth
  BY DepthAssumption
<1>3. StoredBranch(F, idF, d) /\ Leaves(F, idF) = Leaves(F, F[idF].left) \cup Leaves(F, F[idF].right)
  BY <1>1, <1>2, KindsOfTrees DEF IsBranch, IsLeaf
<1>4. SidesOK(F, F[idF].left, F[idF].right, d)
  BY <1>3 DEF StoredBranch
<1>5. /\ \A x \in Leaves(F, F[idF].left) : F[x].key \in Half(I, d, 0)
      /\ \A x \in Leaves(F, F[idF].right) : F[x].key \in Half(I, d, 1)
  BY <1>1, <1>3, <1>4 DEF SidesOK, Half
<1> QED  BY <1>1, <1>5 DEF BelowInStep

(* A call of putAux.                                                       *)
LEMMA PutAuxInStep ==
  ASSUME NEW T, Honest(T), NEW F, DOMAIN F \in SUBSET Nat, NEW d \in 0 .. Depth, NEW I, NEW b, NEW id, NEW idF,
         NEW begin, NEW end, NEW work, NEW workF, Called(T, F, d, I, b, id, idF, begin, end, work, workF),
         NEW deeper, NEW deeperF, d < Depth => Mirrors(T, F, deeper, deeperF, d + 1)
  PROVE  Mirrored(T, F, I, b, Asks(work, begin, end), work,
                  PutAux(Frame(T, d, deeper), PutCall(id, begin, end, work)),
                  PutAux(Frame(F, d, deeperF), PutCall(idF, begin, end, workF)))
<1> DEFINE frame  == Frame(T, d, deeper)
           frameF == Frame(F, d, deeperF)
           Q      == Asks(work, begin, end)
           node   == ParsedNode(T, id)
           nodeF  == ParsedNode(F, idF)
           call   == PutCall(id, begin, end, work)
           callF  == PutCall(idF, begin, end, workF)
           out    == PutAux(frame, call)
           outF   == PutAux(frameF, callF)
<1> SUFFICES Mirrored(T, F, I, b, Q, work, out, outF)
  OBVIOUS
<1>0. /\ call.id = id /\ call.begin = begin /\ call.end = end /\ call.work = work /\ frame.nodes = T
      /\ callF.id = idF /\ callF.begin = begin /\ callF.end = end /\ callF.work = workF /\ frameF.nodes = F
  BY DEF PutCall, Frame
<1> HIDE DEF frame, frameF, call, callF
<1>1. out = IF begin = end THEN Return(work, Reuse(T, id), FALSE)
            ELSE CASE node.type = "Witness" -> Throw(work)
                   [] node.type = "Empty"   -> PutIntoEmpty(frame, begin, end, work)
                   [] IsLeaf(node)          -> PutIntoLeaf(frame, id, begin, end, work)
                   [] IsBranch(node)        -> PutBelow(frame, node, begin, end, work, FALSE)
  BY <1>0 DEF PutAux
<1>2. outF = IF begin = end THEN Return(workF, Reuse(F, idF), FALSE)
             ELSE CASE nodeF.type = "Witness" -> Throw(workF)
                    [] nodeF.type = "Empty"   -> PutIntoEmpty(frameF, begin, end, workF)
                    [] IsLeaf(nodeF)          -> PutIntoLeaf(frameF, idF, begin, end, workF)
                    [] IsBranch(nodeF)        -> PutBelow(frameF, nodeF, begin, end, workF, FALSE)
  BY <1>0 DEF PutAux
<1> HIDE DEF out, outF
<1>3. /\ SubOK(F, idF, d) /\ Stands(T, id, F, idF)
      /\ \A x \in Leaves(F, idF) : F[x].key \in I
      /\ InStep(T, F, d, I, b, begin, end, work, workF)
      /\ idF # Empty => Unpassed(I, begin, work)
  BY DEF Called
<1>4. /\ Running(T, work) /\ RoomAbove(work.used, b) /\ work \in Works /\ Idle(workF)
      /\ SameUpdates(T, F, work.updates, workF.updates)
  BY <1>3 DEF InStep, HasRoom, Running
<1>5. /\ SameKind(node, nodeF)
      /\ \/ node.type = "Witness" /\ id # Empty
         \/ id = Empty /\ idF = Empty
         \/ /\ id # Empty /\ idF # Empty /\ IsLeaf(T[id]) /\ F[idF].type = "Leaf" /\ StoredLeaf(F, idF)
            /\ T[id].key = F[idF].key /\ T[id].val = F[idF].val
            /\ T[id].left = Empty /\ T[id].right = Empty /\ F[idF].left = Empty /\ F[idF].right = Empty
         \/ /\ id # Empty /\ idF # Empty /\ IsBranch(T[id]) /\ IsBranch(F[idF]) /\ d \in 0 .. Depth - 1
            /\ SubOK(F, F[idF].left, d + 1) /\ SubOK(F, F[idF].right, d + 1)
            /\ Stands(T, T[id].left, F, F[idF].left) /\ Stands(T, T[id].right, F, F[idF].right)
  BY <1>3, KindsAlike
<1>6. id \in Nat /\ idF \in Nat /\ id \in DOMAIN T \cup {Empty} /\ node.hash = nodeF.hash
  BY <1>3, CalledWithIds DEF Stands
<1>7. CASE begin = end
  <2>1. SameBuilt(T, Reuse(T, id), Reuse(F, idF))
    BY <1>5, <1>6 DEF SameBuilt, InTable, Reuse, Built, SameKind, IsLeaf, IsBranch
  <2> DEFINE l  == Reuse(T, id)
             lF == Reuse(F, idF)
  <2> HIDE DEF Q, l, lF
  <2>2. Mirrored(T, F, I, b, Q, work, Return(work, l, FALSE), Return(workF, lF, FALSE))
    BY <1>4, <2>1, ReturnMirrored DEF l, lF
  <2>3. out = Return(work, l, FALSE) /\ outF = Return(workF, lF, FALSE)
    BY <1>1, <1>2, <1>7 DEF l, lF
  <2> QED  BY <2>2, <2>3
<1>8. CASE begin # end /\ node.type = "Witness"
  <2>1. out = Throw(work)
    BY <1>1, <1>8 DEF IsLeaf, IsBranch
  <2>2. Cardinality(Fresh(Q)) \in Nat /\ b \in Nat
    BY <1>4, FreshAreCounted DEF RoomAbove
  <2>3. b + Cardinality(Fresh(Q)) \in Nat /\ b <= b + Cardinality(Fresh(Q))
    BY <2>2
  <2> DEFINE e == b + Cardinality(Fresh(Q))
  <2> HIDE DEF e
  <2>4. WroteHonestly(T, e, work, Throw(work)) /\ Throw(work).thrown
    BY <1>4, <2>3, ThrownInStep DEF e
  <2> HIDE DEF Q
  <2> QED  BY <2>1, <2>4 DEF Mirrored, e
<1>9. CASE begin # end /\ node.type # "Witness" /\ id = Empty /\ idF = Empty
  <2>1. node.type = "Empty" /\ nodeF.type = "Empty"
    BY <1>9 DEF ParsedNode, EmptyNode
  <2>2. out = PutIntoEmpty(frame, begin, end, work) /\ outF = PutIntoEmpty(frameF, begin, end, workF)
    BY <1>1, <1>2, <1>9, <2>1 DEF IsLeaf, IsBranch
  <2>3. Mirrored(T, F, I, b, Q, work, PutIntoEmpty(frame, begin, end, work), PutIntoEmpty(frameF, begin, end, workF))
    BY <1>3, <1>9, PutIntoEmptyInStep DEF frame, frameF
  <2> QED  BY <2>2, <2>3
<1>10. CASE /\ begin # end
            /\ id # Empty /\ idF # Empty /\ IsLeaf(T[id]) /\ F[idF].type = "Leaf" /\ StoredLeaf(F, idF)
            /\ T[id].key = F[idF].key /\ T[id].val = F[idF].val
            /\ T[id].left = Empty /\ T[id].right = Empty /\ F[idF].left = Empty /\ F[idF].right = Empty
  <2>1. node = T[id] /\ nodeF = F[idF] /\ id \in DOMAIN T
    BY <1>6, <1>10 DEF ParsedNode
  <2>2. out = PutIntoLeaf(frame, id, begin, end, work) /\ outF = PutIntoLeaf(frameF, idF, begin, end, workF)
    BY <1>1, <1>2, <1>10, <2>1 DEF IsLeaf, IsBranch
  <2>3. LeavesAlike(T, id, F, idF)
    BY <1>6, <1>10, <2>1 DEF LeavesAlike
  <2>4. T[id].key \in I
    <3>1. idF \in Leaves(F, idF)
      BY <1>3, <1>10, KindsOfTrees DEF IsLeaf, IsBranch, StoredLeaf, StoredBranch
    <3> QED  BY <1>3, <1>10, <3>1
  <2>5. AtLeaves(T, F, d, I, b, id, idF, begin, end, work, workF)
    BY <1>3, <1>10, <2>3, <2>4 DEF AtLeaves
  <2>6. Mirrored(T, F, I, b, Q, work, PutIntoLeaf(frame, id, begin, end, work),
                 PutIntoLeaf(frameF, idF, begin, end, workF))
    BY <2>5, PutIntoLeafInStep DEF frame, frameF
  <2> QED  BY <2>2, <2>6
<1>11. CASE /\ begin # end
            /\ id # Empty /\ idF # Empty /\ IsBranch(T[id]) /\ IsBranch(F[idF]) /\ d \in 0 .. Depth - 1
            /\ SubOK(F, F[idF].left, d + 1) /\ SubOK(F, F[idF].right, d + 1)
            /\ Stands(T, T[id].left, F, F[idF].left) /\ Stands(T, T[id].right, F, F[idF].right)
  <2>1. node = T[id] /\ nodeF = F[idF]
    BY <1>11 DEF ParsedNode
  <2>2. /\ out = PutBelow(frame, node, begin, end, work, FALSE)
        /\ outF = PutBelow(frameF, nodeF, begin, end, workF, FALSE)
    BY <1>1, <1>2, <1>11, <2>1 DEF IsLeaf, IsBranch
  <2>3. Mirrors(T, F, deeper, deeperF, d + 1)
    BY <1>11, DepthAssumption
  <2>4. BelowInStep(T, F, d, I, node, nodeF, begin, work)
    BY <1>11, <2>1, ChildrenInStep
  <2> HIDE DEF node, nodeF
  <2>5. Mirrored(T, F, I, b, Q, work, PutBelow(frame, node, begin, end, work, FALSE),
                 PutBelow(frameF, nodeF, begin, end, workF, FALSE))
    BY <1>3, <1>11, <2>3, <2>4, PutBelowInStep DEF frame, frameF
  <2> QED  BY <2>2, <2>5
<1> QED  BY <1>5, <1>7, <1>8, <1>9, <1>10, <1>11

(* A frame at any depth, if the frames below it do.                        *)
LEMMA OutcomesMirror ==
  ASSUME NEW T, Honest(T), NEW F, DOMAIN F \in SUBSET Nat, NEW d \in 0 .. Depth,
         NEW deeper, NEW deeperF, d < Depth => Mirrors(T, F, deeper, deeperF, d + 1)
  PROVE  Mirrors(T, F, Outcomes(Frame(T, d, deeper)), Outcomes(Frame(F, d, deeperF)), d)
<1> SUFFICES ASSUME NEW I, NEW b, NEW id, NEW idF, NEW begin, NEW end, NEW work, NEW workF,
                    Called(T, F, d, I, b, id, idF, begin, end, work, workF)
             PROVE  Mirrored(T, F, I, b, Asks(work, begin, end), work,
                             Outcomes(Frame(T, d, deeper))[PutCall(id, begin, end, work)],
                             Outcomes(Frame(F, d, deeperF))[PutCall(idF, begin, end, workF)])
  BY DEF Mirrors
<1>1. PutCall(id, begin, end, work) \in PutCalls /\ PutCall(idF, begin, end, workF) \in PutCalls
  BY CalledWithIds
<1>2. /\ Outcomes(Frame(T, d, deeper))[PutCall(id, begin, end, work)]
           = PutAux(Frame(T, d, deeper), PutCall(id, begin, end, work))
      /\ Outcomes(Frame(F, d, deeperF))[PutCall(idF, begin, end, workF)]
           = PutAux(Frame(F, d, deeperF), PutCall(idF, begin, end, workF))
  BY <1>1 DEF Outcomes
<1>3. Mirrored(T, F, I, b, Asks(work, begin, end), work,
               PutAux(Frame(T, d, deeper), PutCall(id, begin, end, work)),
               PutAux(Frame(F, d, deeperF), PutCall(idF, begin, end, workF)))
  BY PutAuxInStep
<1> QED  BY <1>2, <1>3

(* So that all calls do.                                                   *)
LEMMA CallsMirror ==
  ASSUME NEW T, Honest(T), NEW F, DOMAIN F \in SUBSET Nat
  PROVE  \A n \in 0 .. Depth : Mirrors(T, F, CallsAbove(T, n), CallsAbove(F, n), Depth - n)
<1> DEFINE S == {n \in Nat : n <= Depth => Mirrors(T, F, CallsAbove(T, n), CallsAbove(F, n), Depth - n)}
<1>1. Depth \in Nat
  BY DepthAssumption
<1>2. 0 \in S
  <2>1. Depth \in 0 .. Depth /\ ~(Depth < Depth) /\ Depth - 0 = Depth
    BY <1>1
  <2>2. Mirrors(T, F, Outcomes(Frame(T, Depth, NoTable)), Outcomes(Frame(F, Depth, NoTable)), Depth)
    BY <2>1, OutcomesMirror
  <2> QED  BY <2>1, <2>2, EachLevelOfCalls
<1>3. ASSUME NEW n \in S
      PROVE  n + 1 \in S
  <2> SUFFICES ASSUME n + 1 <= Depth
               PROVE  Mirrors(T, F, CallsAbove(T, n + 1), CallsAbove(F, n + 1), Depth - (n + 1))
    OBVIOUS
  <2>1. n \in Nat /\ n <= Depth /\ Depth - (n + 1) \in 0 .. Depth /\ (Depth - (n + 1)) + 1 = Depth - n
    BY <1>1
  <2>2. Mirrors(T, F, CallsAbove(T, n), CallsAbove(F, n), (Depth - (n + 1)) + 1)
    BY <2>1
  <2>3. Mirrors(T, F, Outcomes(Frame(T, Depth - (n + 1), CallsAbove(T, n))),
                Outcomes(Frame(F, Depth - (n + 1), CallsAbove(F, n))), Depth - (n + 1))
    BY <2>1, <2>2, OutcomesMirror
  <2>4. /\ CallsAbove(T, n + 1) = Outcomes(Frame(T, Depth - (n + 1), CallsAbove(T, n)))
        /\ CallsAbove(F, n + 1) = Outcomes(Frame(F, Depth - (n + 1), CallsAbove(F, n)))
    BY <2>1, EachLevelOfCalls
  <2> QED  BY <2>3, <2>4
<1>4. S = Nat
  <2>1. S \in SUBSET Nat
    OBVIOUS
  <2> HIDE DEF S
  <2> QED  BY <1>2, <1>3, <2>1, AllNumbers
<1> QED  BY <1>1, <1>4

---------------------------------------------------------------------------
(* A whole set of updates, put into both trees                             *)

(* What is asked of apply(): records to put or to delete, and no leaf to   *)
(* be reused.                                                              *)
PlainUpdates(set) ==
  DOMAIN set \in SUBSET KeySpace /\ \A k \in DOMAIN set : set[k] \in Update /\ set[k].override = Empty

(* They can be put into an empty tree.                                     *)
LEMMA PlainUpdatesCanBePut ==
  ASSUME NEW T, DOMAIN T \in SUBSET Nat, Bounded(DOMAIN T), Empty \notin DOMAIN T,
         NEW set, PlainUpdates(set), RoomForLeaves(T, set), NEW root, TreeOK(T, root)
  PROVE  CanPut(T, root, set)
BY DEF CanPut, PlainUpdates, EntryOK

(* What the first calls are asked in the two trees.                        *)
LEMMA FirstCallsInStep ==
  ASSUME NEW T, Honest(T), NEW F, DOMAIN F \in SUBSET Nat, Bounded(DOMAIN F), Empty \notin DOMAIN F,
         NEW x, NEW y, SubOK(F, y, 0), Stands(T, x, F, y), NEW set, PlainUpdates(set), RoomForLeaves(T, set)
  PROVE  Called(T, F, 0, KeySpace, LeafNext(DOMAIN T), x, y, After(MapOf(set), -1), MapEnd,
                WorkOf(T, set), WorkOf(F, set))
<1> DEFINE map   == MapOf(set)
           work  == WorkOf(T, set)
           workF == WorkOf(F, set)
           begin == After(map, -1)
           b     == LeafNext(DOMAIN T)
<1>1. DOMAIN T \in SUBSET Nat /\ Bounded(DOMAIN T) /\ Empty \notin DOMAIN T
  BY DEF Honest
<1>2. TreeOK(T, Empty)
  BY EmptyIsATree, TreesAreSubtrees
<1>3. CanPut(T, Empty, set)
  BY <1>1, <1>2, PlainUpdatesCanBePut
<1>4. Ready(T, 0, KeySpace, b, Empty, begin, MapEnd, work)
  BY <1>3, FirstCallIsReady
<1>5. /\ work.updates = map /\ workF.updates = map /\ work.used = DOMAIN T /\ workF.used = DOMAIN F
      /\ \A k \in KeySpace : map[k] = IF k \in DOMAIN set THEN set[k] ELSE NoEntry
      /\ map \in [KeySpace -> Update \cup {NoEntry}]
  BY DEF WorkOf, MapOf, PlainUpdates
<1>6. workF \in Works
  BY <1>5 DEF WorkOf, Works, Empty
<1> HIDE DEF work, workF, map
<1>7. /\ Iterators(map, begin, MapEnd) /\ Window(map, begin, MapEnd) = Present(map)
      /\ \A k \in Present(map) : begin <= k
  BY FirstWindow
<1> HIDE DEF begin
<1>8. Present(map) \subseteq KeySpace
  BY DEF Present
<1>9. Region(KeySpace, 0) /\ \A k \in KeySpace : k < MapEnd
  BY AllKeys, EndOfMap
<1>10. InPlace(0, KeySpace, begin, MapEnd, work)
  BY <1>5, <1>7, <1>8, <1>9 DEF InPlace
<1>11. HasRoom(work, b, begin, MapEnd) /\ Running(T, work)
  BY <1>4 DEF Ready, Asked, HasRoom
<1>12. Idle(workF)
  BY <1>5, <1>6 DEF Idle
<1>13. SameUpdates(T, F, work.updates, workF.updates)
  <2>1. \A k \in KeySpace : map[k].override = Empty \/ map[k] = NoEntry
    BY <1>5 DEF PlainUpdates
  <2> QED  BY <1>5, <2>1 DEF SameUpdates, SameEntry
<1>14. Unpassed(KeySpace, begin, work)
  <2>1. \A k \in Present(map) : map[k].override = Empty
    BY <1>5 DEF Present, PlainUpdates
  <2> QED  BY <1>5, <1>7, <2>1 DEF Unpassed
<1>15. \A z \in Leaves(F, y) : F[z].key \in KeySpace
  <2>1. 0 \in 0 .. Depth
    BY DepthAssumption
  <2> QED  BY <2>1, LeavesAreStored DEF StoredLeaf
<1>16. InStep(T, F, 0, KeySpace, b, begin, MapEnd, work, workF)
  BY <1>10, <1>11, <1>12, <1>13 DEF InStep
<1>17. Called(T, F, 0, KeySpace, b, x, y, begin, MapEnd, work, workF)
  BY <1>14, <1>15, <1>16 DEF Called
<1> QED  BY <1>17 DEF b, begin, work, workF, map

(* What comes of it.                                                       *)
PutAlike(T, put, putF) ==
  /\ Honest(put.nodes) /\ Extends(put.nodes, T)
  /\ ~put.thrown => ~putF.thrown /\ InTable(put.nodes, put.built) /\ put.built.hash = putF.built.hash

(* The same updates, put into a partial tree and into the full one that it *)
(* stands for: unless the first throws, the two new trees have one hash.   *)
THEOREM PutAllInStep ==
  ASSUME NEW T, Honest(T), NEW F, DOMAIN F \in SUBSET Nat, Bounded(DOMAIN F), Empty \notin DOMAIN F,
         NEW x, NEW y, SubOK(F, y, 0), Stands(T, x, F, y), NEW set, PlainUpdates(set), RoomForLeaves(T, set)
  PROVE  PutAlike(T, PutAll(T, x, set), PutAll(F, y, set))
<1> DEFINE map   == MapOf(set)
           work  == WorkOf(T, set)
           workF == WorkOf(F, set)
           begin == After(map, -1)
           b     == LeafNext(DOMAIN T)
           Q     == Asks(work, begin, MapEnd)
           done  == CallsAbove(T, Depth)[PutCall(x, begin, MapEnd, work)]
           doneF == CallsAbove(F, Depth)[PutCall(y, begin, MapEnd, workF)]
           put   == PutAll(T, x, set)
           putF  == PutAll(F, y, set)
<1>1. /\ put.thrown = done.thrown /\ put.nodes = With(T, done.written) /\ put.built = done.built
      /\ putF.thrown = doneF.thrown /\ putF.built = doneF.built
  BY DEF PutAll, Stored, MapOf, WorkOf
<1>2. Called(T, F, 0, KeySpace, b, x, y, begin, MapEnd, work, workF)
  BY FirstCallsInStep
<1>3. Mirrors(T, F, CallsAbove(T, Depth), CallsAbove(F, Depth), 0)
  <2>1. Depth \in 0 .. Depth /\ Depth - Depth = 0
    BY DepthAssumption
  <2> QED  BY <2>1, CallsMirror
<1> HIDE DEF put, putF
<1>4. Mirrored(T, F, KeySpace, b, Q, work, done, doneF)
  BY <1>2, <1>3 DEF Mirrors
<1> HIDE DEF done, doneF, work, workF, begin, map, Q, b
<1>5. WroteHonestly(T, b + Cardinality(Fresh(Q)), work, done) /\ Running(T, work)
  BY <1>2, <1>4 DEF Mirrored, Called, InStep
<1>6. Honest(put.nodes) /\ Extends(put.nodes, T)
  BY <1>1, <1>5 DEF WroteHonestly, With, Extends
<1>7. ~done.thrown => ~doneF.thrown /\ SameBuilt(With(T, done.written), done.built, doneF.built)
  BY <1>4 DEF Mirrored, EndInStep
<1>8. PutAlike(T, put, putF)
  BY <1>1, <1>6, <1>7 DEF PutAlike, SameBuilt, SameKind
<1> QED  BY <1>8 DEF put, putF

---------------------------------------------------------------------------
(* Sequences of something or other                                         *)
IsSeq(s) == \E S : s \in Seq(S)

(* A sequence has a length, and its indices.                               *)
LEMMA SequencesHaveLengths ==
  ASSUME NEW s, IsSeq(s)
  PROVE  Len(s) \in Nat /\ DOMAIN s = 1 .. Len(s)
BY DEF IsSeq

(* Append leaves the others where they are.                                *)
LEMMA OneMoreInSequence ==
  ASSUME NEW s, IsSeq(s), NEW e
  PROVE  /\ IsSeq(Append(s, e)) /\ Len(Append(s, e)) = Len(s) + 1
         /\ Append(s, e)[Len(s) + 1] = e /\ \A i \in 1 .. Len(s) : Append(s, e)[i] = s[i]
<1>1. PICK S : s \in Seq(S)
  BY DEF IsSeq
<1>2. s \in Seq(S \cup {e})
  BY <1>1
<1>3. Append(s, e) \in Seq(S \cup {e})
  BY <1>2
<1> QED  BY <1>2, <1>3 DEF IsSeq

(* Sequences of two kinds, one after the other, are a sequence.            *)
LEMMA SequencesJoined ==
  ASSUME NEW s, IsSeq(s), NEW t, IsSeq(t)
  PROVE  IsSeq(s \o t)
<1>1. PICK S : s \in Seq(S)
  BY DEF IsSeq
<1>2. PICK R : t \in Seq(R)
  BY DEF IsSeq
<1>3. s \in Seq(S \cup R) /\ t \in Seq(S \cup R)
  BY <1>1, <1>2
<1>4. s \o t \in Seq(S \cup R)
  BY <1>3
<1> QED  BY <1>4 DEF IsSeq

(* The sequence of one, and that of none.                                  *)
LEMMA ShortSequences ==
  ASSUME NEW e
  PROVE  IsSeq(<<e>>) /\ IsSeq(<<>>)
<1>1. <<e>> \in Seq({e}) /\ <<>> \in Seq({e})
  OBVIOUS
<1> QED  BY <1>1 DEF IsSeq

---------------------------------------------------------------------------
(* Import: whatever a proof says, the nodes that are written are honest    *)

(* A node is written under the next id of its kind.                        *)
NodeAdded(T, w, id, node) ==
  /\ id \in Nat /\ id # Empty /\ (id < FirstInterior <=> IsLeaf(node))
  /\ DOMAIN w.nodes = DOMAIN T \cup {id} /\ Extends(w.nodes, T) /\ w.nodes[id] = node
  /\ w.built = Built(id, node)

(* WriteNode takes the next id of the kind; a leaf uses one of the ids b   *)
(* left for leaves.                                                        *)
LEMMA NodesAreAdded ==
  ASSUME NEW T, Honest(T), NEW b, RoomAbove(DOMAIN T, b), NEW node, IsLeaf(node) => b < FirstInterior
  PROVE  \E id : /\ NodeAdded(T, WriteNode(T, node), id, node)
                 /\ RoomAbove(DOMAIN T \cup {id}, IF IsLeaf(node) THEN b + 1 ELSE b)
<1> DEFINE id == NextId(DOMAIN T, IsLeaf(node))
           w  == WriteNode(T, node)
<1>1. DOMAIN T \in SUBSET Nat /\ Bounded(DOMAIN T) /\ Empty \notin DOMAIN T
  BY DEF Honest
<1>2. /\ id \in Nat /\ id # Empty /\ id \notin DOMAIN T /\ (id < FirstInterior <=> IsLeaf(node))
      /\ RoomAbove(DOMAIN T \cup {id}, IF IsLeaf(node) THEN b + 1 ELSE b)
  <2>1. CASE IsLeaf(node)
    <3>1. id = LeafNext(DOMAIN T)
      BY <2>1, TwoCounters
    <3> HIDE DEF id
    <3>2. /\ id \in Nat /\ id # Empty /\ id < FirstInterior /\ id \notin DOMAIN T
          /\ RoomAbove(DOMAIN T \cup {id}, b + 1)
      BY <1>1, <2>1, <3>1, NextLeafId
    <3> QED  BY <2>1, <3>2
  <2>2. CASE ~IsLeaf(node)
    <3>1. id = BranchNext(DOMAIN T)
      BY <2>2, TwoCounters
    <3> HIDE DEF id
    <3>2. id \in Nat /\ id # Empty /\ id >= FirstInterior /\ id \notin DOMAIN T
      BY <1>1, <3>1, NextBranchId
    <3>3. ~(id < FirstInterior) /\ RoomAbove(DOMAIN T \cup {id}, b)
      BY <3>2, FirstInteriorAssumption DEF RoomAbove
    <3> QED  BY <2>2, <3>2, <3>3
  <2> QED  BY <2>1, <2>2
<1>3. w = [nodes |-> With(T, Written(id, node)), built |-> Built(id, node)]
  BY DEF WriteNode
<1> HIDE DEF id, w
<1>4. DOMAIN Written(id, node) = {id} /\ Written(id, node)[id] = node
  BY DEF Written
<1>5. DOMAIN w.nodes = DOMAIN T \cup {id} /\ Extends(w.nodes, T) /\ w.nodes[id] = node
  <2> DEFINE V == Written(id, node)
  <2>1. DOMAIN V = {id} /\ V[id] = node /\ w.nodes = With(T, V)
    BY <1>3, <1>4
  <2> HIDE DEF V
  <2>2. DOMAIN w.nodes = DOMAIN T \cup {id} /\ Extends(w.nodes, T)
    BY <2>1, TablesAdd
  <2>3. w.nodes[id] = node
    <3>1. id \in DOMAIN V /\ id \notin DOMAIN T /\ V[id] = node
      BY <1>2, <2>1
    <3>2. With(T, V)[id] = V[id]
      BY <3>1 DEF With
    <3> QED  BY <2>1, <3>1, <3>2
  <2> QED  BY <2>2, <2>3
<1>6. NodeAdded(T, w, id, node)
  BY <1>2, <1>3, <1>5 DEF NodeAdded
<1> QED  BY <1>2, <1>6 DEF w

(* What is written stands in an honest table, and leaves stay below b.     *)
Adds(T, w, b) ==
  Honest(w.nodes) /\ Extends(w.nodes, T) /\ InTable(w.nodes, w.built) /\ RoomAbove(DOMAIN w.nodes, b)

(* An honest node among honest ones: the table stays honest.               *)
LEMMA AddedHonestly ==
  ASSUME NEW T, Honest(T), NEW w, NEW id, NEW node, NodeAdded(T, w, id, node),
         HonestNode(w.nodes, id), NEW b, RoomAbove(DOMAIN T \cup {id}, b)
  PROVE  Adds(T, w, b) /\ w.built.hash = node.hash
<1>1. Honest(w.nodes)
  BY HonestWithOneMore DEF NodeAdded
<1>2. InTable(w.nodes, w.built)
  BY DEF NodeAdded, InTable, Reuse, ParsedNode, Built
<1>3. w.built.hash = node.hash
  BY DEF NodeAdded, Built
<1> QED  BY <1>1, <1>2, <1>3 DEF Adds, NodeAdded

(* Leaves, with their values or without.                                   *)
LEMMA LeavesAreAdded ==
  ASSUME NEW T, Honest(T), NEW b, RoomAbove(DOMAIN T, b), b < FirstInterior, NEW k, NEW v
  PROVE  Adds(T, NewLeaf(T, k, v), b + 1) /\ Adds(T, NewWitnessLeaf(T, k, v), b + 1)
<1>1. ASSUME NEW node, node.type \in {"Leaf", "WitnessLeaf"}, node.left = Empty, node.right = Empty,
             node.hash = LeafHash(node.key, node.val)
      PROVE  Adds(T, WriteNode(T, node), b + 1)
  <2>1. IsLeaf(node)
    BY <1>1 DEF IsLeaf
  <2>2. PICK id : NodeAdded(T, WriteNode(T, node), id, node) /\ RoomAbove(DOMAIN T \cup {id}, b + 1)
    BY <2>1, NodesAreAdded
  <2> DEFINE w == WriteNode(T, node)
  <2>3. NodeAdded(T, w, id, node)
    BY <2>2
  <2> HIDE DEF w
  <2>4. HonestNode(w.nodes, id)
    BY <1>1, <2>1, <2>3 DEF NodeAdded, HonestNode
  <2>5. Adds(T, w, b + 1)
    BY <2>2, <2>3, <2>4, AddedHonestly
  <2> QED  BY <2>5 DEF w
<1>2. Adds(T, NewLeaf(T, k, v), b + 1)
  <2> DEFINE node == LeafNode(k, v)
  <2>1. /\ node.type \in {"Leaf", "WitnessLeaf"} /\ node.left = Empty /\ node.right = Empty
        /\ node.hash = LeafHash(node.key, node.val)
    BY DEF LeafNode, EmptyNode
  <2>2. NewLeaf(T, k, v) = WriteNode(T, node)
    BY DEF NewLeaf
  <2> HIDE DEF node
  <2> QED  BY <1>1, <2>1, <2>2
<1>3. Adds(T, NewWitnessLeaf(T, k, v), b + 1)
  <2> DEFINE node == [EmptyNode EXCEPT !.type = "WitnessLeaf", !.hash = LeafHash(k, v), !.key = k, !.val = v]
  <2>1. /\ node.type \in {"Leaf", "WitnessLeaf"} /\ node.left = Empty /\ node.right = Empty
        /\ node.hash = LeafHash(node.key, node.val)
    BY DEF EmptyNode
  <2>2. NewWitnessLeaf(T, k, v) = WriteNode(T, node)
    BY DEF NewWitnessLeaf
  <2> HIDE DEF node
  <2> QED  BY <1>1, <2>1, <2>2
<1> QED  BY <1>2, <1>3

(* Witnesses, and branches over nodes that are there.                      *)
LEMMA WitnessesAreAdded ==
  ASSUME NEW T, Honest(T), NEW b, RoomAbove(DOMAIN T, b), NEW hash
  PROVE  Adds(T, NewWitness(T, hash), b)
<1> DEFINE node == [EmptyNode EXCEPT !.type = "Witness", !.hash = hash]
           w    == NewWitness(T, hash)
<1>1. node.type = "Witness" /\ node.left = Empty /\ node.right = Empty /\ ~IsLeaf(node)
  BY DEF EmptyNode, IsLeaf
<1>2. w = WriteNode(T, node)
  BY DEF NewWitness
<1> HIDE DEF node, w
<1>3. PICK id : NodeAdded(T, w, id, node) /\ RoomAbove(DOMAIN T \cup {id}, b)
  BY <1>1, <1>2, NodesAreAdded
<1>4. HonestNode(w.nodes, id)
  BY <1>1, <1>3 DEF NodeAdded, HonestNode
<1>5. Adds(T, w, b)
  BY <1>3, <1>4, AddedHonestly
<1> QED  BY <1>5 DEF w

(* A branch has the hash of the hashes of its children.                    *)
LEMMA BranchesAreAdded ==
  ASSUME NEW T, Honest(T), NEW b, RoomAbove(DOMAIN T, b), NEW l, InTable(T, l), NEW r, InTable(T, r)
  PROVE  Adds(T, NewBranch(T, l, r), b) /\ NewBranch(T, l, r).built.hash = BranchHash(l.hash, r.hash)
<1> DEFINE node == BranchNode(l, r)
           w    == NewBranch(T, l, r)
<1>1. ~IsLeaf(node) /\ node.hash = BranchHash(l.hash, r.hash)
  BY DEF BranchNode, EmptyNode, IsLeaf
<1>2. w = WriteNode(T, node)
  BY DEF NewBranch
<1> HIDE DEF w
<1>3. PICK id : NodeAdded(T, w, id, node) /\ RoomAbove(DOMAIN T \cup {id}, b)
  BY <1>1, <1>2, NodesAreAdded
<1>4. HonestNode(w.nodes, id)
  <2>1. id \in DOMAIN w.nodes /\ id \in Nat /\ id >= FirstInterior /\ Extends(w.nodes, T)
    BY <1>1, <1>3, FirstInteriorAssumption DEF NodeAdded
  <2>2. w.nodes[id] = BranchNode(l, r)
    BY <1>3 DEF NodeAdded
  <2> QED  BY <2>1, <2>2, BranchesAreHonest
<1> HIDE DEF node
<1>5. Adds(T, w, b) /\ w.built.hash = node.hash
  BY <1>3, <1>4, AddedHonestly
<1> QED  BY <1>1, <1>5 DEF w

(* What stood in a table stands in a larger one.                           *)
LEMMA InTableStays ==
  ASSUME NEW T, NEW U, Extends(U, T), NEW built, InTable(T, built)
  PROVE  InTable(U, built)
BY DEF InTable, Extends, Reuse, ParsedNode

(* Larger and larger tables.                                               *)
LEMMA ExtendsFurther ==
  ASSUME NEW T, NEW U, Extends(U, T), NEW V, Extends(V, U)
  PROVE  Extends(V, T)
BY DEF Extends

(* The strands that have been read, and what they were made into.          *)
ReadOK(T, b, read) ==
  /\ read = [nodes |-> read.nodes, accums |-> read.accums]
  /\ Honest(read.nodes) /\ Extends(read.nodes, T) /\ RoomAbove(DOMAIN read.nodes, b)
  /\ IsSeq(read.accums)
  /\ \A i \in DOMAIN read.accums : InTable(read.nodes, read.accums[i].built)

(* Each strand is made into an honest node, one id for leaves at most.     *)
LEMMA StrandIsRead ==
  ASSUME NEW T, NEW b, b < FirstInterior, NEW read, ReadOK(T, b, read), NEW strand
  PROVE  ReadOK(T, b + 1, ImportStrand(read, strand))
<1> DEFINE w == CASE strand.type = "Leaf"        -> NewLeaf(read.nodes, strand.key, strand.val)
                  [] strand.type = "WitnessLeaf" -> NewWitnessLeaf(read.nodes, strand.key, strand.val)
                  [] strand.type = "Witness"     -> NewWitness(read.nodes, strand.val)
                  [] OTHER                       -> [nodes |-> read.nodes, built |-> BuiltEmpty]
           accum == [depth |-> strand.depth, key |-> strand.key, built |-> w.built]
           next  == ImportStrand(read, strand)
<1>1. /\ Honest(read.nodes) /\ Extends(read.nodes, T) /\ RoomAbove(DOMAIN read.nodes, b)
      /\ IsSeq(read.accums) /\ \A i \in DOMAIN read.accums : InTable(read.nodes, read.accums[i].built)
  BY DEF ReadOK
<1>2. b + 1 \in Nat \ {0} /\ \A U : Honest(U) /\ RoomAbove(DOMAIN U, b) => RoomAbove(DOMAIN U, b + 1)
  <2>1. b \in Nat
    BY <1>1 DEF RoomAbove
  <2>2. ASSUME NEW U, Honest(U), RoomAbove(DOMAIN U, b)
        PROVE  RoomAbove(DOMAIN U, b + 1)
    <3>1. \A x \in DOMAIN U : x \in Nat
      BY <2>2 DEF Honest
    <3> QED  BY <2>1, <2>2, <3>1 DEF RoomAbove
  <2> QED  BY <2>1, <2>2
<1>3. Adds(read.nodes, w, b + 1)
  <2>1. Adds(read.nodes, NewLeaf(read.nodes, strand.key, strand.val), b + 1)
        /\ Adds(read.nodes, NewWitnessLeaf(read.nodes, strand.key, strand.val), b + 1)
    BY <1>1, LeavesAreAdded
  <2>2. Adds(read.nodes, NewWitness(read.nodes, strand.val), b + 1)
    BY <1>1, <1>2, WitnessesAreAdded DEF Adds
  <2>3. Adds(read.nodes, [nodes |-> read.nodes, built |-> BuiltEmpty], b + 1)
    <3>1. InTable(read.nodes, BuiltEmpty)
      BY DEF InTable, Reuse, ParsedNode, BuiltEmpty, Built, EmptyNode, Empty
    <3> QED  BY <1>1, <1>2, <3>1 DEF Adds, Extends
  <2> QED  BY <2>1, <2>2, <2>3
<1>4. next = [nodes |-> w.nodes, accums |-> Append(read.accums, accum)]
  BY DEF ImportStrand
<1> HIDE DEF next, w
<1>5. /\ IsSeq(next.accums) /\ Len(next.accums) = Len(read.accums) + 1
      /\ next.accums[Len(read.accums) + 1] = accum /\ \A i \in 1 .. Len(read.accums) : next.accums[i] = read.accums[i]
  BY <1>1, <1>4, OneMoreInSequence
<1>6. ASSUME NEW i \in DOMAIN next.accums
      PROVE  InTable(next.nodes, next.accums[i].built)
  <2>1. Len(read.accums) \in Nat /\ i \in 1 .. Len(read.accums) + 1 /\ DOMAIN read.accums = 1 .. Len(read.accums)
    BY <1>1, <1>5, SequencesHaveLengths
  <2>2. CASE i = Len(read.accums) + 1
    BY <1>3, <1>4, <1>5, <2>2 DEF Adds
  <2>3. CASE i \in 1 .. Len(read.accums)
    <3>1. InTable(read.nodes, read.accums[i].built)
      BY <1>1, <2>1, <2>3
    <3> QED  BY <1>3, <1>4, <1>5, <2>3, <3>1, InTableStays DEF Adds
  <2> QED  BY <2>1, <2>2, <2>3
<1>7. Honest(next.nodes) /\ Extends(next.nodes, T) /\ RoomAbove(DOMAIN next.nodes, b + 1)
  BY <1>1, <1>3, <1>4, ExtendsFurther DEF Adds
<1>8. next = [nodes |-> next.nodes, accums |-> next.accums]
  BY <1>4
<1>9. ReadOK(T, b + 1, next)
  BY <1>5, <1>6, <1>7, <1>8 DEF ReadOK
<1> QED  BY <1>9 DEF next

ReadsOf == INSTANCE Recursion WITH First <- LAMBDA p : [nodes |-> p[1], accums |-> <<>>],
                                   Step  <- LAMBDA p, n, x : ImportStrand(x, p[2][n])

(* All strands of a proof.                                                 *)
LEMMA StrandsAreRead ==
  ASSUME NEW T, Honest(T), NEW strands, IsSeq(strands), NEW b, RoomAbove(DOMAIN T, b),
         b + Len(strands) <= FirstInterior
  PROVE  ReadOK(T, b + Len(strands), ReadStrands(T, strands))
<1> DEFINE r == ReadsOf!Recursive(<<T, strands>>)
           S == {n \in Nat : n <= Len(strands) => ReadOK(T, b + n, r[n])}
<1>1. ReadStrands(T, strands) = r[Len(strands)]
  BY DEF ReadStrands, ReadsOf!Recursive
<1>2. r[0] = [nodes |-> T, accums |-> <<>>] /\ \A n \in Nat : r[n + 1] = ImportStrand(r[n], strands[n + 1])
  BY ReadsOf!RecursionFollows
<1>3. b \in Nat /\ Len(strands) \in Nat /\ FirstInterior \in Nat
  BY SequencesHaveLengths, FirstInteriorAssumption DEF RoomAbove
<1> HIDE DEF r
<1>4. 0 \in S
  <2>1. IsSeq(<<>>) /\ DOMAIN <<>> = {} /\ Extends(T, T) /\ b + 0 = b
    <3>1. IsSeq(<<>>)
      BY ShortSequences
    <3> QED  BY <1>3, <3>1 DEF Extends
  <2>2. ReadOK(T, b, [nodes |-> T, accums |-> <<>>])
    BY <2>1 DEF ReadOK
  <2> QED  BY <1>2, <2>1, <2>2
<1>5. ASSUME NEW n \in S
      PROVE  n + 1 \in S
  <2> SUFFICES ASSUME n + 1 <= Len(strands)
               PROVE  ReadOK(T, b + (n + 1), r[n + 1])
    OBVIOUS
  <2>1. n \in Nat /\ n <= Len(strands) /\ b + n < FirstInterior /\ (b + n) + 1 = b + (n + 1)
    BY <1>3
  <2>2. ReadOK(T, b + n, r[n])
    BY <2>1
  <2>3. ReadOK(T, (b + n) + 1, ImportStrand(r[n], strands[n + 1]))
    BY <2>1, <2>2, StrandIsRead
  <2> QED  BY <1>2, <2>1, <2>3
<1>6. S = Nat
  <2>1. S \in SUBSET Nat
    OBVIOUS
  <2> HIDE DEF S
  <2> QED  BY <1>4, <1>5, <2>1, AllNumbers
<1> QED  BY <1>1, <1>3, <1>6

(* Commands are of three kinds.                                            *)
Ops == {"HashProvided", "HashEmpty", "Merge"}

CmdSeq(s) == \E S : s \in Seq(S) /\ \A c \in S : c.op \in Ops

(* Their sequences can be indexed and joined.                              *)
LEMMA CmdSeqs ==
  ASSUME NEW s, CmdSeq(s)
  PROVE  /\ IsSeq(s) /\ \A n \in 1 .. Len(s) : s[n].op \in Ops
         /\ \A t : CmdSeq(t) => CmdSeq(s \o t)
         /\ \A c : c.op \in Ops => CmdSeq(Append(s, c))
<1>1. PICK S : s \in Seq(S) /\ \A c \in S : c.op \in Ops
  BY DEF CmdSeq
<1>2. IsSeq(s) /\ \A n \in 1 .. Len(s) : s[n].op \in Ops
  BY <1>1 DEF IsSeq
<1>3. ASSUME NEW t, CmdSeq(t)
      PROVE  CmdSeq(s \o t)
  <2>1. PICK R : t \in Seq(R) /\ \A c \in R : c.op \in Ops
    BY <1>3 DEF CmdSeq
  <2>2. s \in Seq(S \cup R) /\ t \in Seq(S \cup R) /\ \A c \in S \cup R : c.op \in Ops
    BY <1>1, <2>1
  <2>3. s \o t \in Seq(S \cup R)
    BY <2>2
  <2> QED  BY <2>2, <2>3 DEF CmdSeq
<1>4. ASSUME NEW c, c.op \in Ops
      PROVE  CmdSeq(Append(s, c))
  <2>1. s \in Seq(S \cup {c}) /\ \A e \in S \cup {c} : e.op \in Ops
    BY <1>1, <1>4
  <2>2. Append(s, c) \in Seq(S \cup {c})
    BY <2>1
  <2> QED  BY <2>1, <2>2 DEF CmdSeq
<1> QED  BY <1>2, <1>3, <1>4

(* While the commands are run.                                             *)
RunOK(T, b, run) ==
  /\ run = [thrown |-> run.thrown, nodes |-> run.nodes, live |-> run.live, accums |-> run.accums]
  /\ Honest(run.nodes) /\ Extends(run.nodes, T) /\ RoomAbove(DOMAIN run.nodes, b)
  /\ run.live \subseteq DOMAIN run.accums
  /\ \A i \in DOMAIN run.accums : InTable(run.nodes, run.accums[i].built)

(* Each command, whatever accums it joins, makes honest branches or        *)
(* throws.                                                                 *)
LEMMA CmdIsRun ==
  ASSUME NEW T, NEW b, NEW run, RunOK(T, b, run), NEW cmd, cmd.op \in Ops
  PROVE  RunOK(T, b, RunCmd(run, cmd))
<1> DEFINE accum   == run.accums[cmd.at]
           next    == NextLive(run.live, cmd.at)
           merge   == cmd.op = "Merge"
           sibling == CASE cmd.op = "HashProvided" -> NewWitness(run.nodes, cmd.hash)
                        [] cmd.op = "HashEmpty"    -> [nodes |-> run.nodes, built |-> BuiltEmpty]
                        [] merge                   -> [nodes |-> run.nodes, built |-> run.accums[next].built]
           branch  == IF merge \/ GetBit(accum.key, accum.depth - 1) = 0
                      THEN NewBranch(sibling.nodes, accum.built, sibling.built)
                      ELSE NewBranch(sibling.nodes, sibling.built, accum.built)
           stops   == \/ run.thrown
                      \/ cmd.at \notin run.live
                      \/ accum.depth = 0
                      \/ merge /\ (~HasNext(run.live, cmd.at) \/ accum.depth # run.accums[next].depth)
           up      == [run.accums EXCEPT ![cmd.at] =
                        [depth |-> @.depth - 1, key |-> @.key, built |-> branch.built]]
           done    == [thrown |-> FALSE, nodes |-> branch.nodes,
                       live |-> IF merge THEN run.live \ {next} ELSE run.live, accums |-> up]
<1>1. /\ Honest(run.nodes) /\ Extends(run.nodes, T) /\ RoomAbove(DOMAIN run.nodes, b)
      /\ run.live \subseteq DOMAIN run.accums
      /\ \A i \in DOMAIN run.accums : InTable(run.nodes, run.accums[i].built)
  BY DEF RunOK
<1>2. RunCmd(run, cmd) = IF stops THEN [run EXCEPT !.thrown = TRUE] ELSE done
  BY DEF RunCmd
<1>3. CASE stops
  <2>1. RunCmd(run, cmd) = [thrown |-> TRUE, nodes |-> run.nodes, live |-> run.live, accums |-> run.accums]
    BY <1>2, <1>3 DEF RunOK
  <2> HIDE DEF stops
  <2> QED  BY <1>1, <2>1 DEF RunOK
<1>4. CASE ~stops
  <2>1. cmd.at \in DOMAIN run.accums /\ (merge => next \in DOMAIN run.accums)
    BY <1>1, <1>4 DEF HasNext
  <2>2. RunCmd(run, cmd) = done
    BY <1>2, <1>4
  <2> HIDE DEF stops
  <2>3. Adds(run.nodes, sibling, b)
    <3>1. CASE cmd.op = "HashProvided"
      <4>1. sibling = NewWitness(run.nodes, cmd.hash)
        BY <3>1
      <4> HIDE DEF sibling
      <4> QED  BY <1>1, <4>1, WitnessesAreAdded
    <3>2. CASE cmd.op = "HashEmpty"
      <4>1. InTable(run.nodes, BuiltEmpty)
        BY DEF InTable, Reuse, ParsedNode, BuiltEmpty, Built, EmptyNode, Empty
      <4>2. sibling.nodes = run.nodes /\ sibling.built = BuiltEmpty
        BY <3>2
      <4> HIDE DEF sibling
      <4> QED  BY <1>1, <4>1, <4>2 DEF Adds, Extends
    <3>3. CASE merge
      <4>1. sibling.nodes = run.nodes /\ sibling.built = run.accums[next].built
        BY <3>3
      <4> HIDE DEF sibling
      <4>2. InTable(run.nodes, run.accums[next].built)
        BY <1>1, <2>1, <3>3
      <4> QED  BY <1>1, <4>1, <4>2 DEF Adds, Extends
    <3> QED  BY <3>1, <3>2, <3>3 DEF Ops
  <2> DEFINE mid == sibling.nodes
  <2>4. /\ Honest(mid) /\ Extends(mid, run.nodes) /\ RoomAbove(DOMAIN mid, b)
        /\ InTable(mid, sibling.built) /\ InTable(mid, accum.built)
    <3> HIDE DEF sibling
    <3>1. InTable(run.nodes, accum.built)
      BY <1>1, <2>1
    <3> QED  BY <2>3, <3>1, InTableStays DEF Adds
  <2>5. Adds(mid, branch, b)
    <3> DEFINE l == accum.built
               r == sibling.built
    <3>1. InTable(mid, l) /\ InTable(mid, r)
      BY <2>4
    <3>2. branch = NewBranch(mid, l, r) \/ branch = NewBranch(mid, r, l)
      OBVIOUS
    <3> HIDE DEF l, r, mid, branch
    <3>3. Adds(mid, NewBranch(mid, l, r), b) /\ Adds(mid, NewBranch(mid, r, l), b)
      BY <2>4, <3>1, BranchesAreAdded
    <3> QED  BY <3>2, <3>3
  <2> HIDE DEF branch, mid, sibling
  <2>6. Honest(branch.nodes) /\ Extends(branch.nodes, run.nodes) /\ RoomAbove(DOMAIN branch.nodes, b)
        /\ InTable(branch.nodes, branch.built) /\ Extends(branch.nodes, T)
    <3>1. Extends(branch.nodes, run.nodes)
      BY <2>4, <2>5, ExtendsFurther DEF Adds
    <3> QED  BY <1>1, <2>5, <3>1, ExtendsFurther DEF Adds
  <2>7. DOMAIN up = DOMAIN run.accums /\ up[cmd.at].built = branch.built
        /\ \A i \in DOMAIN up : i # cmd.at => up[i] = run.accums[i]
    BY <2>1
  <2> HIDE DEF up
  <2>8. \A i \in DOMAIN up : InTable(branch.nodes, up[i].built)
    BY <1>1, <2>6, <2>7, InTableStays
  <2>9. RunOK(T, b, done)
    BY <1>1, <2>6, <2>7, <2>8 DEF RunOK
  <2> QED  BY <2>2, <2>9
<1> QED  BY <1>3, <1>4

RunsOf == INSTANCE Recursion WITH First <- LAMBDA p : p[1],
                                  Step  <- LAMBDA p, n, x : RunCmd(x, p[2][n])

(* All commands of a proof.                                                *)
LEMMA CmdsAreRun ==
  ASSUME NEW T, NEW b, NEW start, RunOK(T, b, start), NEW cmds, CmdSeq(cmds)
  PROVE  RunOK(T, b, RunCmds(start, cmds))
<1> DEFINE r == RunsOf!Recursive(<<start, cmds>>)
           S == {n \in Nat : n <= Len(cmds) => RunOK(T, b, r[n])}
<1>1. RunCmds(start, cmds) = r[Len(cmds)]
  BY DEF RunCmds, RunsOf!Recursive
<1>2. r[0] = start /\ \A n \in Nat : r[n + 1] = RunCmd(r[n], cmds[n + 1])
  BY RunsOf!RecursionFollows
<1>3. Len(cmds) \in Nat /\ \A n \in 1 .. Len(cmds) : cmds[n].op \in Ops
  BY CmdSeqs, SequencesHaveLengths
<1> HIDE DEF r
<1>4. 0 \in S
  BY <1>2
<1>5. ASSUME NEW n \in S
      PROVE  n + 1 \in S
  <2> SUFFICES ASSUME n + 1 <= Len(cmds)
               PROVE  RunOK(T, b, r[n + 1])
    OBVIOUS
  <2>1. n \in Nat /\ n <= Len(cmds) /\ n + 1 \in 1 .. Len(cmds)
    BY <1>3
  <2>2. RunOK(T, b, r[n])
    BY <2>1
  <2>3. RunOK(T, b, RunCmd(r[n], cmds[n + 1]))
    BY <1>3, <2>1, <2>2, CmdIsRun
  <2> QED  BY <1>2, <2>1, <2>3
<1>6. S = Nat
  <2>1. S \in SUBSET Nat
    OBVIOUS
  <2> HIDE DEF S
  <2> QED  BY <1>4, <1>5, <2>1, AllNumbers
<1> QED  BY <1>1, <1>3, <1>6

(* What an import leaves behind.                                           *)
Imported(T, result) ==
  /\ Honest(result.nodes) /\ Extends(result.nodes, T)
  /\ ~result.thrown => InTable(result.nodes, result.built)

(* importProofInternal: whatever the proof says, the nodes it writes are   *)
(* honest and what it returns is one of them.                              *)
LEMMA ImportIsHonest ==
  ASSUME NEW T, Honest(T), NEW proof, IsSeq(proof.strands), CmdSeq(proof.cmds), NEW expectedDepth,
         NEW b, RoomAbove(DOMAIN T, b), b + Len(proof.strands) <= FirstInterior
  PROVE  Imported(T, Import(T, proof, expectedDepth))
<1> DEFINE read  == ReadStrands(T, proof.strands)
           start == [thrown |-> FALSE, nodes |-> read.nodes, accums |-> read.accums, live |-> DOMAIN read.accums]
           run   == RunCmds(start, proof.cmds)
           result == Import(T, proof, expectedDepth)
           c     == b + Len(proof.strands)
<1>1. ReadOK(T, c, read)
  BY StrandsAreRead
<1> HIDE DEF read, c
<1>2. RunOK(T, c, start)
  BY <1>1 DEF ReadOK, RunOK
<1>3. RunOK(T, c, run)
  <2> HIDE DEF start
  <2> QED  BY <1>2, CmdsAreRun
<1>4. \/ result = [thrown |-> TRUE, nodes |-> run.nodes, built |-> BuiltEmpty]
      \/ run.live = {1} /\ result = [thrown |-> FALSE, nodes |-> run.nodes, built |-> run.accums[1].built]
  BY DEF Import, read
<1> HIDE DEF run, result
<1>5. Honest(run.nodes) /\ Extends(run.nodes, T) /\ (run.live = {1} => InTable(run.nodes, run.accums[1].built))
  BY <1>3 DEF RunOK
<1>6. Imported(T, result)
  BY <1>4, <1>5 DEF Imported
<1> QED  BY <1>6 DEF result

---------------------------------------------------------------------------
(* Export: strands and commands are sequences of them                      *)

(* What comes from a node of a full tree.                                  *)
Exports(F, deeper, d) ==
  \A id, parent, keys :
    SubOK(F, id, d) /\ ExportCall(id, parent, keys) \in ExportCalls => IsSeq(deeper[ExportCall(id, parent, keys)])

(* A node and its children are asked for by their ids.                     *)
LEMMA ChildrenHaveIds ==
  ASSUME NEW F, DOMAIN F \in SUBSET Nat, NEW d \in 0 .. Depth, NEW id, SubOK(F, id, d)
  PROVE  id \in Nat
<1>1. id = Empty \/ id \in DOMAIN F
  BY KindsOfTrees DEF StoredLeaf, StoredBranch
<1> QED  BY <1>1 DEF Empty

(* exportProofAux, of a node at level d.                                   *)
LEMMA ExportAuxExports ==
  ASSUME NEW F, DOMAIN F \in SUBSET Nat, NEW d \in 0 .. Depth, NEW deeper, d < Depth => Exports(F, deeper, d + 1),
         NEW id, NEW parent, NEW keys, SubOK(F, id, d), ExportCall(id, parent, keys) \in ExportCalls
  PROVE  IsSeq(ExportAux(Frame(F, d, deeper), ExportCall(id, parent, keys)))
<1> DEFINE frame == Frame(F, d, deeper)
           call  == ExportCall(id, parent, keys)
           node  == ParsedNode(F, id)
           right == {k \in keys : GetBit(k, d) = 1}
           left  == keys \ right
           out   == ExportAux(frame, call)
<1>1. frame.nodes = F /\ frame.depth = d /\ frame.deeper = deeper
  BY DEF Frame
<1>2. call.id = id /\ call.parent = parent /\ call.keys = keys
  BY DEF ExportCall
<1>3. id \in Nat /\ parent \in Nat /\ keys \in SUBSET KeySpace
  BY <1>2 DEF ExportCalls
<1>4. \A e : IsSeq(<<e>>) /\ IsSeq(<<>>)
  BY ShortSequences
<1>5. CASE keys = {}
  <2>1. out = <<>>
    BY <1>1, <1>2, <1>5 DEF ExportAux
  <2> HIDE DEF out
  <2> QED  BY <1>4, <2>1 DEF call, frame, out
<1>6. CASE keys # {}
  <2>1. CASE id = Empty /\ node = EmptyNode
    <3>1. node.type = "Empty" /\ ~IsLeaf(node) /\ ~IsBranch(node)
      BY <2>1 DEF EmptyNode, IsLeaf, IsBranch
    <3>2. \E e : out = <<e>>
      BY <1>1, <1>2, <1>6, <3>1 DEF ExportAux
    <3> HIDE DEF out
    <3> QED  BY <1>4, <3>2 DEF out, call, frame
  <2>2. CASE IsLeaf(node) /\ node.type = "Leaf"
    <3>1. node.type # "Empty" /\ ~IsBranch(node) /\ node.type # "Witness" /\ node.type # "WitnessLeaf"
      BY <2>2 DEF IsLeaf, IsBranch
    <3>2. \E e : out = <<e>>
      <4>1. CASE node.key \in keys
        BY <1>1, <1>2, <1>6, <2>2, <3>1, <4>1 DEF ExportAux, ExportLeaf
      <4>2. CASE node.key \notin keys
        BY <1>1, <1>2, <1>6, <2>2, <3>1, <4>2 DEF ExportAux, ExportLeaf
      <4> QED  BY <4>1, <4>2
    <3> HIDE DEF out
    <3> QED  BY <1>4, <3>2 DEF out, call, frame
  <2>3. CASE /\ id # Empty /\ node = F[id] /\ IsBranch(node) /\ ~IsLeaf(node) /\ d \in 0 .. Depth - 1
             /\ SubOK(F, F[id].left, d + 1) /\ SubOK(F, F[id].right, d + 1)
    <3>1. node.type # "Empty" /\ node.type # "Witness" /\ node.type # "WitnessLeaf" /\ node.type # "Leaf"
      BY <2>3 DEF IsBranch
    <3>2. out = ExportBelow(frame, id, keys)
      BY <1>1, <1>2, <1>6, <2>3, <3>1 DEF ExportAux
    <3>3. Exports(F, deeper, d + 1) /\ d + 1 \in 0 .. Depth
      BY <2>3, DepthAssumption
    <3>4. F[id].left \in Nat /\ F[id].right \in Nat
      BY <2>3, <3>3, ChildrenHaveIds
    <3>5. /\ ExportCall(F[id].left, id, left) \in ExportCalls
          /\ ExportCall(F[id].right, id, right) \in ExportCalls
      BY <1>3, <3>4 DEF ExportCall, ExportCalls
    <3>6. /\ IsSeq(deeper[ExportCall(F[id].left, id, left)])
          /\ IsSeq(deeper[ExportCall(F[id].right, id, right)])
      BY <2>3, <3>3, <3>5 DEF Exports
    <3> DEFINE one == IF F[id].left # Empty \/ right = {} THEN deeper[ExportCall(F[id].left, id, left)] ELSE <<>>
               two == IF F[id].right # Empty \/ left = {} THEN deeper[ExportCall(F[id].right, id, right)] ELSE <<>>
    <3>7. IsSeq(one) /\ IsSeq(two)
      BY <1>4, <3>6
    <3>8. ExportBelow(frame, id, keys) = one \o two
      BY <1>1 DEF ExportBelow
    <3> HIDE DEF one, two, out
    <3>9. IsSeq(out)
      BY <3>2, <3>7, <3>8, SequencesJoined
    <3> QED  BY <3>9 DEF out, call, frame
  <2>4. (node = EmptyNode /\ id = Empty) \/ (IsLeaf(node) /\ node.type = "Leaf")
        \/ (/\ id # Empty /\ node = F[id] /\ IsBranch(node) /\ ~IsLeaf(node) /\ d \in 0 .. Depth - 1
            /\ SubOK(F, F[id].left, d + 1) /\ SubOK(F, F[id].right, d + 1))
    BY KindsOfTrees DEF StoredLeaf
  <2> QED  BY <2>1, <2>2, <2>3, <2>4
<1> QED  BY <1>5, <1>6

ExportsLevels == INSTANCE Recursion WITH First <- LAMBDA p : ExportsOf(Frame(p, Depth, NoTable)),
                                         Step  <- LAMBDA p, n, x : ExportsOf(Frame(p, Depth - n, x))

(* Frame by frame.                                                         *)
LEMMA ExportsOfExport ==
  ASSUME NEW F, DOMAIN F \in SUBSET Nat, NEW d \in 0 .. Depth, NEW deeper, d < Depth => Exports(F, deeper, d + 1)
  PROVE  Exports(F, ExportsOf(Frame(F, d, deeper)), d)
<1> SUFFICES ASSUME NEW id, NEW parent, NEW keys, SubOK(F, id, d), ExportCall(id, parent, keys) \in ExportCalls
             PROVE  IsSeq(ExportsOf(Frame(F, d, deeper))[ExportCall(id, parent, keys)])
  BY DEF Exports
<1>1. ExportsOf(Frame(F, d, deeper))[ExportCall(id, parent, keys)]
        = ExportAux(Frame(F, d, deeper), ExportCall(id, parent, keys))
  BY DEF ExportsOf
<1>2. IsSeq(ExportAux(Frame(F, d, deeper), ExportCall(id, parent, keys)))
  BY ExportAuxExports
<1> QED  BY <1>1, <1>2

(* From level d + 1 to level d, down to the root.                          *)
LEMMA AllLevelsExport ==
  ASSUME NEW F, DOMAIN F \in SUBSET Nat
  PROVE  Exports(F, ExportsAbove(F, Depth), 0)
<1> DEFINE r == ExportsLevels!Recursive(F)
           S == {n \in Nat : n <= Depth => Exports(F, r[n], Depth - n)}
<1>1. Depth \in Nat /\ ExportsAbove(F, Depth) = r[Depth]
  BY DepthAssumption DEF ExportsAbove, ExportsLevels!Recursive
<1>2. /\ r[0] = ExportsOf(Frame(F, Depth, NoTable))
      /\ \A n \in Nat : r[n + 1] = ExportsOf(Frame(F, Depth - (n + 1), r[n]))
  BY ExportsLevels!RecursionFollows
<1> HIDE DEF r
<1>3. 0 \in S
  <2>1. Depth \in 0 .. Depth /\ ~(Depth < Depth) /\ Depth - 0 = Depth
    BY <1>1
  <2>2. Exports(F, ExportsOf(Frame(F, Depth, NoTable)), Depth)
    BY <2>1, ExportsOfExport
  <2> QED  BY <1>2, <2>1, <2>2
<1>4. ASSUME NEW n \in S
      PROVE  n + 1 \in S
  <2> SUFFICES ASSUME n + 1 <= Depth
               PROVE  Exports(F, r[n + 1], Depth - (n + 1))
    OBVIOUS
  <2>1. n \in Nat /\ n <= Depth /\ Depth - (n + 1) \in 0 .. Depth /\ (Depth - (n + 1)) + 1 = Depth - n
    BY <1>1
  <2>2. Exports(F, r[n], (Depth - (n + 1)) + 1)
    BY <2>1
  <2>3. Exports(F, ExportsOf(Frame(F, Depth - (n + 1), r[n])), Depth - (n + 1))
    BY <2>1, <2>2, ExportsOfExport
  <2> QED  BY <1>2, <2>1, <2>3
<1>5. S = Nat
  <2>1. S \in SUBSET Nat
    OBVIOUS
  <2> HIDE DEF S
  <2> QED  BY <1>3, <1>4, <2>1, AllNumbers
<1>6. Depth - Depth = 0
  BY <1>1
<1> QED  BY <1>1, <1>5, <1>6

(* The strands for a set of keys.                                          *)
LEMMA ItemsAreASequence ==
  ASSUME NEW F, DOMAIN F \in SUBSET Nat, NEW root, SubOK(F, root, 0), NEW keys \in SUBSET KeySpace
  PROVE  IsSeq(ItemsOf(F, root, keys))
<1>1. root \in Nat
  <2>1. 0 \in 0 .. Depth
    BY DepthAssumption
  <2> QED  BY <2>1, ChildrenHaveIds
<1>2. ExportCall(root, Empty, keys) \in ExportCalls
  BY <1>1 DEF ExportCall, ExportCalls, Empty
<1> QED  BY <1>2, AllLevelsExport DEF ItemsOf, Exports

(* The same for ranges.                                                    *)
RangesExport(F, deeper, d) ==
  \A id, parent, path, limit :
    SubOK(F, id, d) /\ RangeCall(id, parent, path, limit) \in RangeCalls =>
      IsSeq(deeper[RangeCall(id, parent, path, limit)])

(* exportProofRangeAux, of a node at level d.                              *)
LEMMA ExportRangeAuxExports ==
  ASSUME NEW F, DOMAIN F \in SUBSET Nat, NEW d \in 0 .. Depth, NEW deeper, d < Depth => RangesExport(F, deeper, d + 1),
         NEW range, NEW id, NEW parent, NEW path, NEW limit, SubOK(F, id, d),
         RangeCall(id, parent, path, limit) \in RangeCalls
  PROVE  IsSeq(ExportRangeAux(Frame(F, d, deeper), range, RangeCall(id, parent, path, limit)))
<1> DEFINE frame  == Frame(F, d, deeper)
           call   == RangeCall(id, parent, path, limit)
           node   == ParsedNode(F, id)
           middle == path + TwoTo(Depth - 1 - d)
           less   == IF node.type = "BranchBoth" THEN limit - 1 ELSE limit
           out    == ExportRangeAux(frame, range, call)
<1>1. frame.nodes = F /\ frame.depth = d /\ frame.deeper = deeper
  BY DEF Frame
<1>2. call.id = id /\ call.parent = parent /\ call.path = path /\ call.limit = limit
  BY DEF RangeCall
<1>3. id \in Nat /\ parent \in Nat /\ path \in Nat /\ limit \in Nat
  BY <1>2 DEF RangeCalls
<1>4. \A e : IsSeq(<<e>>) /\ IsSeq(<<>>)
  BY ShortSequences
<1>5. CASE id = Empty /\ node = EmptyNode
  <2>1. node.type = "Empty" /\ ~IsLeaf(node) /\ ~IsBranch(node) /\ ~IsWitnessAny(node)
    BY <1>5 DEF EmptyNode, IsLeaf, IsBranch, IsWitnessAny
  <2>2. \E e : out = <<e>>
    BY <1>1, <1>2, <2>1 DEF ExportRangeAux
  <2> HIDE DEF out
  <2> QED  BY <1>4, <2>2 DEF out, call, frame
<1>6. CASE IsLeaf(node) /\ node.type = "Leaf"
  <2>1. node.type # "Empty" /\ ~IsBranch(node) /\ ~IsWitnessAny(node)
    BY <1>6 DEF IsBranch, IsWitnessAny
  <2>2. \E e : out = <<e>>
    BY <1>1, <1>2, <1>6, <2>1 DEF ExportRangeAux, ExportLeaf
  <2> HIDE DEF out
  <2> QED  BY <1>4, <2>2 DEF out, call, frame
<1>7. CASE /\ id # Empty /\ node = F[id] /\ IsBranch(node) /\ ~IsLeaf(node) /\ d \in 0 .. Depth - 1
           /\ SubOK(F, F[id].left, d + 1) /\ SubOK(F, F[id].right, d + 1)
  <2>1. node.type # "Empty" /\ node.type # "Leaf" /\ ~IsWitnessAny(node)
    BY <1>7 DEF IsBranch, IsWitnessAny
  <2>2. CASE limit = 0
    <3>1. \E e : out = <<e>>
      BY <1>1, <1>2, <1>7, <2>1, <2>2 DEF ExportRangeAux
    <3> HIDE DEF out
    <3> QED  BY <1>4, <3>1 DEF out, call, frame
  <2>3. CASE limit # 0
    <3> DEFINE one == IF range.begin < middle THEN deeper[RangeCall(F[id].left, id, path, less)] ELSE <<>>
               two == IF range.end >= middle THEN deeper[RangeCall(F[id].right, id, middle, less)] ELSE <<>>
    <3>1. out = one \o two
      BY <1>1, <1>2, <1>7, <2>1, <2>3 DEF ExportRangeAux
    <3>2. RangesExport(F, deeper, d + 1) /\ d + 1 \in 0 .. Depth
      BY <1>7, DepthAssumption
    <3>3. F[id].left \in Nat /\ F[id].right \in Nat
      BY <1>7, <3>2, ChildrenHaveIds
    <3>4. less \in Nat /\ middle \in Nat
      <4>1. Depth - 1 - d \in Nat
        BY <1>7, DepthAssumption
      <4>2. TwoTo(Depth - 1 - d) \in Nat
        BY <4>1, PowersOfTwo
      <4> QED  BY <1>3, <2>3, <4>2
    <3> HIDE DEF less, middle
    <3>5. /\ RangeCall(F[id].left, id, path, less) \in RangeCalls
          /\ RangeCall(F[id].right, id, middle, less) \in RangeCalls
      BY <1>3, <3>3, <3>4 DEF RangeCall, RangeCalls
    <3>6. /\ IsSeq(deeper[RangeCall(F[id].left, id, path, less)])
          /\ IsSeq(deeper[RangeCall(F[id].right, id, middle, less)])
      BY <1>7, <3>2, <3>5 DEF RangesExport
    <3>7. IsSeq(one) /\ IsSeq(two)
      BY <1>4, <3>6
    <3> HIDE DEF one, two, out
    <3>8. IsSeq(out)
      BY <3>1, <3>7, SequencesJoined
    <3> QED  BY <3>8 DEF out, call, frame
  <2> QED  BY <2>2, <2>3
<1>8. (node = EmptyNode /\ id = Empty) \/ (IsLeaf(node) /\ node.type = "Leaf")
      \/ (/\ id # Empty /\ node = F[id] /\ IsBranch(node) /\ ~IsLeaf(node) /\ d \in 0 .. Depth - 1
          /\ SubOK(F, F[id].left, d + 1) /\ SubOK(F, F[id].right, d + 1))
  BY KindsOfTrees DEF StoredLeaf
<1> QED  BY <1>5, <1>6, <1>7, <1>8

(* All calls of one level.                                                 *)
LEMMA RangesOfExport ==
  ASSUME NEW F, DOMAIN F \in SUBSET Nat, NEW d \in 0 .. Depth, NEW deeper, d < Depth => RangesExport(F, deeper, d + 1),
         NEW range
  PROVE  RangesExport(F, RangesOf(Frame(F, d, deeper), range), d)
<1> SUFFICES ASSUME NEW id, NEW parent, NEW path, NEW limit, SubOK(F, id, d),
                    RangeCall(id, parent, path, limit) \in RangeCalls
             PROVE  IsSeq(RangesOf(Frame(F, d, deeper), range)[RangeCall(id, parent, path, limit)])
  BY DEF RangesExport
<1>1. RangesOf(Frame(F, d, deeper), range)[RangeCall(id, parent, path, limit)]
        = ExportRangeAux(Frame(F, d, deeper), range, RangeCall(id, parent, path, limit))
  BY DEF RangesOf
<1>2. IsSeq(ExportRangeAux(Frame(F, d, deeper), range, RangeCall(id, parent, path, limit)))
  BY ExportRangeAuxExports
<1> QED  BY <1>1, <1>2

RangesLevels == INSTANCE Recursion WITH First <- LAMBDA p : RangesOf(Frame(p[1], Depth, NoTable), p[2]),
                                        Step  <- LAMBDA p, n, x : RangesOf(Frame(p[1], Depth - n, x), p[2])

(* From level d + 1 to level d, down to the root.                          *)
LEMMA AllLevelsOfRanges ==
  ASSUME NEW F, DOMAIN F \in SUBSET Nat, NEW range
  PROVE  RangesExport(F, RangesAbove(F, range, Depth), 0)
<1> DEFINE r == RangesLevels!Recursive(<<F, range>>)
           S == {n \in Nat : n <= Depth => RangesExport(F, r[n], Depth - n)}
<1>1. Depth \in Nat /\ RangesAbove(F, range, Depth) = r[Depth]
  BY DepthAssumption DEF RangesAbove, RangesLevels!Recursive
<1>2. /\ r[0] = RangesOf(Frame(F, Depth, NoTable), range)
      /\ \A n \in Nat : r[n + 1] = RangesOf(Frame(F, Depth - (n + 1), r[n]), range)
  BY RangesLevels!RecursionFollows
<1> HIDE DEF r
<1>3. 0 \in S
  <2>1. Depth \in 0 .. Depth /\ ~(Depth < Depth) /\ Depth - 0 = Depth
    BY <1>1
  <2>2. RangesExport(F, RangesOf(Frame(F, Depth, NoTable), range), Depth)
    BY <2>1, RangesOfExport
  <2> QED  BY <1>2, <2>1, <2>2
<1>4. ASSUME NEW n \in S
      PROVE  n + 1 \in S
  <2> SUFFICES ASSUME n + 1 <= Depth
               PROVE  RangesExport(F, r[n + 1], Depth - (n + 1))
    OBVIOUS
  <2>1. n \in Nat /\ n <= Depth /\ Depth - (n + 1) \in 0 .. Depth /\ (Depth - (n + 1)) + 1 = Depth - n
    BY <1>1
  <2>2. RangesExport(F, r[n], (Depth - (n + 1)) + 1)
    BY <2>1
  <2>3. RangesExport(F, RangesOf(Frame(F, Depth - (n + 1), r[n]), range), Depth - (n + 1))
    BY <2>1, <2>2, RangesOfExport
  <2> QED  BY <1>2, <2>1, <2>3
<1>5. S = Nat
  <2>1. S \in SUBSET Nat
    OBVIOUS
  <2> HIDE DEF S
  <2> QED  BY <1>3, <1>4, <2>1, AllNumbers
<1>6. Depth - Depth = 0
  BY <1>1
<1> QED  BY <1>1, <1>5, <1>6

(* exportProofRange gives a sequence of strands.                           *)
LEMMA RangeItemsAreASequence ==
  ASSUME NEW F, DOMAIN F \in SUBSET Nat, NEW root, SubOK(F, root, 0), NEW begin, NEW end
  PROVE  IsSeq(ItemsInRange(F, root, begin, end))
<1> DEFINE range == KeyRange(begin, end, Val \cup {EmptyVal})
<1>1. root \in Nat /\ Depth \in Nat
  <2>1. 0 \in 0 .. Depth
    BY DepthAssumption
  <2> QED  BY <2>1, ChildrenHaveIds, DepthAssumption
<1>2. RangeCall(root, Empty, 0, Depth) \in RangeCalls
  BY <1>1 DEF RangeCall, RangeCalls, Empty
<1>3. ItemsInRange(F, root, begin, end) = RangesAbove(F, range, Depth)[RangeCall(root, Empty, 0, Depth)]
  BY DEF ItemsInRange
<1> HIDE DEF range
<1>4. RangesExport(F, RangesAbove(F, range, Depth), 0)
  BY AllLevelsOfRanges
<1> QED  BY <1>2, <1>3, <1>4 DEF RangesExport

---------------------------------------------------------------------------
(* The strands go up with commands of the three kinds.                     *)
ClimbOK(items, st) ==
  /\ st = [accums |-> st.accums, live |-> st.live, merged |-> st.merged]
  /\ DOMAIN st.accums = DOMAIN items /\ st.live \subseteq DOMAIN items /\ CmdSeq(st.merged)
  /\ \A i \in DOMAIN items : CmdSeq(st.accums[i].cmds)

(* One step of the loop in exportProofCmds.                                *)
LEMMA ClimbingIsOK ==
  ASSUME NEW F, NEW reverseMap, NEW items, NEW st, ClimbOK(items, st), NEW i \in st.live
  PROVE  ClimbOK(items, Climb(F, reverseMap, items, st, i))
<1> DEFINE cur       == st.accums[i]
           next      == NextLive(st.live, i)
           parent(j) == LET id == st.accums[j].nodeId IN
                        IF id = Empty THEN items[j].parent ELSE reverseMap[id]
           above     == F[parent(i)]
           sibling   == IF above.left = cur.nodeId THEN above.right ELSE above.left
           Up(cmd)   == [st.accums EXCEPT ![i] =
                          [depth |-> @.depth - 1, nodeId |-> parent(i), cmds |-> Append(@.cmds, cmd)]]
           meet      == HasNext(st.live, i) /\ parent(i) = parent(next)
           out       == Climb(F, reverseMap, items, st, i)
<1>1. /\ DOMAIN st.accums = DOMAIN items /\ st.live \subseteq DOMAIN items /\ CmdSeq(st.merged)
      /\ \A j \in DOMAIN items : CmdSeq(st.accums[j].cmds)
      /\ i \in DOMAIN items
  BY DEF ClimbOK
<1>2. ASSUME NEW cmd, cmd.op \in Ops
      PROVE  DOMAIN Up(cmd) = DOMAIN items /\ \A j \in DOMAIN items : CmdSeq(Up(cmd)[j].cmds)
  <2>1. CmdSeq(Append(st.accums[i].cmds, cmd))
    BY <1>1, <1>2, CmdSeqs
  <2>2. Up(cmd)[i].cmds = Append(st.accums[i].cmds, cmd) /\ \A j \in DOMAIN items : j # i => Up(cmd)[j] = st.accums[j]
    BY <1>1
  <2> HIDE DEF Up
  <2>3. \A j \in DOMAIN items : CmdSeq(Up(cmd)[j].cmds)
    BY <1>1, <2>1, <2>2
  <2>4. DOMAIN Up(cmd) = DOMAIN items
    BY <1>1 DEF Up
  <2> QED  BY <2>3, <2>4
<1>3. \A h : /\ Cmd("Merge", i, h).op \in Ops /\ Cmd("HashEmpty", i, h).op \in Ops
             /\ Cmd("HashProvided", i, h).op \in Ops
  BY DEF Cmd, Ops
<1>4. CASE meet
  <2>1. out = [accums |-> Up(Cmd("Merge", i, NullHash)), live |-> st.live \ {next},
               merged |-> st.merged \o st.accums[next].cmds]
    BY <1>4 DEF Climb
  <2>2. next \in DOMAIN items
    BY <1>1, <1>4 DEF HasNext
  <2>3. CmdSeq(st.merged \o st.accums[next].cmds)
    BY <1>1, <2>2, CmdSeqs
  <2> HIDE DEF Up, next, meet, out
  <2>4. ClimbOK(items, out)
    BY <1>1, <1>2, <1>3, <2>1, <2>3 DEF ClimbOK
  <2> QED  BY <2>4 DEF out
<1>5. CASE ~meet
  <2>1. \E cmd : cmd.op \in Ops /\ out = [st EXCEPT !.accums = Up(cmd)]
    <3>1. CASE sibling = Empty
      <4>1. out = [st EXCEPT !.accums = Up(Cmd("HashEmpty", i, NullHash))]
        BY <1>5, <3>1 DEF Climb
      <4> HIDE DEF out, Up
      <4> QED  BY <1>3, <4>1
    <3>2. CASE sibling # Empty
      <4>1. out = [st EXCEPT !.accums = Up(Cmd("HashProvided", i, F[sibling].hash))]
        BY <1>5, <3>2 DEF Climb
      <4> HIDE DEF out, Up, sibling
      <4> QED  BY <1>3, <4>1
    <3> QED  BY <3>1, <3>2
  <2> HIDE DEF Up, meet, out
  <2>2. PICK cmd : cmd.op \in Ops /\ out = [st EXCEPT !.accums = Up(cmd)]
    BY <2>1
  <2>3. out = [accums |-> Up(cmd), live |-> st.live, merged |-> st.merged]
    BY <2>2 DEF ClimbOK
  <2>4. ClimbOK(items, out)
    BY <1>1, <1>2, <2>2, <2>3 DEF ClimbOK
  <2> QED  BY <2>4 DEF out
<1> QED  BY <1>4, <1>5

OneLevel == INSTANCE Recursion WITH
  First <- LAMBDA p : p[1],
  Step  <- LAMBDA p, n, x : IF n \in x.live /\ x.accums[n].depth = p[5] THEN Climb(p[2], p[3], p[4], x, n) ELSE x

(* All strands of one depth.                                               *)
LEMMA LevelsAreClimbed ==
  ASSUME NEW F, NEW reverseMap, NEW items, IsSeq(items), NEW st, ClimbOK(items, st), NEW depth
  PROVE  ClimbOK(items, ClimbAll(F, reverseMap, items, st, depth))
<1> DEFINE r == OneLevel!Recursive(<<st, F, reverseMap, items, depth>>)
           S == {n \in Nat : ClimbOK(items, r[n])}
<1>1. ClimbAll(F, reverseMap, items, st, depth) = r[Len(items)]
  BY DEF ClimbAll, OneLevel!Recursive
<1>2. /\ r[0] = st
      /\ \A n \in Nat : r[n + 1] = IF n + 1 \in r[n].live /\ r[n].accums[n + 1].depth = depth
                                   THEN Climb(F, reverseMap, items, r[n], n + 1) ELSE r[n]
  BY OneLevel!RecursionFollows
<1>3. Len(items) \in Nat
  BY SequencesHaveLengths
<1> HIDE DEF r
<1>4. 0 \in S
  BY <1>2
<1>5. ASSUME NEW n \in S
      PROVE  n + 1 \in S
  <2>1. n \in Nat /\ n + 1 \in Nat /\ ClimbOK(items, r[n])
    OBVIOUS
  <2>2. n + 1 \in r[n].live => ClimbOK(items, Climb(F, reverseMap, items, r[n], n + 1))
    BY <2>1, ClimbingIsOK
  <2>3. ClimbOK(items, r[n + 1])
    BY <1>2, <2>1, <2>2
  <2> QED  BY <2>1, <2>3
<1>6. S = Nat
  <2>1. S \in SUBSET Nat
    OBVIOUS
  <2> HIDE DEF S
  <2> QED  BY <1>4, <1>5, <2>1, AllNumbers
<1> QED  BY <1>1, <1>3, <1>6

AllLevels == INSTANCE Recursion WITH
  First <- LAMBDA p : p[1],
  Step  <- LAMBDA p, n, x : ClimbAll(p[2], p[3], p[4], x, Depth + 1 - n)

(* And all commands of a proof.                                            *)
LEMMA CmdsAreASequence ==
  ASSUME NEW F, NEW root, NEW items, IsSeq(items)
  PROVE  CmdSeq(ExportCmds(F, root, items, 0))
<1> DEFINE reverseMap == Parents(F, root)
           start == [live   |-> DOMAIN items,
                     merged |-> <<>>,
                     accums |-> [i \in DOMAIN items |->
                       [depth |-> items[i].strand.depth, nodeId |-> items[i].nodeId, cmds |-> <<>>]]]
           r == AllLevels!Recursive(<<start, F, reverseMap, items>>)
           S == {n \in Nat : ClimbOK(items, r[n])}
<1>1. ExportCmds(F, root, items, 0) =
        IF items = <<>> THEN <<>> ELSE r[Depth - 0].merged \o r[Depth - 0].accums[1].cmds
  BY DEF ExportCmds, AllLevels!Recursive
<1>2. r[0] = start /\ \A n \in Nat : r[n + 1] = ClimbAll(F, reverseMap, items, r[n], Depth + 1 - (n + 1))
  BY AllLevels!RecursionFollows
<1> HIDE DEF r
<1>3. CmdSeq(<<>>)
  <2> DEFINE kinds == {c \in {Cmd("Merge", 1, NullHash)} : c.op \in Ops}
  <2>1. <<>> \in Seq(kinds) /\ \A c \in kinds : c.op \in Ops
    OBVIOUS
  <2> HIDE DEF kinds
  <2> QED  BY <2>1 DEF CmdSeq
<1>4. 0 \in S
  <2>1. ClimbOK(items, start)
    BY <1>3 DEF ClimbOK
  <2> QED  BY <1>2, <2>1
<1>5. ASSUME NEW n \in S
      PROVE  n + 1 \in S
  <2>1. n \in Nat /\ n + 1 \in Nat /\ ClimbOK(items, r[n])
    OBVIOUS
  <2> HIDE DEF reverseMap
  <2>2. ClimbOK(items, ClimbAll(F, reverseMap, items, r[n], Depth + 1 - (n + 1)))
    BY <2>1, LevelsAreClimbed
  <2> QED  BY <1>2, <2>1, <2>2
<1>6. S = Nat
  <2>1. S \in SUBSET Nat
    OBVIOUS
  <2> HIDE DEF S
  <2> QED  BY <1>4, <1>5, <2>1, AllNumbers
<1>7. Depth - 0 \in Nat
  BY DepthAssumption
<1>8. ClimbOK(items, r[Depth - 0])
  BY <1>6, <1>7
<1>9. CASE items = <<>>
  BY <1>1, <1>3, <1>9
<1>10. CASE items # <<>>
  <2>1. 1 \in DOMAIN items
    <3>1. PICK V : items \in Seq(V)
      BY DEF IsSeq
    <3>2. Len(items) \in Nat /\ DOMAIN items = 1 .. Len(items) /\ Len(items) # 0
      BY <1>10, <3>1
    <3> QED  BY <3>2
  <2>2. CmdSeq(r[Depth - 0].merged) /\ CmdSeq(r[Depth - 0].accums[1].cmds)
    BY <1>8, <2>1 DEF ClimbOK
  <2>3. CmdSeq(r[Depth - 0].merged \o r[Depth - 0].accums[1].cmds)
    BY <2>2, CmdSeqs
  <2> QED  BY <1>1, <1>10, <2>3
<1> QED  BY <1>9, <1>10

(* So that what is made of a sequence of items can be imported.            *)
LEMMA ProofsAreSequences ==
  ASSUME NEW F, NEW root, NEW items, IsSeq(items)
  PROVE  IsSeq(MakeProof(F, root, items).strands) /\ CmdSeq(MakeProof(F, root, items).cmds)
<1> DEFINE strands == [i \in DOMAIN items |-> items[i].strand]
           cmds    == ExportCmds(F, root, items, 0)
<1>1. MakeProof(F, root, items) = [strands |-> strands, cmds |-> cmds]
  BY DEF MakeProof, MakeFragment
<1>2. IsSeq(strands)
  <2> DEFINE S == {strands[i] : i \in DOMAIN items}
  <2>1. Len(items) \in Nat /\ DOMAIN items = 1 .. Len(items)
    BY SequencesHaveLengths
  <2>2. strands \in [1 .. Len(items) -> S]
    BY <2>1
  <2>3. strands \in Seq(S)
    BY <2>1, <2>2
  <2> HIDE DEF strands, S
  <2> QED  BY <2>3 DEF IsSeq
<1>3. CmdSeq(cmds)
  BY CmdsAreASequence
<1> HIDE DEF strands, cmds
<1> QED  BY <1>1, <1>2, <1>3

---------------------------------------------------------------------------
(* Merging: two trees that stand for one                                   *)

(* What is handed on from call to call: the ids in use.                    *)
Counting(T, work) ==
  /\ work \in [used : SUBSET Nat] /\ DOMAIN T \subseteq work.used
  /\ Bounded(work.used) /\ Empty \notin work.used

(* What a call returns: nothing but honest nodes, and the one it names has *)
(* the hash that is asked for.                                             *)
MergedTo(T, work, out, hash) ==
  /\ out = [thrown |-> out.thrown, work |-> out.work, written |-> out.written,
            built |-> out.built, bubble |-> out.bubble]
  /\ Honest(With(T, out.written)) /\ Counting(With(T, out.written), out.work)
  /\ out.work.used = work.used \cup DOMAIN out.written /\ work.used \cap DOMAIN out.written = {}
  /\ InTable(With(T, out.written), out.built) /\ out.built.hash = hash

(* A node that is there.                                                   *)
LEMMA MergedToOld ==
  ASSUME NEW T, Honest(T), NEW work, Counting(T, work), NEW x \in DOMAIN T \cup {Empty}
  PROVE  MergedTo(T, work, Return(work, Reuse(T, x), FALSE), ParsedNode(T, x).hash)
<1> DEFINE out == Return(work, Reuse(T, x), FALSE)
           U   == With(T, out.written)
<1>1. /\ out.work = work /\ out.written = NoTable /\ out.built = Reuse(T, x)
      /\ out = [thrown |-> out.thrown, work |-> out.work, written |-> out.written,
                built |-> out.built, bubble |-> out.bubble]
  BY DEF Return
<1> HIDE DEF out
<1>2. DOMAIN U = DOMAIN T /\ Extends(U, T) /\ DOMAIN out.written = {}
  <2>1. U = With(T, NoTable) /\ DOMAIN out.written = DOMAIN NoTable
    BY <1>1
  <2>2. DOMAIN NoTable = {} /\ Extends(U, T) /\ Extends(T, U)
    BY <2>1, NothingAdded
  <2> QED  BY <2>1, <2>2 DEF Extends
<1> HIDE DEF U
<1>3. Honest(U)
  <2>1. DOMAIN T \in SUBSET Nat /\ Bounded(DOMAIN T) /\ Empty \notin DOMAIN T
    BY DEF Honest
  <2> QED  BY <1>2, <2>1, HonestTogether
<1>4. InTable(T, out.built) /\ out.built.hash = ParsedNode(T, x).hash
  BY <1>1 DEF InTable, Reuse, Built
<1>5. InTable(U, out.built)
  BY <1>2, <1>4, InTableStays
<1>6. Counting(U, work)
  BY <1>2 DEF Counting
<1>7. MergedTo(T, work, out, ParsedNode(T, x).hash)
  BY <1>1, <1>2, <1>3, <1>4, <1>5, <1>6 DEF MergedTo, U
<1> QED  BY <1>7 DEF out

(* A new branch.                                                           *)
LEMMA MergedToNew ==
  ASSUME NEW T, Honest(T), NEW work, Counting(T, work), NEW l, InTable(T, l), NEW r, InTable(T, r)
  PROVE  MergedTo(T, work, WriteNew(work, BranchNode(l, r)), BranchHash(l.hash, r.hash))
<1> DEFINE node == BranchNode(l, r)
           out  == WriteNew(work, node)
           id   == BranchNext(work.used)
           U    == With(T, out.written)
<1>1. ~IsLeaf(node) /\ node.hash = BranchHash(l.hash, r.hash)
  BY DEF BranchNode, EmptyNode, IsLeaf
<1>2. id = NextId(work.used, IsLeaf(node))
  BY <1>1, TwoCounters
<1>3. work.used \in SUBSET Nat /\ Bounded(work.used) /\ DOMAIN T \subseteq work.used /\ Empty \notin work.used
      /\ work = [used |-> work.used]
  BY DEF Counting
<1>4. id \in Nat /\ id # Empty /\ id >= FirstInterior /\ id \notin work.used
  BY <1>3, NextBranchId
<1>5. /\ out.work = [used |-> work.used \cup {id}] /\ out.written = Written(id, node) /\ out.built = Built(id, node)
      /\ out = [thrown |-> out.thrown, work |-> out.work, written |-> out.written,
                built |-> out.built, bubble |-> out.bubble]
  <2>1. out = [thrown |-> FALSE, work |-> [work EXCEPT !.used = @ \cup {id}], written |-> Written(id, node),
               built |-> Built(id, node), bubble |-> FALSE]
    BY <1>2 DEF WriteNew
  <2>2. [work EXCEPT !.used = @ \cup {id}] = [used |-> work.used \cup {id}]
    BY <1>3
  <2> HIDE DEF out, id, node
  <2> QED  BY <2>1, <2>2
<1> HIDE DEF out, id
<1>6. DOMAIN out.written = {id} /\ out.written[id] = node
  BY <1>5 DEF Written
<1>7. DOMAIN U = DOMAIN T \cup {id} /\ Extends(U, T) /\ U[id] = node
  <2>1. DOMAIN U = DOMAIN T \cup DOMAIN out.written /\ Extends(U, T)
    BY TablesAdd
  <2>2. id \in DOMAIN out.written /\ id \notin DOMAIN T
    BY <1>3, <1>4, <1>6
  <2>3. U[id] = out.written[id]
    BY <2>2 DEF With
  <2> HIDE DEF U
  <2> QED  BY <1>6, <2>1, <2>3
<1> HIDE DEF U
<1>8. HonestNode(U, id)
  <2>1. U[id] = BranchNode(l, r) /\ id \in DOMAIN U
    BY <1>7
  <2> QED  BY <1>4, <1>7, <2>1, BranchesAreHonest
<1> HIDE DEF node
<1>9. Honest(U)
  BY <1>4, <1>7, <1>8, HonestWithOneMore
<1>10. InTable(U, out.built) /\ out.built.hash = BranchHash(l.hash, r.hash)
  BY <1>1, <1>4, <1>5, <1>7 DEF InTable, Reuse, ParsedNode, Built
<1>11. Counting(U, out.work) /\ out.work.used = work.used \cup {id} /\ work.used \cap {id} = {}
  <2>1. Bounded(work.used \cup {id})
    BY <1>3, <1>4, StillBounded
  <2> QED  BY <1>3, <1>4, <1>5, <1>7, <2>1 DEF Counting
<1>12. MergedTo(T, work, out, BranchHash(l.hash, r.hash))
  BY <1>5, <1>6, <1>9, <1>10, <1>11 DEF MergedTo, U
<1> QED  BY <1>12 DEF out, node

(* One call after the other, and a node on top.                            *)
LEMMA MergedInTurn ==
  ASSUME NEW T, Honest(T), NEW work, Counting(T, work), NEW one, NEW h1, MergedTo(T, work, one, h1),
         NEW two, NEW h2, MergedTo(T, one.work, two, h2), NEW U, U = With(T, With(one.written, two.written))
  PROVE  /\ Honest(U) /\ Counting(U, two.work) /\ Extends(U, T)
         /\ InTable(U, one.built) /\ InTable(U, two.built)
<1> DEFINE V == one.written
           W == two.written
<1>1. /\ Honest(With(T, V)) /\ Honest(With(T, W))
      /\ one.work.used = work.used \cup DOMAIN V /\ work.used \cap DOMAIN V = {}
      /\ two.work.used = one.work.used \cup DOMAIN W /\ one.work.used \cap DOMAIN W = {}
      /\ Counting(With(T, W), two.work)
      /\ InTable(With(T, V), one.built) /\ InTable(With(T, W), two.built)
  BY DEF MergedTo
<1> HIDE DEF V, W
<1>2. DOMAIN T \cap DOMAIN V = {} /\ DOMAIN T \cap DOMAIN W = {} /\ DOMAIN V \cap DOMAIN W = {}
  BY <1>1 DEF Counting
<1>3. /\ DOMAIN With(V, W) = DOMAIN V \cup DOMAIN W
      /\ DOMAIN U = DOMAIN T \cup DOMAIN With(V, W)
      /\ DOMAIN With(T, V) = DOMAIN T \cup DOMAIN V /\ DOMAIN With(T, W) = DOMAIN T \cup DOMAIN W
  BY TablesAdd DEF V, W
<1>4. Extends(U, T) /\ Extends(U, With(T, V)) /\ Extends(U, With(T, W))
  <2>1. U = With(T, With(V, W))
    BY DEF V, W
  <2> QED  BY <1>2, <2>1 DEF With, Extends
<1>5. DOMAIN U = DOMAIN With(T, V) \cup DOMAIN With(T, W) /\ DOMAIN U \subseteq two.work.used
  BY <1>1, <1>3 DEF Counting
<1>6. DOMAIN U \in SUBSET Nat /\ Bounded(DOMAIN U)
  BY <1>1, <1>5 DEF Counting, Bounded
<1>7. Honest(U)
  BY <1>1, <1>4, <1>5, <1>6, HonestTogether
<1>8. Counting(U, two.work)
  BY <1>1, <1>5 DEF Counting
<1> QED  BY <1>1, <1>4, <1>7, <1>8, InTableStays

(* mergeProofInternal after both of its own calls: what the three wrote,   *)
(* together.                                                               *)
LEMMA MergedOnTop ==
  ASSUME NEW T, NEW work, NEW one, NEW h1, MergedTo(T, work, one, h1),
         NEW two, NEW h2, MergedTo(T, one.work, two, h2), NEW U, U = With(T, With(one.written, two.written)),
         NEW top, NEW h, MergedTo(U, two.work, top, h)
  PROVE  MergedTo(T, work, Then(one, Then(two, top)), h)
<1> DEFINE V   == one.written
           W   == two.written
           X   == top.written
           all == Then(one, Then(two, top))
<1>1. /\ all = [thrown |-> all.thrown, work |-> all.work, written |-> all.written,
                built |-> all.built, bubble |-> all.bubble]
      /\ all.written = With(V, With(W, X)) /\ all.work = top.work /\ all.built = top.built
  <2>1. top = [thrown |-> top.thrown, work |-> top.work, written |-> top.written,
               built |-> top.built, bubble |-> top.bubble]
    BY DEF MergedTo
  <2> DEFINE mid == Then(two, top)
  <2>2. mid = [thrown |-> top.thrown, work |-> top.work, written |-> With(W, X),
               built |-> top.built, bubble |-> top.bubble]
    BY <2>1 DEF Then
  <2> HIDE DEF mid, W, X
  <2>3. Then(one, mid) = [thrown |-> top.thrown, work |-> top.work, written |-> With(V, With(W, X)),
                          built |-> top.built, bubble |-> top.bubble]
    BY <2>2 DEF Then
  <2>4. all = Then(one, mid)
    BY DEF mid
  <2> HIDE DEF all, V
  <2> QED  BY <2>3, <2>4
<1>2. /\ one.work.used = work.used \cup DOMAIN V /\ work.used \cap DOMAIN V = {}
      /\ two.work.used = one.work.used \cup DOMAIN W /\ one.work.used \cap DOMAIN W = {}
      /\ top.work.used = two.work.used \cup DOMAIN X /\ two.work.used \cap DOMAIN X = {}
      /\ Honest(With(U, X)) /\ Counting(With(U, X), top.work) /\ InTable(With(U, X), top.built) /\ top.built.hash = h
  BY DEF MergedTo
<1>3. With(U, X) = With(T, With(V, With(W, X)))
  <2>1. With(U, X) = With(T, With(With(V, W), X))
    BY TablesAssociate
  <2>2. With(With(V, W), X) = With(V, With(W, X))
    BY TablesAssociate
  <2> QED  BY <2>1, <2>2
<1>4. DOMAIN With(V, With(W, X)) = DOMAIN V \cup DOMAIN W \cup DOMAIN X
  <2>1. DOMAIN With(W, X) = DOMAIN W \cup DOMAIN X
    BY TablesAdd
  <2>2. DOMAIN With(V, With(W, X)) = DOMAIN V \cup DOMAIN With(W, X)
    BY TablesAdd
  <2> QED  BY <2>1, <2>2
<1> HIDE DEF V, W, X, all
<1>5. With(T, all.written) = With(U, X)
  BY <1>1, <1>3
<1>6. top.work.used = work.used \cup DOMAIN all.written /\ work.used \cap DOMAIN all.written = {}
  BY <1>1, <1>2, <1>4
<1>7. MergedTo(T, work, all, h)
  BY <1>1, <1>2, <1>5, <1>6 DEF MergedTo
<1> QED  BY <1>7 DEF all

(* What comes of two nodes that stand for one of a full tree.              *)
Merges(T, F, deeper, d) ==
  \A x, y, z, work :
    SubOK(F, z, d) /\ Stands(T, x, F, z) /\ Stands(T, y, F, z) /\ Counting(T, work) =>
      MergedTo(T, work, deeper[MergeCall(x, y, work)], ParsedNode(F, z).hash)

(* Two branches: their children stand for those of the same branch of the  *)
(* full tree, and merge into nodes with their hashes.                      *)
LEMMA MergeBelowMerges ==
  ASSUME NEW T, Honest(T), NEW F, NEW d \in 0 .. Depth - 1, NEW deeper, Merges(T, F, deeper, d + 1),
         NEW x, NEW y, NEW z, NEW work, Counting(T, work), Stands(T, x, F, z), Stands(T, y, F, z), SubOK(F, z, d),
         NEW o, o = ParsedNode(T, x), NEW n, n = ParsedNode(T, y), z # Empty, IsBranch(F[z]),
         SubOK(F, F[z].left, d + 1), SubOK(F, F[z].right, d + 1),
         Stands(T, o.left, F, F[z].left), Stands(T, o.right, F, F[z].right),
         Stands(T, n.left, F, F[z].left), Stands(T, n.right, F, F[z].right)
  PROVE  MergedTo(T, work, MergeBelow(Frame(T, d, deeper), o, n, MergeCall(x, y, work)), ParsedNode(F, z).hash)
<1> DEFINE hl    == ParsedNode(F, F[z].left).hash
           hr    == ParsedNode(F, F[z].right).hash
           h     == ParsedNode(F, z).hash
           one   == deeper[MergeCall(o.left, n.left, work)]
           two   == deeper[MergeCall(o.right, n.right, one.work)]
           top   == IF one.built.id = o.left /\ two.built.id = o.right THEN Return(two.work, Reuse(T, x), FALSE)
                    ELSE IF one.built.id = n.left /\ two.built.id = n.right THEN Return(two.work, Reuse(T, y), FALSE)
                    ELSE WriteNew(two.work, BranchNode(one.built, two.built))
           U     == With(T, With(one.written, two.written))
<1>1. MergeBelow(Frame(T, d, deeper), o, n, MergeCall(x, y, work)) = Then(one, Then(two, top))
  BY DEF MergeBelow, Frame, MergeCall
<1>2. h = BranchHash(hl, hr)
  <2>1. StoredBranch(F, z, d) /\ ParsedNode(F, z) = F[z]
    <3>1. d \in 0 .. Depth
      BY DepthAssumption
    <3> QED  BY <3>1, KindsOfTrees DEF IsBranch, IsLeaf
  <2> QED  BY <2>1 DEF StoredBranch
<1>3. ParsedNode(T, x).hash = h /\ ParsedNode(T, y).hash = h /\ x \in DOMAIN T \cup {Empty} /\ y \in DOMAIN T \cup {Empty}
  BY DEF Stands
<1>4. MergedTo(T, work, one, hl)
  BY DEF Merges
<1> HIDE DEF one
<1>5. Counting(T, one.work)
  <2>1. Counting(With(T, one.written), one.work) /\ DOMAIN T \subseteq DOMAIN With(T, one.written)
    <3>1. Counting(With(T, one.written), one.work)
      BY <1>4 DEF MergedTo
    <3>2. DOMAIN T \subseteq DOMAIN With(T, one.written)
      BY DEF With
    <3> QED  BY <3>1, <3>2
  <2> QED  BY <2>1 DEF Counting
<1>6. MergedTo(T, one.work, two, hr)
  BY <1>5 DEF Merges
<1> HIDE DEF two
<1>7. /\ Honest(U) /\ Counting(U, two.work) /\ Extends(U, T)
      /\ InTable(U, one.built) /\ InTable(U, two.built)
  BY <1>4, <1>6, MergedInTurn
<1>8. one.built.hash = hl /\ two.built.hash = hr
  BY <1>4, <1>6 DEF MergedTo
<1> HIDE DEF U, hl, hr, h
<1>9. MergedTo(U, two.work, top, h)
  <2>1. ASSUME NEW w \in DOMAIN T \cup {Empty}, ParsedNode(T, w).hash = h
        PROVE  MergedTo(U, two.work, Return(two.work, Reuse(T, w), FALSE), h)
    <3>1. ParsedNode(U, w) = ParsedNode(T, w) /\ w \in DOMAIN U \cup {Empty}
      BY <1>7, <2>1 DEF Extends, ParsedNode
    <3>2. Reuse(U, w) = Reuse(T, w)
      BY <3>1 DEF Reuse
    <3>3. MergedTo(U, two.work, Return(two.work, Reuse(U, w), FALSE), ParsedNode(U, w).hash)
      BY <1>7, <3>1, MergedToOld
    <3> QED  BY <2>1, <3>1, <3>2, <3>3
  <2>2. MergedTo(U, two.work, WriteNew(two.work, BranchNode(one.built, two.built)), h)
    <3> DEFINE l == one.built
               r == two.built
    <3>1. InTable(U, l) /\ InTable(U, r) /\ BranchHash(l.hash, r.hash) = h
      BY <1>2, <1>7, <1>8
    <3> HIDE DEF l, r
    <3>2. MergedTo(U, two.work, WriteNew(two.work, BranchNode(l, r)), BranchHash(l.hash, r.hash))
      BY <1>7, <3>1, MergedToNew
    <3>3. MergedTo(U, two.work, WriteNew(two.work, BranchNode(l, r)), h)
      BY <3>1, <3>2
    <3> QED  BY <3>3 DEF l, r
  <2>3. MergedTo(U, two.work, Return(two.work, Reuse(T, x), FALSE), h)
    BY <1>3, <2>1
  <2>4. MergedTo(U, two.work, Return(two.work, Reuse(T, y), FALSE), h)
    BY <1>3, <2>1
  <2> QED  BY <2>2, <2>3, <2>4
<1> HIDE DEF top
<1>10. MergedTo(T, work, Then(one, Then(two, top)), h)
  BY <1>4, <1>6, <1>9, MergedOnTop DEF U
<1> QED  BY <1>1, <1>10 DEF h

(* mergeProofInternal, of two nodes at level d.                            *)
LEMMA MergeAuxMerges ==
  ASSUME NEW T, Honest(T), NEW F, NEW d \in 0 .. Depth, NEW deeper, d < Depth => Merges(T, F, deeper, d + 1),
         NEW x, NEW y, NEW z, NEW work, SubOK(F, z, d), Stands(T, x, F, z), Stands(T, y, F, z), Counting(T, work)
  PROVE  MergedTo(T, work, MergeAux(Frame(T, d, deeper), MergeCall(x, y, work)), ParsedNode(F, z).hash)
<1> DEFINE o   == ParsedNode(T, x)
           n   == ParsedNode(T, y)
           h   == ParsedNode(F, z).hash
           out == MergeAux(Frame(T, d, deeper), MergeCall(x, y, work))
<1>1. out = IF KnowsMore(n, o) THEN Return(work, Reuse(T, y), FALSE)
            ELSE IF IsBranch(o) /\ IsBranch(n) THEN MergeBelow(Frame(T, d, deeper), o, n, MergeCall(x, y, work))
            ELSE Return(work, Reuse(T, x), FALSE)
  BY DEF MergeAux, Frame, MergeCall
<1> HIDE DEF out
<1>2. x \in DOMAIN T \cup {Empty} /\ o.hash = h /\ y \in DOMAIN T \cup {Empty} /\ n.hash = h
  BY DEF Stands
<1>3. MergedTo(T, work, Return(work, Reuse(T, x), FALSE), h)
  <2>1. MergedTo(T, work, Return(work, Reuse(T, x), FALSE), ParsedNode(T, x).hash)
    BY <1>2, MergedToOld
  <2> QED  BY <1>2, <2>1
<1>4. MergedTo(T, work, Return(work, Reuse(T, y), FALSE), h)
  <2>1. MergedTo(T, work, Return(work, Reuse(T, y), FALSE), ParsedNode(T, y).hash)
    BY <1>2, MergedToOld
  <2> QED  BY <1>2, <2>1
<1>5. ASSUME IsBranch(o), IsBranch(n)
      PROVE  MergedTo(T, work, MergeBelow(Frame(T, d, deeper), o, n, MergeCall(x, y, work)), h)
  <2>1. ASSUME NEW w, Stands(T, w, F, z), IsBranch(ParsedNode(T, w))
        PROVE  /\ w # Empty /\ z # Empty /\ IsBranch(F[z]) /\ d \in 0 .. Depth - 1
               /\ SubOK(F, F[z].left, d + 1) /\ SubOK(F, F[z].right, d + 1)
               /\ Stands(T, T[w].left, F, F[z].left) /\ Stands(T, T[w].right, F, F[z].right)
    <3>1. w # Empty /\ ParsedNode(T, w) = T[w] /\ T[w].type # "Witness" /\ ~IsLeaf(T[w])
      BY <2>1 DEF ParsedNode, EmptyNode, IsBranch, IsLeaf
    <3> QED  BY <2>1, <3>1, KindsAlike
  <2>2. /\ x # Empty /\ y # Empty /\ z # Empty /\ IsBranch(F[z]) /\ d \in 0 .. Depth - 1
        /\ SubOK(F, F[z].left, d + 1) /\ SubOK(F, F[z].right, d + 1)
        /\ Stands(T, T[x].left, F, F[z].left) /\ Stands(T, T[x].right, F, F[z].right)
        /\ Stands(T, T[y].left, F, F[z].left) /\ Stands(T, T[y].right, F, F[z].right)
    BY <1>5, <2>1
  <2>3. o = T[x] /\ n = T[y]
    BY <2>2 DEF ParsedNode
  <2>4. Merges(T, F, deeper, d + 1)
    BY <2>2, DepthAssumption
  <2>5. /\ Stands(T, o.left, F, F[z].left) /\ Stands(T, o.right, F, F[z].right)
        /\ Stands(T, n.left, F, F[z].left) /\ Stands(T, n.right, F, F[z].right)
    BY <2>2, <2>3
  <2> QED  BY <2>2, <2>4, <2>5, MergeBelowMerges
<1> HIDE DEF o, n, h
<1>6. MergedTo(T, work, out, h)
  BY <1>1, <1>3, <1>4, <1>5
<1> QED  BY <1>6 DEF out, h

(* All calls of one level.                                                 *)
LEMMA MergesOfMerge ==
  ASSUME NEW T, Honest(T), NEW F, NEW d \in 0 .. Depth, NEW deeper, d < Depth => Merges(T, F, deeper, d + 1)
  PROVE  Merges(T, F, MergesOf(Frame(T, d, deeper)), d)
<1> SUFFICES ASSUME NEW x, NEW y, NEW z, NEW work, SubOK(F, z, d), Stands(T, x, F, z), Stands(T, y, F, z),
                    Counting(T, work)
             PROVE  MergedTo(T, work, MergesOf(Frame(T, d, deeper))[MergeCall(x, y, work)], ParsedNode(F, z).hash)
  BY DEF Merges
<1>1. MergeCall(x, y, work) \in MergeCalls
  <2>1. x \in Nat /\ y \in Nat /\ work \in [used : SUBSET Nat]
    BY DEF Stands, Honest, Counting, Empty
  <2> QED  BY <2>1 DEF MergeCall, MergeCalls
<1>2. MergesOf(Frame(T, d, deeper))[MergeCall(x, y, work)] = MergeAux(Frame(T, d, deeper), MergeCall(x, y, work))
  BY <1>1 DEF MergesOf
<1>3. MergedTo(T, work, MergeAux(Frame(T, d, deeper), MergeCall(x, y, work)), ParsedNode(F, z).hash)
  BY MergeAuxMerges
<1> QED  BY <1>2, <1>3

MergesLevels == INSTANCE Recursion WITH First <- LAMBDA p : MergesOf(Frame(p, Depth, NoTable)),
                                        Step  <- LAMBDA p, n, x : MergesOf(Frame(p, Depth - n, x))

(* From level d + 1 to level d, down to the root.                          *)
LEMMA AllLevelsMerge ==
  ASSUME NEW T, Honest(T), NEW F
  PROVE  Merges(T, F, MergesAbove(T, Depth), 0)
<1> DEFINE r == MergesLevels!Recursive(T)
           S == {n \in Nat : n <= Depth => Merges(T, F, r[n], Depth - n)}
<1>1. Depth \in Nat /\ MergesAbove(T, Depth) = r[Depth]
  BY DepthAssumption DEF MergesAbove, MergesLevels!Recursive
<1>2. /\ r[0] = MergesOf(Frame(T, Depth, NoTable))
      /\ \A n \in Nat : r[n + 1] = MergesOf(Frame(T, Depth - (n + 1), r[n]))
  BY MergesLevels!RecursionFollows
<1> HIDE DEF r
<1>3. 0 \in S
  <2>1. Depth \in 0 .. Depth /\ ~(Depth < Depth) /\ Depth - 0 = Depth
    BY <1>1
  <2>2. Merges(T, F, MergesOf(Frame(T, Depth, NoTable)), Depth)
    BY <2>1, MergesOfMerge
  <2> QED  BY <1>2, <2>1, <2>2
<1>4. ASSUME NEW n \in S
      PROVE  n + 1 \in S
  <2> SUFFICES ASSUME n + 1 <= Depth
               PROVE  Merges(T, F, r[n + 1], Depth - (n + 1))
    OBVIOUS
  <2>1. n \in Nat /\ n <= Depth /\ Depth - (n + 1) \in 0 .. Depth /\ (Depth - (n + 1)) + 1 = Depth - n
    BY <1>1
  <2>2. Merges(T, F, r[n], (Depth - (n + 1)) + 1)
    BY <2>1
  <2>3. Merges(T, F, MergesOf(Frame(T, Depth - (n + 1), r[n])), Depth - (n + 1))
    BY <2>1, <2>2, MergesOfMerge
  <2> QED  BY <1>2, <2>1, <2>3
<1>5. S = Nat
  <2>1. S \in SUBSET Nat
    OBVIOUS
  <2> HIDE DEF S
  <2> QED  BY <1>3, <1>4, <2>1, AllNumbers
<1>6. Depth - Depth = 0
  BY <1>1
<1> QED  BY <1>1, <1>5, <1>6

(* Two partial trees, merged: the new one stands for what both stand for.  *)
MergedRight(T, hash, merged) ==
  Honest(merged.nodes) /\ InTable(merged.nodes, merged.built) /\ merged.built.hash = hash

(* mergeProof of two partial trees of one tree gives a partial tree with   *)
(* the hash of that tree.                                                  *)
THEOREM MergesKeepTheHash ==
  ASSUME NEW T, Honest(T), NEW F, NEW x, NEW y, NEW z, SubOK(F, z, 0), Stands(T, x, F, z), Stands(T, y, F, z)
  PROVE  MergedRight(T, ParsedNode(F, z).hash, MergeTrees(T, x, y))
<1> DEFINE work   == [used |-> DOMAIN T]
           done   == MergesAbove(T, Depth)[MergeCall(x, y, work)]
           merged == MergeTrees(T, x, y)
<1>1. merged = [nodes |-> With(T, done.written), built |-> done.built]
  BY DEF MergeTrees
<1>2. Counting(T, work)
  BY DEF Honest, Counting
<1> HIDE DEF work
<1>3. MergedTo(T, work, done, ParsedNode(F, z).hash)
  BY <1>2, AllLevelsMerge DEF Merges
<1> HIDE DEF done, merged
<1>4. MergedRight(T, ParsedNode(F, z).hash, merged)
  BY <1>1, <1>3 DEF MergedTo, MergedRight
<1> QED  BY <1>4 DEF merged

---------------------------------------------------------------------------
(* The client and its provider                                             *)

(* What holds all along: the provider has full trees, and the client's     *)
(* head is among nodes that have the hashes of their data, with the hash   *)
(* of the full tree that it stands for.                                    *)
FullTreesStored ==
  /\ DOMAIN nodes \in SUBSET Nat /\ Bounded(DOMAIN nodes) /\ Empty \notin DOMAIN nodes
  /\ \A root \in versions \cup {full} : TreeOK(nodes, root)

HeadStored == Honest(cnodes) /\ head \in DOMAIN cnodes \cup {Empty}

StandsForFull == FullTreesStored /\ HeadStored /\ SameRoot

(* At first both trees are empty.                                          *)
LEMMA InitStands == Init => StandsForFull
<1> SUFFICES ASSUME Init
             PROVE  StandsForFull
  OBVIOUS
<1>1. /\ nodes = NoTable /\ cnodes = NoTable /\ versions = {Empty} /\ full = Empty /\ head = Empty
      /\ DOMAIN NoTable = {}
  BY DEF Init, NoTable
<1>2. Bounded({})
  BY DEF Bounded
<1>3. TreeOK(NoTable, Empty)
  BY EmptyIsATree, TreesAreSubtrees
<1>4. Honest(NoTable)
  BY <1>1, <1>2 DEF Honest
<1>5. SameRoot
  BY <1>1 DEF SameRoot, RootHash, ParsedNode
<1> QED  BY <1>1, <1>2, <1>3, <1>4, <1>5 DEF StandsForFull, FullTreesStored, HeadStored

(* Sets of updates as the model has them.                                  *)
LEMMA UpdateSetsArePlain ==
  ASSUME NEW set \in UpdateSets
  PROVE  PlainUpdates(set)
<1>1. PICK S \in SUBSET Key : set \in [S -> Updates]
  BY DEF UpdateSets
<1>2. \A u \in Updates : u \in Update /\ u.override = Empty
  <2> SUFFICES ASSUME NEW u \in Updates
               PROVE  u \in Update /\ u.override = Empty
    OBVIOUS
  <2>1. CASE u = Delete
    BY <2>1 DEF Update, Delete, Empty
  <2>2. CASE \E v \in Val : u = Put(v)
    <3>1. PICK v \in Val : u = Put(v)
      BY <2>2
    <3> QED  BY <3>1 DEF Update, Put, Empty
  <2> QED  BY <2>1, <2>2 DEF Updates
<1>3. DOMAIN set = S /\ \A k \in S : set[k] \in Updates
  BY <1>1
<1> QED  BY <1>2, <1>3, KeyAssumption DEF PlainUpdates

(* They go into any of the provider's trees.                               *)
PutIntoFull(T, U, root) ==
  /\ Extends(U, T) /\ DOMAIN U \in SUBSET Nat /\ Bounded(DOMAIN U) /\ Empty \notin DOMAIN U
  /\ TreeOK(U, root)

(* The provider applies updates: trees again, beside those it had.         *)
LEMMA FullTreesArePut ==
  ASSUME NEW T, DOMAIN T \in SUBSET Nat, Bounded(DOMAIN T), Empty \notin DOMAIN T,
         NEW root, TreeOK(T, root), NEW set, PlainUpdates(set), RoomForLeaves(T, set),
         NEW put, put = PutAll(T, root, set)
  PROVE  PutIntoFull(T, put.nodes, put.built.id) /\ put.built = Reuse(put.nodes, put.built.id)
<1>1. CanPut(T, root, set)
  BY PlainUpdatesCanBePut
<1>2. HasPut(T, root, set, put)
  BY <1>1, PutAllPuts
<1>3. ~put.thrown
  <2>1. \A k \in DOMAIN set : ~Foreign(T, k, set[k])
    BY DEF PlainUpdates, Foreign
  <2> QED  BY <1>2, <2>1 DEF HasPut
<1>4. PutStored(T, set, put.nodes) /\ PutTree(T, root, set, put.nodes, put.built.id, put.output)
      /\ put.built = Reuse(put.nodes, put.built.id)
  BY <1>2, <1>3 DEF HasPut
<1> QED  BY <1>4 DEF PutStored, PutTree, PutIntoFull

(* More nodes beside the provider's.                                       *)
LEMMA RootsStay ==
  ASSUME NEW T, NEW U, Extends(U, T), NEW root, TreeOK(T, root)
  PROVE  TreeOK(U, root) /\ ParsedNode(U, root) = ParsedNode(T, root)
<1>1. TreeOK(U, root) /\ root \in DOMAIN T \cup {Empty}
  BY OldTreesStay DEF TreeOK
<1> QED  BY <1>1 DEF ParsedNode, Extends

(* The provider applies its first updates; the client is not concerned.    *)
LEMMA ApplyStands ==
  ASSUME StandsForFull, NEW set \in UpdateSets, Apply(set)
  PROVE  StandsForFull'
<1> DEFINE put == PutAll(nodes, Empty, set)
<1>1. /\ DOMAIN nodes \in SUBSET Nat /\ Bounded(DOMAIN nodes) /\ Empty \notin DOMAIN nodes
      /\ \A root \in versions \cup {full} : TreeOK(nodes, root)
  BY DEF StandsForFull, FullTreesStored
<1>2. /\ versions = {Empty} /\ RoomForLeaves(nodes, set) /\ nodes' = put.nodes
      /\ versions' = versions \cup {put.built.id}
      /\ UNCHANGED <<cnodes, head, full, proven, proofs, updates>>
  BY DEF Apply
<1>3. PlainUpdates(set)
  BY UpdateSetsArePlain
<1> DEFINE new == put.built.id
<1>4. PutIntoFull(nodes, nodes', new)
  <2>1. TreeOK(nodes, Empty)
    BY <1>1, <1>2
  <2>2. PutIntoFull(nodes, put.nodes, put.built.id)
    <3> HIDE DEF put
    <3> QED  BY <1>1, <1>2, <1>3, <2>1, FullTreesArePut DEF put
  <2> QED  BY <1>2, <2>2
<1> HIDE DEF new, put
<1>5. \A root \in versions \cup {full} : TreeOK(nodes', root) /\ ParsedNode(nodes', root) = ParsedNode(nodes, root)
  BY <1>1, <1>4, RootsStay DEF PutIntoFull
<1>6. FullTreesStored'
  <2>1. versions' = versions \cup {new} /\ full' = full
    BY <1>2 DEF new
  <2> QED  BY <1>4, <1>5, <2>1 DEF FullTreesStored, PutIntoFull
<1>7. HeadStored'
  BY <1>2 DEF StandsForFull, HeadStored
<1>8. SameRoot'
  <2>1. ParsedNode(cnodes, head).hash = ParsedNode(nodes, full).hash
    BY DEF StandsForFull, SameRoot, RootHash
  <2> QED  BY <1>2, <1>5, <2>1 DEF SameRoot, RootHash
<1> QED  BY <1>6, <1>7, <1>8 DEF StandsForFull

(* The client updates its partial tree, and the full tree it stands for is *)
(* updated alike: apply has put the same into both, if it has not thrown.  *)
LEMMA ClientApplyStands ==
  ASSUME StandsForFull, NEW set \in UpdateSets, ClientApply(set)
  PROVE  StandsForFull'
<1> DEFINE put    == PutAll(cnodes, head, set)
           mirror == PutAll(nodes, full, set)
<1>1. /\ DOMAIN nodes \in SUBSET Nat /\ Bounded(DOMAIN nodes) /\ Empty \notin DOMAIN nodes
      /\ \A root \in versions \cup {full} : TreeOK(nodes, root)
      /\ Honest(cnodes) /\ head \in DOMAIN cnodes \cup {Empty}
      /\ ParsedNode(cnodes, head).hash = ParsedNode(nodes, full).hash
  BY DEF StandsForFull, FullTreesStored, HeadStored, SameRoot, RootHash
<1>2. /\ RoomForLeaves(nodes, set) /\ RoomForLeaves(cnodes, set)
      /\ cnodes' = put.nodes /\ versions' = versions
      /\ \/ put.thrown /\ UNCHANGED <<nodes, head, full, proven>>
         \/ /\ ~put.thrown /\ head' = put.built.id
            /\ nodes' = mirror.nodes /\ full' = mirror.built.id
  BY DEF ClientApply
<1>3. PlainUpdates(set)
  BY UpdateSetsArePlain
<1> HIDE DEF put, mirror
<1>4. SubOK(nodes, full, 0) /\ TreeOK(nodes, full)
  BY <1>1, TreesAreSubtrees
<1>5. PutAlike(cnodes, put, mirror)
  <2>1. Stands(cnodes, head, nodes, full)
    BY <1>1 DEF Stands
  <2> QED  BY <1>1, <1>2, <1>3, <1>4, <2>1, PutAllInStep DEF put, mirror
<1>6. Honest(cnodes') /\ Extends(cnodes', cnodes)
  BY <1>2, <1>5 DEF PutAlike
<1>7. CASE put.thrown /\ UNCHANGED <<nodes, head, full, proven>>
  <2>1. FullTreesStored'
    BY <1>1, <1>2, <1>7 DEF FullTreesStored
  <2>2. HeadStored'
    BY <1>1, <1>6, <1>7 DEF HeadStored, Extends
  <2>3. SameRoot'
    <3>1. ParsedNode(cnodes', head) = ParsedNode(cnodes, head)
      BY <1>1, <1>6 DEF ParsedNode, Extends
    <3> QED  BY <1>1, <1>7, <3>1 DEF SameRoot, RootHash
  <2> QED  BY <2>1, <2>2, <2>3 DEF StandsForFull
<1>8. CASE ~put.thrown /\ head' = put.built.id /\ nodes' = mirror.nodes /\ full' = mirror.built.id
  <2>1. PutIntoFull(nodes, mirror.nodes, mirror.built.id) /\ mirror.built = Reuse(mirror.nodes, mirror.built.id)
    BY <1>1, <1>2, <1>3, <1>4, FullTreesArePut DEF mirror
  <2>2. FullTreesStored'
    <3>1. \A root \in versions : TreeOK(nodes', root)
      BY <1>1, <1>8, <2>1, RootsStay DEF PutIntoFull
    <3> QED  BY <1>2, <1>8, <2>1, <3>1 DEF FullTreesStored, PutIntoFull
  <2>3. InTable(cnodes', put.built) /\ put.built.hash = mirror.built.hash
    BY <1>2, <1>5, <1>8 DEF PutAlike
  <2>4. HeadStored'
    BY <1>6, <1>8, <2>3 DEF HeadStored, InTable
  <2>5. SameRoot'
    <3>1. put.built.hash = ParsedNode(cnodes', head').hash
      BY <1>8, <2>3 DEF InTable, Reuse, Built
    <3>2. mirror.built.hash = ParsedNode(nodes', full').hash
      BY <1>8, <2>1 DEF Reuse, Built
    <3> QED  BY <2>3, <3>1, <3>2 DEF SameRoot, RootHash
  <2> QED  BY <2>2, <2>4, <2>5 DEF StandsForFull
<1> QED  BY <1>2, <1>7, <1>8

(* Ids for the leaves of a proof.                                          *)
LEMMA LeavesHaveRoom ==
  ASSUME NEW T, Honest(T)
  PROVE  RoomAbove(DOMAIN T, NextId(DOMAIN T, TRUE))
<1> DEFINE used == DOMAIN T
           S    == LeafIds(used)
           b    == NextId(used, TRUE)
<1>1. used \in SUBSET Nat /\ Bounded(used) /\ Empty \notin used
  BY DEF Honest
<1>2. \A x : x \in S <=> x \in used /\ x < FirstInterior
  BY DEF LeafIds
<1>3. b = Over(S, 1)
  <2>1. {x \in used : (x < FirstInterior) <=> TRUE} = S
    BY <1>2
  <2> QED  BY <2>1 DEF NextId, Over
<1> HIDE DEF S, used, b
<1>4. S \in SUBSET Nat /\ Bounded(S) /\ 1 \in Nat /\ \A x \in S : x >= 1
  <2>1. S \in SUBSET Nat
    BY <1>1, <1>2
  <2>2. \A x \in S : x \in Nat /\ x # 0
    BY <1>1, <1>2 DEF Empty
  <2>3. \A x \in S : x >= 1
    BY <2>2
  <2> QED  BY <1>1, <1>2, <2>1, <2>3 DEF Bounded
<1>5. b \in Nat /\ b >= 1 /\ \A x \in S : x < b
  BY <1>3, <1>4, NextOver
<1>6. RoomAbove(used, b)
  BY <1>2, <1>5 DEF RoomAbove
<1> QED  BY <1>6 DEF used, b

(* Whatever proof is received, of this version or another one: what is     *)
(* imported for the head has the root hash that the client trusts, and     *)
(* what is merged has the one that the head has.                           *)
LEMMA ReceiveStands ==
  ASSUME StandsForFull, NEW proof, IsSeq(proof.strands), CmdSeq(proof.cmds), NEW keys, Receive(proof, keys)
  PROVE  StandsForFull'
<1> DEFINE result == Import(cnodes, proof, 0)
           merged == MergeTrees(result.nodes, head, result.built.id)
<1>1. /\ FullTreesStored /\ Honest(cnodes) /\ head \in DOMAIN cnodes \cup {Empty}
      /\ (\A root \in versions \cup {full} : TreeOK(nodes, root))
      /\ ParsedNode(cnodes, head).hash = ParsedNode(nodes, full).hash
  BY DEF StandsForFull, FullTreesStored, HeadStored, SameRoot, RootHash
<1>2. Imported(cnodes, result)
  <2>1. NextId(DOMAIN cnodes, TRUE) + Len(proof.strands) <= FirstInterior
    BY DEF Receive, RoomForStrands
  <2> QED  BY <1>1, <2>1, LeavesHaveRoom, ImportIsHonest
<1> HIDE DEF result
<1>3. Honest(result.nodes) /\ Extends(result.nodes, cnodes) /\ (~result.thrown => InTable(result.nodes, result.built))
  BY <1>2 DEF Imported
<1>4. /\ head \in DOMAIN result.nodes \cup {Empty} /\ ParsedNode(result.nodes, head) = ParsedNode(cnodes, head)
  BY <1>1, <1>3 DEF ParsedNode, Extends
<1>5. ASSUME cnodes' = result.nodes, UNCHANGED <<nodes, versions, head, full>>
      PROVE  StandsForFull'
  <2>1. FullTreesStored'
    BY <1>1, <1>5 DEF FullTreesStored
  <2>2. HeadStored'
    BY <1>3, <1>4, <1>5 DEF HeadStored
  <2>3. SameRoot'
    BY <1>1, <1>4, <1>5 DEF SameRoot, RootHash
  <2> QED  BY <2>1, <2>2, <2>3 DEF StandsForFull
<1>6. ASSUME NEW version \in versions, ImportProof(proof, version, keys)
      PROVE  StandsForFull'
  <2>1. /\ cnodes' = result.nodes /\ UNCHANGED <<nodes, versions>>
        /\ \/ UNCHANGED <<head, full, proven>>
           \/ /\ ~result.thrown /\ result.built.hash = RootHash(version)
              /\ head' = result.built.id /\ full' = version
    BY <1>6 DEF ImportProof, result
  <2>2. CASE UNCHANGED <<head, full, proven>>
    BY <1>5, <2>1, <2>2
  <2>3. CASE ~result.thrown /\ result.built.hash = RootHash(version) /\ head' = result.built.id /\ full' = version
    <3>1. FullTreesStored'
      BY <1>1, <2>1, <2>3 DEF FullTreesStored
    <3>2. InTable(result.nodes, result.built)
      BY <1>3, <2>3
    <3>3. HeadStored'
      BY <1>3, <2>1, <2>3, <3>2 DEF HeadStored, InTable
    <3>4. SameRoot'
      <4>1. result.built.hash = ParsedNode(cnodes', head').hash
        BY <2>1, <2>3, <3>2 DEF InTable, Reuse, Built
      <4>2. RootHash(version) = ParsedNode(nodes', full').hash
        BY <2>1, <2>3 DEF RootHash
      <4> QED  BY <2>3, <4>1, <4>2 DEF SameRoot, RootHash
    <3> QED  BY <3>1, <3>3, <3>4 DEF StandsForFull
  <2> QED  BY <2>1, <2>2, <2>3
<1>7. ASSUME MergeProof(proof, keys)
      PROVE  StandsForFull'
  <2>1. /\ UNCHANGED <<nodes, versions, full>>
        /\ \/ cnodes' = result.nodes /\ UNCHANGED <<head, proven>>
           \/ /\ ~result.thrown /\ result.built.hash = ParsedNode(cnodes, head).hash
              /\ cnodes' = merged.nodes /\ head' = merged.built.id
    BY <1>7 DEF MergeProof, Merge, result
  <2>2. CASE cnodes' = result.nodes /\ UNCHANGED <<head, proven>>
    BY <1>5, <2>1, <2>2
  <2>3. CASE /\ ~result.thrown /\ result.built.hash = ParsedNode(cnodes, head).hash
             /\ cnodes' = merged.nodes /\ head' = merged.built.id
    <3>1. FullTreesStored'
      BY <1>1, <2>1 DEF FullTreesStored
    <3>2. InTable(result.nodes, result.built)
      BY <1>3, <2>3
    <3>3. Stands(result.nodes, head, nodes, full) /\ Stands(result.nodes, result.built.id, nodes, full)
      <4>1. ParsedNode(result.nodes, result.built.id).hash = result.built.hash
        BY <3>2 DEF InTable, Reuse, Built
      <4> QED  BY <1>1, <1>4, <2>3, <3>2, <4>1 DEF Stands, InTable
    <3>4. SubOK(nodes, full, 0)
      BY <1>1, TreesAreSubtrees
    <3>5. MergedRight(result.nodes, ParsedNode(nodes, full).hash, merged)
      <4> DEFINE y == result.built.id
      <4>1. Stands(result.nodes, y, nodes, full) /\ merged = MergeTrees(result.nodes, head, y)
        BY <3>3
      <4> HIDE DEF y, merged
      <4> QED  BY <1>3, <3>3, <3>4, <4>1, MergesKeepTheHash
    <3> HIDE DEF merged
    <3>6. Honest(cnodes') /\ InTable(cnodes', merged.built) /\ merged.built.hash = ParsedNode(nodes, full).hash
      BY <2>3, <3>5 DEF MergedRight
    <3>7. HeadStored'
      BY <2>3, <3>6 DEF HeadStored, InTable
    <3>8. SameRoot'
      <4>1. merged.built.hash = ParsedNode(cnodes', head').hash
        BY <2>3, <3>6 DEF InTable, Reuse, Built
      <4> QED  BY <2>1, <3>6, <4>1 DEF SameRoot, RootHash
    <3> QED  BY <3>1, <3>7, <3>8 DEF StandsForFull
  <2> QED  BY <2>1, <2>2, <2>3
<1> QED  BY <1>6, <1>7 DEF Receive

(* Proofs of the provider's trees are sequences, as Receive takes them.    *)
LEMMA ProofsOfFullTrees ==
  ASSUME FullTreesStored, NEW root \in versions
  PROVE  /\ \A keys \in SUBSET Key : IsSeq(ProofOf(root, keys).strands) /\ CmdSeq(ProofOf(root, keys).cmds)
         /\ \A low, high : IsSeq(ProofOfRange(root, low, high).strands) /\ CmdSeq(ProofOfRange(root, low, high).cmds)
<1>1. DOMAIN nodes \in SUBSET Nat /\ SubOK(nodes, root, 0)
  BY TreesAreSubtrees DEF FullTreesStored
<1>2. ASSUME NEW keys \in SUBSET Key
      PROVE  IsSeq(ProofOf(root, keys).strands) /\ CmdSeq(ProofOf(root, keys).cmds)
  <2>1. IsSeq(ItemsOf(nodes, root, keys))
    BY <1>1, ItemsAreASequence, KeyAssumption
  <2> QED  BY <2>1, ProofsAreSequences DEF ProofOf
<1>3. ASSUME NEW low, NEW high
      PROVE  IsSeq(ProofOfRange(root, low, high).strands) /\ CmdSeq(ProofOfRange(root, low, high).cmds)
  <2>1. IsSeq(ItemsInRange(nodes, root, low, high))
    BY <1>1, RangeItemsAreASequence
  <2> QED  BY <2>1, ProofsAreSequences DEF ProofOfRange
<1> QED  BY <1>2, <1>3

(* Every step of either side, or none.                                     *)
LEMMA NextStands ==
  ASSUME StandsForFull, [Next]_vars
  PROVE  StandsForFull'
<1>1. ASSUME NEW set \in UpdateSets, Apply(set)
      PROVE  StandsForFull'
  BY <1>1, ApplyStands
<1>2. ASSUME NEW set \in UpdateSets, ClientApply(set)
      PROVE  StandsForFull'
  BY <1>2, ClientApplyStands
<1>3. ASSUME NEW root \in versions, NEW keys \in SUBSET Key \ {{}}, Receive(ProofOf(root, keys), keys)
      PROVE  StandsForFull'
  <2> DEFINE proof == ProofOf(root, keys)
  <2>1. IsSeq(proof.strands) /\ CmdSeq(proof.cmds)
    BY ProofsOfFullTrees DEF StandsForFull
  <2>2. Receive(proof, keys)
    BY <1>3
  <2> HIDE DEF proof
  <2> QED  BY <2>1, <2>2, ReceiveStands
<1>4. ASSUME NEW root \in versions, NEW low \in Key, NEW high \in Key,
             Receive(ProofOfRange(root, low, high), low .. high)
      PROVE  StandsForFull'
  <2> DEFINE proof == ProofOfRange(root, low, high)
             keys  == low .. high
  <2>1. IsSeq(proof.strands) /\ CmdSeq(proof.cmds)
    BY ProofsOfFullTrees DEF StandsForFull
  <2>2. Receive(proof, keys)
    BY <1>4
  <2> HIDE DEF proof, keys
  <2> QED  BY <2>1, <2>2, ReceiveStands
<1>5. ASSUME UNCHANGED vars
      PROVE  StandsForFull'
  BY <1>5 DEF vars, StandsForFull, FullTreesStored, HeadStored, SameRoot, RootHash
<1> QED  BY <1>1, <1>2, <1>3, <1>4, <1>5 DEF Next

(* "After an update, the new root of the partial-tree will be the same as  *)
(* the root would be if you made the same modifications to the full tree"  *)
(* (README): whatever trees the provider has, whatever proofs of them the  *)
(* client imports and merges, late ones included, and whatever updates it  *)
(* makes in between, for keys of any length.                               *)
THEOREM PartialTreesKeepTheRoot == Spec => []SameRoot
<1>1. Init => StandsForFull
  BY InitStands
<1>2. StandsForFull /\ [Next]_vars => StandsForFull'
  BY NextStands
<1>3. StandsForFull => SameRoot
  BY DEF StandsForFull
<1> QED  BY <1>1, <1>2, <1>3, PTL DEF Spec

---------------------------------------------------------------------------
(* Lookups in a partial tree                                               *)

(* The leaves of a key in a tree are below one of its nodes.               *)
Holds(F, root, y, k) ==
  /\ Leaves(F, y) \subseteq Leaves(F, root)
  /\ \A leaf \in Leaves(F, root) : F[leaf].key = k => leaf \in Leaves(F, y)

(* Where the walk for a key is, in a partial tree: at a node that stands   *)
(* for the one below which the full tree has the key.                      *)
Reached(T, F, root, x, d, k) ==
  \E y : SubOK(F, y, d) /\ Stands(T, x, F, y) /\ Holds(F, root, y, k)

(* One step down.                                                          *)
LEMMA ReachedBelow ==
  ASSUME NEW T, Honest(T), NEW F, NEW root, NEW d \in 0 .. Depth, NEW x, NEW k \in KeySpace,
         Reached(T, F, root, x, d, k), IsBranch(ParsedNode(T, x))
  PROVE  /\ d \in 0 .. Depth - 1
         /\ Reached(T, F, root, IF GetBit(k, d) = 1 THEN ParsedNode(T, x).right ELSE ParsedNode(T, x).left, d + 1, k)
<1>1. PICK y : SubOK(F, y, d) /\ Stands(T, x, F, y) /\ Holds(F, root, y, k)
  BY DEF Reached
<1>2. ~IsLeaf(ParsedNode(T, x)) /\ ParsedNode(T, x).type # "Witness" /\ x # Empty /\ ParsedNode(T, x) = T[x]
  BY DEF IsBranch, IsLeaf, ParsedNode, EmptyNode
<1>3. /\ y # Empty /\ IsBranch(F[y]) /\ d \in 0 .. Depth - 1
      /\ SubOK(F, F[y].left, d + 1) /\ SubOK(F, F[y].right, d + 1)
      /\ Stands(T, T[x].left, F, F[y].left) /\ Stands(T, T[x].right, F, F[y].right)
  BY <1>1, <1>2, KindsAlike
<1>4. /\ Leaves(F, y) = Leaves(F, F[y].left) \cup Leaves(F, F[y].right)
      /\ StoredBranch(F, y, d)
  <2>1. ~IsLeaf(F[y]) /\ F[y].type # "Leaf"
    BY <1>3 DEF IsBranch, IsLeaf
  <2> QED  BY <1>1, <1>3, <2>1, KindsOfTrees
<1>5. /\ \A leaf \in Leaves(F, F[y].left) : GetBit(F[leaf].key, d) = 0
      /\ \A leaf \in Leaves(F, F[y].right) : GetBit(F[leaf].key, d) = 1
  BY <1>4 DEF StoredBranch, SidesOK
<1>6. CASE GetBit(k, d) = 1
  <2>1. Holds(F, root, F[y].right, k)
    BY <1>1, <1>4, <1>5, <1>6 DEF Holds
  <2> QED  BY <1>2, <1>3, <1>6, <2>1 DEF Reached
<1>7. CASE GetBit(k, d) # 1
  <2>1. Holds(F, root, F[y].left, k)
    BY <1>1, <1>4, <1>5, <1>7 DEF Holds
  <2> QED  BY <1>2, <1>3, <1>7, <2>1 DEF Reached
<1> QED  BY <1>6, <1>7

(* All calls of one depth are where their keys lead.                       *)
WalkedTo(T, F, root, calls, n, keys) ==
  \A call \in calls[n] : \A k \in call.keys : k \in keys /\ Reached(T, F, root, call.id, n, k)

(* From the head down.                                                     *)
LEMMA CallsAreReached ==
  ASSUME NEW T, Honest(T), NEW F, NEW root, SubOK(F, root, 0), NEW x, Stands(T, x, F, root),
         NEW keys \in SUBSET KeySpace, NEW calls, ByLevel(calls, T, x, keys)
  PROVE  \A n \in 0 .. Depth : WalkedTo(T, F, root, calls, n, keys)
<1> DEFINE S == {n \in Nat : n <= Depth => WalkedTo(T, F, root, calls, n, keys)}
<1>1. Depth \in Nat
  BY DepthAssumption
<1>2. 0 \in S
  <2>1. \A k : Holds(F, root, root, k)
    BY DEF Holds
  <2>2. \A k : Reached(T, F, root, x, 0, k)
    BY <2>1 DEF Reached
  <2>3. WalkedTo(T, F, root, calls, 0, keys)
    BY <2>2 DEF WalkedTo, ByLevel, Call
  <2> QED  BY <2>3
<1>3. ASSUME NEW n \in S
      PROVE  n + 1 \in S
  <2> SUFFICES ASSUME n + 1 <= Depth
               PROVE  WalkedTo(T, F, root, calls, n + 1, keys)
    OBVIOUS
  <2>1. n \in 0 .. Depth /\ WalkedTo(T, F, root, calls, n, keys)
    BY <1>1
  <2> SUFFICES ASSUME NEW c \in calls[n + 1], NEW k \in c.keys
               PROVE  k \in keys /\ Reached(T, F, root, c.id, n + 1, k)
    BY DEF WalkedTo
  <2>2. PICK call \in calls[n] : c \in GetBelow(T, n, call)
    BY <2>1 DEF ByLevel
  <2> DEFINE node  == ParsedNode(T, call.id)
             right == {j \in call.keys : GetBit(j, n) = 1}
  <2>3. /\ IsBranch(node)
        /\ c = Call(node.left, call.keys \ right) \/ c = Call(node.right, right)
    BY <2>2 DEF GetBelow
  <2>4. /\ k \in call.keys
        /\ c.id = IF GetBit(k, n) = 1 THEN node.right ELSE node.left
    BY <2>3 DEF Call
  <2>5. k \in keys /\ Reached(T, F, root, call.id, n, k)
    BY <2>1, <2>4 DEF WalkedTo
  <2>6. Reached(T, F, root, IF GetBit(k, n) = 1 THEN node.right ELSE node.left, n + 1, k)
    <3>1. k \in KeySpace
      BY <2>5
    <3> QED  BY <2>1, <2>3, <2>5, <3>1, ReachedBelow
  <2> QED  BY <2>4, <2>5, <2>6
<1>4. S = Nat
  <2>1. S \in SUBSET Nat
    OBVIOUS
  <2> HIDE DEF S
  <2> QED  BY <1>2, <1>3, <2>1, AllNumbers
<1>5. ASSUME NEW n \in 0 .. Depth
      PROVE  WalkedTo(T, F, root, calls, n, keys)
  <2>1. n \in Nat /\ n <= Depth
    BY <1>1
  <2> QED  BY <1>4, <2>1
<1> QED  BY <1>5

(* Each key comes to a node that is no branch, and whichever it is, it is  *)
(* on the way of the key.                                                  *)
LEMMA WalksEnd ==
  ASSUME NEW T, Honest(T), NEW F, NEW root, SubOK(F, root, 0), NEW x, Stands(T, x, F, root),
         NEW keys \in SUBSET KeySpace, NEW k \in keys
  PROVE  /\ \E call \in Calls(T, x, keys) : k \in call.keys /\ ~IsBranch(ParsedNode(T, call.id))
         /\ \A call \in Calls(T, x, keys) : k \in call.keys =>
              \E d \in 0 .. Depth : Reached(T, F, root, call.id, d, k)
<1>1. PICK calls : /\ ByLevel(calls, T, x, keys)
                   /\ \A call : call \in Calls(T, x, keys) <=> \E n \in 0 .. Depth : call \in calls[n]
  BY CallsByLevel
<1>2. \A n \in 0 .. Depth : WalkedTo(T, F, root, calls, n, keys)
  <2>1. ByLevel(calls, T, x, keys)
    BY <1>1
  <2> HIDE <1>1
  <2> QED  BY <2>1, CallsAreReached
<1>3. Depth \in Nat /\ Depth \in 0 .. Depth
  BY DepthAssumption
<1>4. \/ \E call \in calls[Depth] : k \in call.keys
      \/ \E m \in 0 .. Depth - 1 : \E call \in calls[m] :
           k \in call.keys /\ ~IsBranch(ParsedNode(T, call.id))
  <2>1. ByLevel(calls, T, x, keys)
    BY <1>1
  <2> HIDE <1>1, <1>2
  <2>2. \A n \in Nat :
          \/ \E call \in calls[n] : k \in call.keys
          \/ \E m \in 0 .. n - 1 : \E call \in calls[m] :
               k \in call.keys /\ ~IsBranch(ParsedNode(T, call.id))
    BY <2>1, KeysAreHandedDown
  <2> QED  BY <1>3, <2>2
<1>5. \E call \in Calls(T, x, keys) : k \in call.keys /\ ~IsBranch(ParsedNode(T, call.id))
  <2>1. CASE \E call \in calls[Depth] : k \in call.keys
    <3>1. PICK call \in calls[Depth] : k \in call.keys
      BY <2>1
    <3>2. Reached(T, F, root, call.id, Depth, k)
      BY <1>2, <1>3, <3>1 DEF WalkedTo
    <3>3. ~IsBranch(ParsedNode(T, call.id))
      <4> SUFFICES ASSUME IsBranch(ParsedNode(T, call.id))
                   PROVE  FALSE
        OBVIOUS
      <4>1. Depth \in 0 .. Depth - 1
        BY <1>3, <3>2, ReachedBelow
      <4> QED  BY <1>3, <4>1
    <3> QED  BY <1>1, <1>3, <3>1, <3>3
  <2>2. CASE \E m \in 0 .. Depth - 1 : \E call \in calls[m] :
               k \in call.keys /\ ~IsBranch(ParsedNode(T, call.id))
    <3>1. PICK m \in 0 .. Depth - 1 : \E call \in calls[m] :
            k \in call.keys /\ ~IsBranch(ParsedNode(T, call.id))
      BY <2>2
    <3>2. m \in 0 .. Depth
      BY <1>3
    <3> QED  BY <1>1, <3>1, <3>2
  <2> QED  BY <1>4, <2>1, <2>2
<1>6. \A call \in Calls(T, x, keys) : k \in call.keys => \E d \in 0 .. Depth : Reached(T, F, root, call.id, d, k)
  BY <1>1, <1>2 DEF WalkedTo
<1> QED  BY <1>5, <1>6

(* An answer that agrees with the records, if it is one.                   *)
Truthful(map, k, answer) ==
  \/ answer = Unknown
  \/ k \in DOMAIN map /\ answer.exists /\ answer.val = map[k]
  \/ k \notin DOMAIN map /\ ~answer.exists

(* What is said there.                                                     *)
LEMMA EndsAreTruthful ==
  ASSUME NEW T, Honest(T), NEW F, NEW root, TreeOK(F, root), NEW d \in 0 .. Depth, NEW x, NEW k \in KeySpace,
         Reached(T, F, root, x, d, k), ~IsBranch(ParsedNode(T, x))
  PROVE  Truthful(Contents(F, root), k, AnswerAt(T, x, k))
<1> DEFINE map == Contents(F, root)
<1>1. PICK y : SubOK(F, y, d) /\ Stands(T, x, F, y) /\ Holds(F, root, y, k)
  BY DEF Reached
<1>2. /\ DOMAIN map = KeysOf(F, root)
      /\ \A leaf \in Leaves(F, root) : map[F[leaf].key] = F[leaf].val
  <2>1. WellFormed(F, root) /\ 0 \in 0 .. Depth
    BY DepthAssumption DEF TreeOK
  <2>2. root \in Subtrees(F, root, 0)
    BY FirstLevel DEF Subtrees
  <2>3. OneLeafEach(F, root)
    BY <2>1, <2>2, KeysHaveOneLeaf
  <2> QED  BY <2>3, ContentsHaveTheRecords
<1> HIDE DEF map
<1>3. k # NoKey
  BY KeysAreNumbers DEF NoKey
<1>4. CASE ParsedNode(T, x).type = "Witness"
  BY <1>4 DEF AnswerAt, Truthful
<1>5. CASE x = Empty /\ y = Empty
  <2>1. Leaves(F, y) = {}
    BY <1>5, EmptyIsATree
  <2>2. k \notin DOMAIN map
    BY <1>1, <1>2, <2>1 DEF Holds, KeysOf
  <2>3. AnswerAt(T, x, k) = NoRecord
    BY <1>3, <1>5 DEF AnswerAt, ParsedNode, EmptyNode
  <2>4. ~NoRecord.exists
    BY DEF NoRecord, Answer
  <2> QED  BY <2>2, <2>3, <2>4 DEF Truthful, map
<1>6. CASE /\ x # Empty /\ y # Empty /\ IsLeaf(T[x]) /\ F[y].type = "Leaf" /\ StoredLeaf(F, y)
           /\ T[x].key = F[y].key /\ T[x].val = F[y].val
  <2>1. Leaves(F, y) = {y}
    BY <1>6, LeafIsATree
  <2>2. ParsedNode(T, x) = T[x] /\ T[x].type # "Witness"
    BY <1>6 DEF ParsedNode, IsLeaf
  <2>3. CASE T[x].key # k
    <3>1. k \notin DOMAIN map
      BY <1>1, <1>2, <1>6, <2>1, <2>3 DEF Holds, KeysOf
    <3>2. AnswerAt(T, x, k) = NoRecord
      BY <2>2, <2>3 DEF AnswerAt
    <3>3. ~NoRecord.exists
      BY DEF NoRecord, Answer
    <3> QED  BY <3>1, <3>2, <3>3 DEF Truthful, map
  <2>4. CASE T[x].key = k /\ T[x].type # "Leaf"
    BY <2>2, <2>4 DEF AnswerAt, Truthful
  <2>5. CASE T[x].key = k /\ T[x].type = "Leaf"
    <3>1. y \in Leaves(F, root) /\ F[y].key = k
      BY <1>1, <1>6, <2>1, <2>5 DEF Holds
    <3>2. k \in DOMAIN map /\ map[k] = T[x].val
      BY <1>2, <1>6, <3>1 DEF KeysOf
    <3>3. AnswerAt(T, x, k) = Answer(TRUE, T[x].val, x)
      BY <2>2, <2>5 DEF AnswerAt
    <3>4. AnswerAt(T, x, k).exists /\ AnswerAt(T, x, k).val = T[x].val
      BY <3>3 DEF Answer
    <3> QED  BY <3>2, <3>4 DEF Truthful, map
  <2> QED  BY <2>3, <2>4, <2>5
<1>7. CASE x # Empty /\ IsBranch(T[x])
  BY <1>7 DEF ParsedNode
<1> QED  BY <1>1, <1>4, <1>5, <1>6, <1>7, KindsAlike

(* A lookup in a partial tree throws or says what the full tree says, for  *)
(* any set of keys at once.                                                *)
THEOREM LookupsAreTruthful ==
  ASSUME NEW T, Honest(T), NEW F, NEW root, TreeOK(F, root), NEW x, Stands(T, x, F, root),
         NEW keys \in SUBSET KeySpace, NEW k \in keys
  PROVE  Truthful(Contents(F, root), k, GetMulti(T, x, keys)[k])
<1> DEFINE last(j) == CHOOSE call \in Calls(T, x, keys) : j \in call.keys /\ ~IsBranch(ParsedNode(T, call.id))
<1>1. GetMulti(T, x, keys)[k] = AnswerAt(T, last(k).id, k)
  BY DEF GetMulti
<1>2. SubOK(F, root, 0)
  BY TreesAreSubtrees
<1>3. /\ \E call \in Calls(T, x, keys) : k \in call.keys /\ ~IsBranch(ParsedNode(T, call.id))
      /\ \A call \in Calls(T, x, keys) : k \in call.keys => \E d \in 0 .. Depth : Reached(T, F, root, call.id, d, k)
  BY <1>2, WalksEnd
<1>4. last(k) \in Calls(T, x, keys) /\ k \in last(k).keys /\ ~IsBranch(ParsedNode(T, last(k).id))
  BY <1>3
<1> HIDE DEF last
<1>5. PICK d \in 0 .. Depth : Reached(T, F, root, last(k).id, d, k)
  BY <1>3, <1>4
<1>6. k \in KeySpace
  OBVIOUS
<1>7. Truthful(Contents(F, root), k, AnswerAt(T, last(k).id, k))
  BY <1>4, <1>5, <1>6, EndsAreTruthful
<1> QED  BY <1>1, <1>7

(* No lookup ever says anything but what the full tree says, unless it     *)
(* throws; AnswersAreTrue adds that it does not throw for proven keys.     *)
NeverMistaken == \A k \in KeySpace : Get(k) = Unknown \/ AsInFullTree(Get(k), k)

(* A lookup in a partial tree is never answered wrong: whatever proofs     *)
(* were imported and merged, late ones included, and whatever updates were *)
(* made, get() throws or gives what it would give on the full tree.        *)
THEOREM LookupsAreNeverMistaken == Spec => []NeverMistaken
<1>1. Init => StandsForFull
  BY InitStands
<1>2. StandsForFull /\ [Next]_vars => StandsForFull'
  BY NextStands
<1>3. StandsForFull => NeverMistaken
  <2> SUFFICES ASSUME StandsForFull, NEW k \in KeySpace
               PROVE  Get(k) = Unknown \/ AsInFullTree(Get(k), k)
    BY DEF NeverMistaken
  <2>1. Honest(cnodes) /\ TreeOK(nodes, full) /\ Stands(cnodes, head, nodes, full)
    BY DEF StandsForFull, FullTreesStored, HeadStored, SameRoot, RootHash, Stands
  <2>2. {k} \in SUBSET KeySpace /\ k \in {k}
    OBVIOUS
  <2>3. Truthful(Contents(nodes, full), k, Get(k))
    BY <2>1, <2>2, LookupsAreTruthful DEF Get
  <2> QED  BY <2>3 DEF Truthful, AsInFullTree
<1> QED  BY <1>1, <1>2, <1>3, PTL DEF Spec
=============================================================================

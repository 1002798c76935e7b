------------------------------ MODULE Iterator ------------------------------
(***************************************************************************)
(* An iterator over the leaves of the working head: where it starts, how   *)
(* it moves, and how its place is saved and found again.                   *)
(***************************************************************************)
EXTENDS TreeNodes, SequencesExt

CONSTANTS
  Trees,        \* the trees that writers leave, each a table of nodes and a root
  MaxWrites     \* bound: how many times the head is written

ASSUME TreesAssumption == \A tree \in Trees : WellFormed(tree.nodes, tree.root)

VARIABLES
  nodes,     \* the stored nodes
  head,      \* root node id of the working head
  writes,    \* how many times it has been written
  it         \* the iterator in use, if there is one, and what it has yielded

vars == <<nodes, head, writes, it>>

(* nodeStack is the path from the root to the current node.                *)
AnIterator(target, reverse, stack, seen) ==
  [target |-> target, reverse |-> reverse, nodeStack |-> stack, seen |-> seen]

NoIterator == AnIterator(NoKey, FALSE, <<>>, {})

NodeAt(id) == ParsedNode(nodes, id)
Current(stack) == NodeAt(Last(stack))

---------------------------------------------------------------------------
(* Child of a branch on the far side of the direction of travel, and the   *)
(* one to enter a subtree by.                                              *)
Far(node, reverse) == IF reverse THEN node.left ELSE node.right

(* Mutant: subtrees are always entered from the left.                      *)
EntryLeft(node, reverse) == IF node.left # Empty THEN node.left ELSE node.right

Entry(node, reverse) ==
  IF Far(node, ~reverse) # Empty THEN Far(node, ~reverse) ELSE Far(node, reverse)

(* Down to a leaf; no path is longer than Depth.                           *)
Down(stack, reverse) ==
  IF IsBranch(Current(stack)) THEN Append(stack, Entry(Current(stack), reverse)) ELSE stack

Enter(stack, reverse) ==
  LET entered[n \in Nat] == IF n = 0 THEN stack ELSE Down(entered[n - 1], reverse)
  IN  entered[Depth]

LeftByFarChild(stack, i, reverse) ==
  Far(NodeAt(stack[i]), reverse) # Empty /\ Far(NodeAt(stack[i]), reverse) = stack[i + 1]

(* Mutant: next() looks at the wrong child of the ancestors.               *)
PopNear(stack, reverse) ==
  SubSeq(stack, 1, Max({0} \cup {i \in 1 .. Len(stack) - 1 : ~LeftByFarChild(stack, i, ~reverse)}))

(* Up to the first ancestor that is not left by its far child.             *)
PopDone(stack, reverse) ==
  SubSeq(stack, 1, Max({0} \cup {i \in 1 .. Len(stack) - 1 : ~LeftByFarChild(stack, i, reverse)}))

Advance(stack, reverse) ==
  LET rest == PopDone(stack, reverse) IN
  IF rest = <<>> THEN rest
  ELSE Enter(Append(rest, Far(Current(rest), reverse)), reverse)

(* The constructor: down the bits of the target for as long as there are   *)
(* children; where one is missing, to the nearest leaf on the other side.  *)
ChildToward(stack, target) ==
  IF GetBit(target, Len(stack) - 1) = 0 THEN Current(stack).left ELSE Current(stack).right

Turn(stack, target) ==
  IF IsBranch(Current(stack)) /\ ChildToward(stack, target) # Empty
  THEN Append(stack, ChildToward(stack, target))
  ELSE stack

Turned(target) ==
  LET turned[n \in Nat] == IF n = 0 THEN <<head>> ELSE Turn(turned[n - 1], target)
  IN  turned[Depth]

Seek(target) ==
  LET stack == Turned(target) IN
  IF ~IsBranch(Current(stack)) THEN stack
  ELSE IF Current(stack).left # Empty THEN Enter(Append(stack, Current(stack).left), TRUE)
  ELSE Enter(Append(stack, Current(stack).right), FALSE)

StartStack(target, reverse) ==
  LET stack == Seek(target)
      key   == Current(stack).key
      miss  == IF reverse THEN key > target ELSE key < target
  IN  IF IsLeaf(Current(stack)) /\ miss THEN Advance(stack, reverse) ELSE stack

AtEnd(stack) == stack = <<>> \/ Last(stack) = Empty

Yield(stack) == IF AtEnd(stack) THEN {} ELSE {Current(stack).key}

(* Mutant: save() records the turns to the left instead.                   *)
SavedMirrored(stack) ==
  [i \in 1 .. Len(stack) - 1 |-> NodeAt(stack[i]).left = stack[i + 1]]

(* save(): the turns of the path to the current node.                      *)
Saved(stack) ==
  [i \in 1 .. Len(stack) - 1 |-> NodeAt(stack[i]).right = stack[i + 1]]

(* restore(): the turns again, from the head; it fails (an empty stack     *)
(* here) where the tree is not that deep.                                  *)
Follow(stack, right) ==
  IF stack = <<>> \/ ~IsBranch(Current(stack)) THEN <<>>
  ELSE Append(stack, IF right THEN Current(stack).right ELSE Current(stack).left)

Restored(turns) ==
  LET followed[n \in 0 .. Len(turns)] == IF n = 0 THEN <<head>> ELSE Follow(followed[n - 1], turns[n])
  IN  followed[Len(turns)]

---------------------------------------------------------------------------
(* A write: iterators "should be discarded ... after any write".           *)
Write(tree) ==
  /\ writes < MaxWrites
  /\ writes' = writes + 1
  /\ nodes' = tree.nodes
  /\ head' = tree.root
  /\ it' = NoIterator

Iterate(target, reverse) ==
  LET stack == StartStack(target, reverse) IN
  /\ it' = AnIterator(target, reverse, stack, Yield(stack))
  /\ UNCHANGED <<nodes, head, writes>>

(* next(), in a loop that tests atEnd() first.                             *)
NextLeaf ==
  LET stack == Advance(it.nodeStack, it.reverse) IN
  /\ ~AtEnd(it.nodeStack)
  /\ it' = [it EXCEPT !.nodeStack = stack, !.seen = @ \cup Yield(stack)]
  /\ UNCHANGED <<nodes, head, writes>>

Init ==
  /\ nodes = [id \in {} |-> id]
  /\ head = Empty
  /\ writes = 0
  /\ it = NoIterator

Next ==
  \/ \E tree \in Trees : Write(tree)
  \/ \E target \in KeySpace, reverse \in BOOLEAN : Iterate(target, reverse)
  \/ NextLeaf

Spec == Init /\ [][Next]_vars

---------------------------------------------------------------------------
(* Properties                                                              *)

(* The keys still ahead of an iterator that has just been made.            *)
Ahead == {k \in DOMAIN Contents(nodes, head) :
            IF it.reverse THEN k <= it.target ELSE k >= it.target}

(* As long as it is not at its end, an iterator has yielded every record   *)
(* from its target to where it is, in order, and none twice or skipped.    *)
NothingSkipped ==
  ~AtEnd(it.nodeStack) =>
    LET here == Current(it.nodeStack).key IN
    it.seen = {k \in Ahead : IF it.reverse THEN k >= here ELSE k <= here}

(* README, "Iterators": the loop "iterates over all items in the tree over *)
(* the range".  At its end an iterator has yielded everything ahead.       *)
EndsAfterTheLast ==
  it # NoIterator /\ AtEnd(it.nodeStack) => it.seen = Ahead

(* What the code achieves: it ends early only beside a branch with nothing *)
(* on the far side, never in a tree whose branches all have two children.  *)
EndsEarlyOnlyAtAGap ==
  it # NoIterator /\ AtEnd(it.nodeStack) =>
    \/ it.seen = Ahead
    \/ /\ Len(it.nodeStack) > 1
       /\ Far(NodeAt(it.nodeStack[Len(it.nodeStack) - 1]), it.reverse) = Empty

(* save() and restore() lead back to the same place in the same tree.      *)
SavedPlaceIsFound ==
  it.nodeStack # <<>> => Restored(Saved(it.nodeStack)) = it.nodeStack
=============================================================================

------------------------------ MODULE QuadTree ------------------------------
(***************************************************************************)
(* A Quadrable object at work on its trees: sets of updates applied to the *)
(* working head, garbage collected, records looked up.  Module Quadb is a  *)
(* program that does so, one operation per transaction; what transactions  *)
(* do to each other's tables is module NodeStore's subject.                *)
(***************************************************************************)
EXTENDS UpdateSet, HeadTrees

CONSTANTS
  Deletion,      \* the change that removes a key
  ReuseLeaves,   \* TRUE: updates may ask to reuse a leaf (putReuse)
  MaxApplies     \* bound: how many sets of updates are applied

ASSUME DeletionAssumption == Deletion \notin Val
ASSUME MaxAppliesAssumption == MaxApplies \in Nat

(* With putReuse there are no records with the value "": an update that    *)
(* asks for another leaf carries that value, and putAux takes it for a put *)
(* of the value that such a record already has.                            *)
ASSUME ReuseAssumption == ReuseLeaves => EmptyVal \notin Val

VARIABLES
  last,      \* the last call of apply: the updates, the root they met, what
             \* came back through outputNodeId, and whether it threw
  applies    \* how many sets of updates have been applied

NoApply == [updates |-> NoTable, root |-> Empty, output |-> NoTable, thrown |-> FALSE]

---------------------------------------------------------------------------
(* UpdateSet::put, del and putReuse each leave one entry per key, the last *)
(* one asked for: an update set is any choice of one for some of the keys. *)
UpdateSets ==
  LET reused == IF ReuseLeaves THEN {id \in DOMAIN nodes : IsLeaf(nodes[id])} ELSE {}
      update == {Delete} \cup {Put(v) : v \in Val} \cup {PutReuse(id) : id \in reused}
  IN  UNION {[S -> update] : S \in SUBSET Key}

(* apply(): when putAux throws, what it wrote stays in the transaction but *)
(* the head is not moved.                                                  *)
Apply(updates) ==
  LET result == PutAll(nodes, heads[current], updates) IN
  /\ applies < MaxApplies
  /\ RoomForLeaves(nodes, updates)
  /\ applies' = applies + 1
  /\ nodes' = result.nodes
  /\ IF result.thrown THEN UNCHANGED <<heads, current>> ELSE SetHead(result.built.id)
  /\ last' = [updates |-> updates, root |-> heads[current],
              output |-> result.output, thrown |-> result.thrown]

(* What leaves the trees alone.                                            *)
NoUpdate ==
  /\ last' = NoApply
  /\ UNCHANGED <<nodes, applies>>

(* Mutant: a detached head is not marked.                                  *)
CollectUnmarked ==
  /\ nodes' = Restrict(nodes, UNION {Walk(nodes, heads[name]) : name \in HeadName})
  /\ last' = NoApply
  /\ UNCHANGED applies

(* A garbage collection: markAllHeads, markTree on a detached head, sweep  *)
(* and deleteNodes.                                                        *)
Collect ==
  /\ nodes' = Restrict(nodes, UNION {Walk(nodes, heads[slot]) : slot \in Slot})
  /\ last' = NoApply
  /\ UNCHANGED applies

Init ==
  /\ nodes = NoTable
  /\ last = NoApply
  /\ applies = 0

---------------------------------------------------------------------------
(* Properties                                                              *)

(* Every variable has its type: ids in the two documented ranges, children *)
(* as the type of the node says, and under each head a tree.               *)
TypeOK ==
  /\ \A id \in DOMAIN nodes :
       LET node == nodes[id] IN
       CASE node.type = "Leaf" ->
              id \in 1 .. FirstInterior - 1 /\ node.key \in Key /\ node.val \in Val
         [] node.type = "BranchLeft" ->
              id >= FirstInterior /\ node.left \in DOMAIN nodes /\ node.right = Empty
         [] node.type = "BranchRight" ->
              id >= FirstInterior /\ node.left = Empty /\ node.right \in DOMAIN nodes
         [] node.type = "BranchBoth" ->
              id >= FirstInterior /\ {node.left, node.right} \subseteq DOMAIN nodes
         [] OTHER -> FALSE
  /\ heads \in [Slot -> DOMAIN nodes \cup {Empty}]
  /\ TreesOK
  /\ applies \in 0 .. MaxApplies

(* The database is a versioned map: every set of updates takes effect on   *)
(* the working head alone, as a whole or, when apply() throws, not at all. *)
ChangeOf(update) ==
  CASE update.deletion -> Deletion
    [] update.override # Empty -> nodes[update.override].val
    [] OTHER -> update.val

Abstract == INSTANCE VersionedMap WITH
  version <- [slot \in Slot |-> ContentsOf(slot)],
  request <- [changes  |-> [k \in DOMAIN last.updates |-> ChangeOf(last.updates[k])],
              accepted |-> ~last.thrown]

IsVersionedMap == Abstract!Spec

(* apply() throws when an update asks to reuse a leaf of another key, and  *)
(* for no other reason.                                                    *)
RefusesOnlyForeignLeaves ==
  last.thrown <=> \E k \in DOMAIN last.updates :
    last.updates[k].override # Empty /\ nodes[last.updates[k].override].key # k

(* The leaf of a key that no update names stays the same node, whatever    *)
(* leaves are split and branches collapsed around it: its id is what the   *)
(* key table knows it by.                                                  *)
UntouchedLeavesKeepTheirId ==
  ~last.thrown /\ last # NoApply =>
    \A id \in Leaves(nodes, last.root) :
      nodes[id].key \notin DOMAIN last.updates => id \in Leaves(nodes, heads[current])

(* What comes back through outputNodeId: the leaf that was added or the    *)
(* one that was deleted, and 0 only if the record was there already, or    *)
(* there was none to delete.  It is less than the README says (line 1059,  *)
(* always 0 for a record that was there): when the same apply() splits the *)
(* leaf, putAux writes the unchanged record to a new one and reports that. *)
OutputNamesTheLeaf ==
  ~last.thrown => \A k \in DOMAIN last.updates :
    LET old == {id \in Leaves(nodes, last.root) : nodes[id].key = k}
        new == {id \in Leaves(nodes, heads[current]) : nodes[id].key = k}
        out == last.output[k] IN
    IF last.updates[k].deletion THEN old = (IF out = Empty THEN {} ELSE {out})
    ELSE IF out = Empty THEN old = new
    ELSE new = {out}

=============================================================================

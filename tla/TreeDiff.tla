------------------------------ MODULE TreeDiff ------------------------------
(***************************************************************************)
(* Two versions of a tree, their difference, and the difference applied as *)
(* a patch.  The trees may have been forked from one another, and share    *)
(* nodes, or been built separately.                                        *)
(***************************************************************************)
EXTENDS UpdateSet, DiffLines

CONSTANTS
  Key,          \* the keys in use
  MaxApplies    \* bound: how many sets of updates are applied

ASSUME KeyAssumption == Key \subseteq KeySpace
ASSUME MaxAppliesAssumption == MaxApplies \in Nat

VARIABLE
  applies    \* how many sets of updates have been applied

vars == <<nodes, from, to, applies>>

---------------------------------------------------------------------------
(* quadb patch: the lines of a diff as one update set.  A later line for a *)
(* key takes the place of an earlier one, as in UpdateSet::put and del.    *)
UpdatesOf(diff) ==
  LET last(k) == Max({i \in DOMAIN diff : diff[i].key = k}) IN
  [k \in {diff[i].key : i \in DOMAIN diff} |->
     IF diff[last(k)].deletion THEN Delete ELSE Put(diff[last(k)].val)]

Patch(root, diff) == PutAll(nodes, root, UpdatesOf(diff))

---------------------------------------------------------------------------
UpdateSets ==
  UNION {[S -> {Delete} \cup {Put(v) : v \in Val}] : S \in SUBSET Key}

(* apply() to one of the two trees, while the other stays what it was.     *)
Apply(root, updates) ==
  LET result == PutAll(nodes, root, updates) IN
  /\ applies < MaxApplies
  /\ RoomForLeaves(nodes, updates)
  /\ applies' = applies + 1
  /\ nodes' = result.nodes
  /\ \/ root = from /\ from' = result.built.id /\ UNCHANGED to
     \/ root = to /\ to' = result.built.id /\ UNCHANGED from

Fork ==
  /\ to' = from
  /\ UNCHANGED <<nodes, from, applies>>

Init ==
  /\ nodes = NoTable
  /\ from = Empty
  /\ to = Empty
  /\ applies = 0

Next ==
  \/ \E updates \in UpdateSets, root \in {from, to} : Apply(root, updates)
  \/ Fork

Spec == Init /\ [][Next]_vars

---------------------------------------------------------------------------
(* Properties                                                              *)

(* The two ids always are roots of stored trees.                           *)
TypeOK == applies \in 0 .. MaxApplies /\ TreesOK

(* README, "quadb diff": an insertion or update shows "the new record to   *)
(* be set", so a diff is a patch that leads from one tree to the other.    *)
PatchLeadsThere == Patch(from, Diff).built.hash = ParsedNode(nodes, to).hash

(* What the code achieves: the patch leads there for any two trees that    *)
(* have no key of which the other records were lost (see Collapsed), if    *)
(* there are ids for its leaves.                                           *)
PatchLeadsThereUnlessCollapsed ==
  RoomForLeaves(nodes, UpdatesOf(Diff)) /\ (\A k \in DOMAIN Old : ~Collapsed(k)) => PatchLeadsThere
=============================================================================

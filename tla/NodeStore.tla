----------------------------- MODULE NodeStore -----------------------------
(***************************************************************************)
(* The node storage of Quadrable: the LMDB tables of nodes, tracked keys   *)
(* and heads, the copy-on-write construction of nodes inside transactions, *)
(* and the mark / sweep / delete garbage collector that runs next to them. *)
(*                                                                         *)
(* A node is reduced to what the storage layer looks at: the ids of its    *)
(* children and, for a leaf, the key it stands for.  Which nodes an update *)
(* builds is the subject of module QuadTree; here a thread may build any   *)
(* node out of ids it legitimately holds.                                  *)
(***************************************************************************)
EXTENDS Integers, Functions

CONSTANTS
  App,              \* threads reading and updating through a Quadrable object
  Collector,        \* threads that run a GarbageCollector
  Tracking,         \* the threads whose Quadrable object has trackKeys set
  HeadName,         \* names usable in the quadrable_head table
  DefaultHead,      \* the head of a new Quadrable object, "master"
  Key,              \* keys of leaves
  NoKey,            \* what an interior node has instead of a key
  FirstInterior,    \* firstInteriorNodeId
  MaxLeaf,          \* bound: the highest leaf id ever allocated
  MaxInterior,      \* bound: the highest interior id ever allocated
  SweepInMarkTxn    \* TRUE: sweep() runs in the transaction that marked

Proc == App \cup Collector

ASSUME ThreadAssumption == App \cap Collector = {} /\ Tracking \subseteq Proc
ASSUME IdAssumption ==
  /\ FirstInterior \in Nat /\ MaxLeaf \in Nat /\ MaxInterior \in Nat
  /\ MaxLeaf < FirstInterior
ASSUME HeadAssumption == DefaultHead \in HeadName
ASSUME KeyAssumption == NoKey \notin Key
ASSUME SweepAssumption == SweepInMarkTxn \in BOOLEAN

LeafId     == 1 .. MaxLeaf
InteriorId == FirstInterior .. MaxInterior
NodeId     == LeafId \cup InteriorId
Empty      == 0                            \* the implicit empty node

(* What ParsedNode reads out of a stored node.  A child that is Empty is   *)
(* not stored; a leaf and a witness have no children at all.               *)
Node == [key : Key \cup {NoKey}, left : NodeId \cup {Empty}, right : NodeId \cup {Empty}]

Children(node) == {node.left, node.right} \ {Empty}

VARIABLES
  db,      \* the committed tables: nodes, keys (of leaves) and heads
  txn,     \* per thread: "none", "read" or "write" transaction
  view,    \* per thread: the tables as its transaction sees them
  obj,     \* per application thread: head, detachedHead, detachedHeadNodeId
  held,    \* per application thread: the node ids it obtained in its txn
  gc       \* per collector: the GarbageCollector object and its progress

vars == <<db, txn, view, obj, held, gc>>

---------------------------------------------------------------------------
(* Tables                                                                  *)

Put(f, k, v) == [x \in DOMAIN f \cup {k} |-> IF x = k THEN v ELSE f[x]]
Del(f, S)    == Restrict(f, DOMAIN f \ S)

EmptyTable == [x \in {} |-> x]
EmptyStore == [nodes |-> EmptyTable, keys |-> EmptyTable, heads |-> EmptyTable]

(* A GarbageCollector: how far it is, the ids its walk has yet to visit,   *)
(* markedNodes and garbageNodes.                                           *)
GarbageCollector(phase, todo, marked, garbage) ==
  [phase |-> phase, todo |-> todo, marked |-> marked, garbage |-> garbage]

NewCollector == GarbageCollector("idle", {}, {}, {})

(* detachedHeadNodeId is dead while a named head is checked out: the next  *)
(* checkout(nodeId) overwrites it before anything reads it.                *)
Attached(name)     == [detached |-> FALSE, node |-> Empty, head |-> name]
Detached(name, id) == [detached |-> TRUE, node |-> id, head |-> name]
NewQuadrable       == Attached(DefaultHead)

(* Mutant: getNextId forgets the + 1 and hands out the last id again.      *)
ReusesLastId(id, ids, table) ==
  LET used == DOMAIN table \cap ids IN
  /\ id \in ids
  /\ IF used = {} THEN \A i \in ids : id <= i
     ELSE id \in used /\ \A i \in used : i <= id

(* getNextId: one past the highest id of the table, or its first id.       *)
IsNextId(id, ids, table) ==
  LET used == DOMAIN table \cap ids IN
  /\ id \in ids
  /\ IF used = {} THEN \A i \in ids : id <= i
     ELSE \E last \in used : id = last + 1 /\ \A i \in used : i <= last

RootsOf(store) == {store.heads[h] : h \in DOMAIN store.heads} \ {Empty}

---------------------------------------------------------------------------
(* Transactions.  LMDB (external): a transaction sees the tables as they   *)
(* were committed when it began, plus its own writes; there is one write   *)
(* transaction at a time; commit publishes all of its writes, abort none.  *)

Begin(p, mode) ==
  /\ txn[p] = "none"
  /\ mode = "write" => \A q \in Proc : txn[q] # "write"
  /\ txn' = [txn EXCEPT ![p] = mode]
  /\ view' = [view EXCEPT ![p] = db]
  /\ UNCHANGED <<db, obj, held, gc>>

(* Mutant: marks outlive the transaction, so that sweep() may come in a    *)
(* later one.                                                              *)
KeepsMarks(p) == gc[p].phase \in {"marking", "swept"}

(* The GarbageCollector object outlives the transaction only between the   *)
(* sweep and the deletion, or between mark and sweep if these are split.   *)
KeepsObject(p) ==
  \/ gc[p].phase = "swept"
  \/ gc[p].phase = "marking" /\ ~SweepInMarkTxn

EndTxn(p) ==
  /\ txn' = [txn EXCEPT ![p] = "none"]
  /\ view' = [view EXCEPT ![p] = EmptyStore]
  /\ held' = [held EXCEPT ![p] = {}]

(* As the documentation demands, a detached head does not outlive the      *)
(* transaction: a thread that has one calls checkout() when it is done.    *)
DropDetachedHead(p) ==
  obj' = [obj EXCEPT ![p] = IF @.detached THEN Detached(@.head, Empty) ELSE @]

Commit(p) ==
  /\ txn[p] = "write"
  /\ gc[p].todo = {}
  /\ db' = view[p]
  /\ EndTxn(p)
  /\ DropDetachedHead(p)
  /\ gc' = [gc EXCEPT ![p] = IF KeepsObject(p) THEN @ ELSE NewCollector]

(* Abort, the end of a read transaction, or an exception that unwinds it.  *)
Abort(p) ==
  /\ txn[p] # "none"
  /\ gc[p].todo = {}
  /\ EndTxn(p)
  /\ DropDetachedHead(p)
  /\ gc' = [gc EXCEPT ![p] = IF KeepsObject(p) THEN @ ELSE NewCollector]
  /\ UNCHANGED db

(* The process dies at any point and restarts with new objects; a          *)
(* collector's list is lost with it.                                       *)
Crash(p) ==
  /\ EndTxn(p)
  /\ obj' = [obj EXCEPT ![p] = NewQuadrable]
  /\ gc' = [gc EXCEPT ![p] = NewCollector]
  /\ UNCHANGED db

---------------------------------------------------------------------------
(* Application threads: heads and nodes                                    *)

HeadNodeId(p) ==
  IF obj[p].detached THEN obj[p].node
  ELSE IF obj[p].head \in DOMAIN view[p].heads THEN view[p].heads[obj[p].head]
  ELSE Empty

(* Mutant: the implicit empty node is taken for a stored one.              *)
HoldWithEmpty(p, ids) == held' = [held EXCEPT ![p] = @ \cup ids]

Hold(p, ids) == held' = [held EXCEPT ![p] = @ \cup (ids \ {Empty})]

LoadHead(p) ==
  /\ txn[p] # "none"
  /\ Hold(p, {HeadNodeId(p)})
  /\ UNCHANGED <<db, txn, view, obj, gc>>

(* ParsedNode's constructor: throws "couldn't find nodeId" and changes     *)
(* nothing when the node is not there.                                     *)
LoadNode(p, id) ==
  /\ txn[p] # "none"
  /\ id \in held[p] \cap DOMAIN view[p].nodes
  /\ Hold(p, Children(view[p].nodes[id]))
  /\ UNCHANGED <<db, txn, view, obj, gc>>

(* writeNodeToDb, with the key table entry setLeafKey adds for a leaf.     *)
WriteNode(p, id, node, tracked) ==
  /\ txn[p] = "write"
  /\ view' = [view EXCEPT ![p] =
       [nodes |-> Put(@.nodes, id, node),
        keys  |-> IF tracked THEN Put(@.keys, id, node.key) ELSE @.keys,
        heads |-> @.heads]]
  /\ Hold(p, {id})
  /\ UNCHANGED <<db, txn, obj, gc>>

(* newLeaf and newWitnessLeaf: "named" when the caller passed the key as a *)
(* string; updates by raw Key and witness leaves carry none.               *)
NewLeaf(p, id, k, named) ==
  /\ IsNextId(id, LeafId, view[p].nodes)
  /\ WriteNode(p, id, [key |-> k, left |-> Empty, right |-> Empty],
               named /\ p \in Tracking)

NewBranch(p, id, l, r) ==
  /\ IsNextId(id, InteriorId, view[p].nodes)
  /\ {l, r} \subseteq held[p] \cup {Empty}
  /\ {l, r} # {Empty}
  /\ WriteNode(p, id, [key |-> NoKey, left |-> l, right |-> r], FALSE)

NewWitness(p, id) ==
  /\ IsNextId(id, InteriorId, view[p].nodes)
  /\ WriteNode(p, id, [key |-> NoKey, left |-> Empty, right |-> Empty], FALSE)

WithHeads(store, heads) ==
  [nodes |-> store.nodes, keys |-> store.keys, heads |-> heads]

PutHead(p, name, id) ==
  view' = [view EXCEPT ![p] = WithHeads(@, Put(@.heads, name, id))]

(* setHeadNodeId, as apply() calls it with the root of the new tree.       *)
SetHead(p, id) ==
  /\ id \in held[p] \cup {Empty}
  /\ id # HeadNodeId(p)
  /\ IF obj[p].detached
     THEN /\ txn[p] # "none"
          /\ obj' = [obj EXCEPT ![p] = Detached(@.head, id)]
          /\ UNCHANGED view
     ELSE /\ txn[p] = "write"
          /\ PutHead(p, obj[p].head, id)
          /\ UNCHANGED obj
  /\ UNCHANGED <<db, txn, held, gc>>

Checkout(p, name) ==
  /\ obj' = [obj EXCEPT ![p] = Attached(name)]
  /\ UNCHANGED <<db, txn, view, held, gc>>

CheckoutNode(p, id) ==
  /\ id \in held[p] \cup {Empty}
  /\ obj' = [obj EXCEPT ![p] = Detached(@.head, id)]
  /\ UNCHANGED <<db, txn, view, held, gc>>

Fork(p, name) ==
  /\ txn[p] = "write"
  /\ obj' = [obj EXCEPT ![p] = Attached(name)]
  /\ PutHead(p, name, HeadNodeId(p))
  /\ Hold(p, {HeadNodeId(p)})
  /\ UNCHANGED <<db, txn, gc>>

ForkDetached(p) ==
  /\ txn[p] # "none"
  /\ obj' = [obj EXCEPT ![p] = Detached(@.head, HeadNodeId(p))]
  /\ Hold(p, {HeadNodeId(p)})
  /\ UNCHANGED <<db, txn, view, gc>>

(* quadb head rm                                                           *)
RemoveHead(p, name) ==
  /\ txn[p] = "write"
  /\ view' = [view EXCEPT ![p] = WithHeads(@, Del(@.heads, {name}))]
  /\ UNCHANGED <<db, txn, obj, held, gc>>

---------------------------------------------------------------------------
(* Garbage collection                                                      *)

MarkAllHeads(c) ==
  /\ txn[c] # "none"
  /\ gc[c].phase = "idle"
  /\ gc' = [gc EXCEPT ![c] = GarbageCollector("marking", RootsOf(view[c]), {}, {})]
  /\ UNCHANGED <<db, txn, view, obj, held>>

(* Mutant: the walk does not follow the right children.                    *)
MarkLeftSpine(c, id) ==
  /\ id \in gc[c].todo \cap DOMAIN view[c].nodes
  /\ gc' = [gc EXCEPT ![c] =
       GarbageCollector("marking", (@.todo \ {id}) \cup ({view[c].nodes[id].left} \ {Empty}),
                        @.marked \cup {id}, {})]
  /\ UNCHANGED <<db, txn, view, obj, held>>

(* One node of markTree's walk.  The collector works on its own view, so   *)
(* the order in which the walk visits nodes makes no difference to others. *)
MarkNode(c, id) ==
  /\ id \in gc[c].todo \cap DOMAIN view[c].nodes
  /\ LET found == IF id \in gc[c].marked THEN {} ELSE Children(view[c].nodes[id]) IN
     gc' = [gc EXCEPT ![c] =
       GarbageCollector("marking", (@.todo \ {id}) \cup found, @.marked \cup {id}, {})]
  /\ UNCHANGED <<db, txn, view, obj, held>>

Sweep(c) ==
  /\ txn[c] # "none"
  /\ gc[c].phase = "marking"
  /\ gc[c].todo = {}
  /\ gc' = [gc EXCEPT ![c] =
       GarbageCollector("swept", {}, @.marked, DOMAIN view[c].nodes \ @.marked)]
  /\ UNCHANGED <<db, txn, view, obj, held>>

(* Mutant: deleteNodes leaves the key table alone.                         *)
DeleteNodesNotKeys(c) ==
  /\ txn[c] = "write"
  /\ gc[c].phase = "swept"
  /\ view' = [view EXCEPT ![c] =
       [nodes |-> Del(@.nodes, gc[c].garbage), keys |-> @.keys, heads |-> @.heads]]
  /\ gc' = [gc EXCEPT ![c] = GarbageCollector("deleted", {}, @.marked, @.garbage)]
  /\ UNCHANGED <<db, txn, obj, held>>

(* deleteNodes: leaves lose their key table entry too, if this collector's *)
(* Quadrable object tracks keys.                                           *)
DeleteNodes(c) ==
  /\ txn[c] = "write"
  /\ gc[c].phase = "swept"
  /\ view' = [view EXCEPT ![c] =
       [nodes |-> Del(@.nodes, gc[c].garbage),
        keys  |-> IF c \in Tracking THEN Del(@.keys, gc[c].garbage \cap LeafId) ELSE @.keys,
        heads |-> @.heads]]
  /\ gc' = [gc EXCEPT ![c] = GarbageCollector("deleted", {}, @.marked, @.garbage)]
  /\ UNCHANGED <<db, txn, obj, held>>

---------------------------------------------------------------------------
Init ==
  /\ db = EmptyStore
  /\ txn = [p \in Proc |-> "none"]
  /\ view = [p \in Proc |-> EmptyStore]
  /\ obj = [p \in Proc |-> NewQuadrable]
  /\ held = [p \in Proc |-> {}]
  /\ gc = [p \in Proc |-> NewCollector]

TxnNext(p) ==
  \/ \E mode \in {"read", "write"} : Begin(p, mode)
  \/ Commit(p)
  \/ Abort(p)
  \/ Crash(p)

AppNext(p) ==
  \/ LoadHead(p)
  \/ \E id \in held[p] : LoadNode(p, id)
  \/ \E id \in LeafId, k \in Key, named \in BOOLEAN : NewLeaf(p, id, k, named)
  \/ \E id \in InteriorId, l, r \in held[p] \cup {Empty} : NewBranch(p, id, l, r)
  \/ \E id \in InteriorId : NewWitness(p, id)
  \/ \E id \in held[p] \cup {Empty} : SetHead(p, id) \/ CheckoutNode(p, id)
  \/ \E name \in HeadName : Checkout(p, name) \/ Fork(p, name) \/ RemoveHead(p, name)
  \/ ForkDetached(p)

CollectorNext(c) ==
  \/ MarkAllHeads(c)
  \/ \E id \in gc[c].todo : MarkNode(c, id)
  \/ Sweep(c)
  \/ DeleteNodes(c)

Next ==
  \/ \E p \in Proc : TxnNext(p)
  \/ \E p \in App : AppNext(p)
  \/ \E c \in Collector : CollectorNext(c)

Spec == Init /\ [][Next]_vars

---------------------------------------------------------------------------
(* Properties                                                              *)

TableOf(f, D, R) == DOMAIN f \subseteq D /\ f \in [DOMAIN f -> R]

StoreOK(store) ==
  /\ TableOf(store.nodes, NodeId, Node)
  /\ TableOf(store.keys, LeafId, Key)
  /\ TableOf(store.heads, HeadName, NodeId \cup {Empty})

(* Every variable has its type: the tables of heads.h, leafKeys.h and      *)
(* internal.h map ids in the documented ranges to well-formed nodes.       *)
TypeOK ==
  /\ StoreOK(db)
  /\ txn \in [Proc -> {"none", "read", "write"}]
  /\ view = [p \in Proc |-> view[p]] /\ \A p \in Proc : StoreOK(view[p])
  /\ obj \in [Proc -> [detached : BOOLEAN, node : NodeId \cup {Empty}, head : HeadName]]
  /\ held \in [Proc -> SUBSET NodeId]
  /\ gc \in [Proc -> [phase : {"idle", "marking", "swept", "deleted"},
                      todo : SUBSET NodeId, marked : SUBSET NodeId, garbage : SUBSET NodeId]]

(* No head and no node of these tables refers to a node that is not there. *)
Closed(store) ==
  /\ RootsOf(store) \subseteq DOMAIN store.nodes
  /\ \A id \in DOMAIN store.nodes : Children(store.nodes[id]) \subseteq DOMAIN store.nodes

(* Whatever the collector deletes and whenever a process dies, the         *)
(* committed tables and those each transaction sees stay complete:         *)
(* ParsedNode's "couldn't find nodeId" (ParsedNode.h) is never thrown for  *)
(* an id that a walk from a head, a detached head or a new node reaches.   *)
NothingMissing ==
  /\ Closed(db)
  /\ \A p \in Proc : txn[p] # "none" =>
       /\ Closed(view[p])
       /\ held[p] \subseteq DOMAIN view[p].nodes
       /\ obj[p].detached => obj[p].node \in held[p] \cup {Empty}

(* The key table (leafKeys.h) names the key of the leaf that is stored     *)
(* under an id, never that of an earlier leaf with the same id, and has no *)
(* entry for a leaf that was collected.                                    *)
KeysFit(store) ==
  /\ DOMAIN store.keys \subseteq DOMAIN store.nodes
  /\ \A id \in DOMAIN store.keys : store.keys[id] = store.nodes[id].key

KeyTableSound == KeysFit(db) /\ \A p \in Proc : KeysFit(view[p])

(* Copy on write: a stored node is never modified, by any transaction, for *)
(* as long as it is stored.                                                *)
CopyOnWrite ==
  [][\A id \in DOMAIN db.nodes \cap DOMAIN db'.nodes : db'.nodes[id] = db.nodes[id]]_vars

(* The nodes that a walk from the heads reaches: the least set of nodes    *)
(* that has the roots and, with a node, its children.                      *)
Spans(store, live) ==
  /\ RootsOf(store) \subseteq live
  /\ \A id \in live : Children(store.nodes[id]) \subseteq live

Reachable(store) ==
  {id \in DOMAIN store.nodes :
     \A live \in SUBSET DOMAIN store.nodes : Spans(store, live) => id \in live}

(* A collection is exact: when sweep() returns, the list holds the nodes   *)
(* no head reaches in the collector's snapshot, all of them and no other.  *)
SweepIsExact ==
  [][\A c \in Collector : gc[c].phase = "marking" /\ gc'[c].phase = "swept" =>
       gc'[c].garbage = DOMAIN view[c].nodes \ Reachable(view[c])]_vars

(* Between sweep() and deleteNodes() nobody takes a listed node back: no   *)
(* head, no live node, and no thread that could build one, refers to it.   *)
GarbageStaysGarbage ==
  \A c \in Collector : gc[c].phase = "swept" =>
    /\ gc[c].garbage \cap Reachable(db) = {}
    /\ \A p \in App : txn[p] = "write" => gc[c].garbage \cap held[p] = {}
============================================================================

-------------------------- MODULE NodeStoreProofs --------------------------
(***************************************************************************)
(* Proofs about NodeStore, for any number of threads, heads, keys and ids. *)
(*                                                                         *)
(* Type correctness and copy-on-write hold as they stand.  That nothing    *)
(* live is ever collected needs one collector at a time, sweeping in the   *)
(* transaction it marked in; without either, TLC finds a counterexample.   *)
(***************************************************************************)
EXTENDS NodeStore, TLAPS

USE ThreadAssumption, IdAssumption, HeadAssumption, KeyAssumption, SweepAssumption
    DEF Proc

(* The two hypotheses of the garbage collection theorems.                  *)
OneCollector == \A c, d \in Collector : c = d
MarkAndSweepTogether == SweepInMarkTxn = TRUE

---------------------------------------------------------------------------
(* Tables                                                                  *)

(* Put and Del return tables, with the obvious domains and values.         *)
LEMMA PutTable ==
  ASSUME NEW f, NEW D, NEW R, NEW k \in D, NEW v \in R, TableOf(f, D, R)
  PROVE  /\ TableOf(Put(f, k, v), D, R)
         /\ DOMAIN Put(f, k, v) = DOMAIN f \cup {k}
         /\ \A x \in DOMAIN f \cup {k} : Put(f, k, v)[x] = IF x = k THEN v ELSE f[x]
  BY DEF Put, TableOf

(* The same, for deleted entries.                                          *)
LEMMA DelTable ==
  ASSUME NEW f, NEW D, NEW R, NEW S, TableOf(f, D, R)
  PROVE  /\ TableOf(Del(f, S), D, R)
         /\ DOMAIN Del(f, S) = DOMAIN f \ S
         /\ \A x \in DOMAIN f \ S : Del(f, S)[x] = f[x]
  BY DEF Del, Restrict, TableOf

(* The empty tables are closed tables.                                     *)
LEMMA EmptyStoreOK == StoreOK(EmptyStore) /\ Closed(EmptyStore) /\ KeysFit(EmptyStore)
  BY DEF StoreOK, Closed, KeysFit, EmptyStore, EmptyTable, TableOf, RootsOf

(* Roots and children are node ids.                                        *)
LEMMA RootsType ==
  ASSUME NEW store, StoreOK(store)
  PROVE  RootsOf(store) \subseteq NodeId
  BY DEF StoreOK, TableOf, RootsOf

(* The same, for the children of one node.                                 *)
LEMMA ChildrenType ==
  ASSUME NEW node \in Node
  PROVE  Children(node) \subseteq NodeId
  BY DEF Node, Children

(* An id that getNextId returns is not in use.                             *)
LEMMA NextIdIsFresh ==
  ASSUME NEW id, NEW ids \in {LeafId, InteriorId}, NEW table,
         IsNextId(id, ids, table)
  PROVE  id \in ids /\ id \in NodeId /\ id # Empty /\ id \notin DOMAIN table
<1>1. id \in ids
  BY DEF IsNextId
<1>2. id \in NodeId
  BY <1>1 DEF NodeId
<1>3. ids \subseteq Nat
  BY DEF LeafId, InteriorId
<1>4. id # Empty
  <2>1. \A i \in LeafId : i # 0
    BY DEF LeafId
  <2>2. \A i \in InteriorId : i # 0
    BY IdAssumption DEF InteriorId
  <2> QED  BY <1>1, <2>1, <2>2 DEF Empty
<1>5. id \notin DOMAIN table
  <2> DEFINE used == DOMAIN table \cap ids
  <2>1. used \subseteq Nat
    BY <1>3
  <2>2. used = {} \/ \E last \in used : id = last + 1 /\ \A i \in used : i <= last
    BY DEF IsNextId
  <2> HIDE DEF used
  <2>3. ASSUME id \in used
        PROVE  FALSE
    <3>1. PICK last \in used : id = last + 1 /\ \A i \in used : i <= last
      BY <2>2, <2>3
    <3>2. last \in Nat /\ id <= last
      BY <2>1, <2>3, <3>1
    <3> QED  BY <3>1, <3>2
  <2> QED  BY <1>1, <2>3 DEF used
<1> QED  BY <1>1, <1>2, <1>4, <1>5

(* A head's node id is a root of the view, or the detached head.           *)
LEMMA HeadNodeIdType ==
  ASSUME TypeOK, NEW p \in Proc
  PROVE  HeadNodeId(p) \in NodeId \cup {Empty}
<1>1. obj[p].node \in NodeId \cup {Empty}
  BY DEF TypeOK
<1>2. \A h \in DOMAIN view[p].heads : view[p].heads[h] \in NodeId \cup {Empty}
  <2>1. TableOf(view[p].heads, HeadName, NodeId \cup {Empty})
    BY DEF TypeOK, StoreOK
  <2> QED  BY <2>1 DEF TableOf
<1> QED  BY <1>1, <1>2 DEF HeadNodeId

---------------------------------------------------------------------------
(* Type correctness                                                        *)

LEMMA TypeInit == Init => TypeOK
  BY EmptyStoreOK DEF Init, TypeOK, NewQuadrable, Attached, NewCollector, GarbageCollector

(* What each transaction operation does to the types.                      *)
LEMMA TypeTxn ==
  ASSUME TypeOK, NEW p \in Proc, TxnNext(p)
  PROVE  TypeOK'
<1>1. ASSUME NEW mode \in {"read", "write"}, Begin(p, mode) PROVE TypeOK'
  BY <1>1 DEF TypeOK, Begin
<1>2. CASE Commit(p)
  BY <1>2, EmptyStoreOK
  DEF TypeOK, Commit, EndTxn, DropDetachedHead, Detached, NewCollector, GarbageCollector, KeepsObject
<1>3. CASE Abort(p)
  BY <1>3, EmptyStoreOK
  DEF TypeOK, Abort, EndTxn, DropDetachedHead, Detached, NewCollector, GarbageCollector, KeepsObject
<1>4. CASE Crash(p)
  BY <1>4, EmptyStoreOK
  DEF TypeOK, Crash, EndTxn, NewQuadrable, Attached, NewCollector, GarbageCollector
<1>. QED  BY <1>1, <1>2, <1>3, <1>4 DEF TxnNext

(* A step that changes at most p's view, object and held ids keeps the     *)
(* types if it gives them values of their types.                           *)
LEMMA TypeApp ==
  ASSUME TypeOK, NEW p \in App, AppNext(p)
  PROVE  TypeOK'
<1>. USE DEF TypeOK
<1>h. HeadNodeId(p) \in NodeId \cup {Empty}
  BY HeadNodeIdType
<1>s. StoreOK(view[p])
  OBVIOUS
<1>w. ASSUME NEW id \in NodeId, NEW node \in Node, NEW tracked \in BOOLEAN,
             tracked => id \in LeafId /\ node.key \in Key,
             WriteNode(p, id, node, tracked)
      PROVE  TypeOK'
  <2>1. TableOf(Put(view[p].nodes, id, node), NodeId, Node)
    BY <1>s, PutTable DEF StoreOK
  <2>2. tracked => TableOf(Put(view[p].keys, id, node.key), LeafId, Key)
    BY <1>s, <1>w, PutTable DEF StoreOK
  <2>. QED  BY <1>s, <1>w, <2>1, <2>2 DEF WriteNode, Hold, StoreOK, Empty
<1>n. ASSUME NEW name \in HeadName, NEW id \in NodeId \cup {Empty}
      PROVE  StoreOK(WithHeads(view[p], Put(view[p].heads, name, id)))
  BY <1>s, PutTable DEF StoreOK, WithHeads
<1>1. CASE LoadHead(p)
  BY <1>1, <1>h DEF LoadHead, Hold
<1>2. ASSUME NEW id \in held[p], LoadNode(p, id) PROVE TypeOK'
  <2>1. Children(view[p].nodes[id]) \subseteq NodeId
    BY <1>s, <1>2, ChildrenType DEF LoadNode, StoreOK, TableOf
  <2>. QED  BY <1>2, <2>1 DEF LoadNode, Hold
<1>3. ASSUME NEW id \in LeafId, NEW k \in Key, NEW named \in BOOLEAN, NewLeaf(p, id, k, named)
      PROVE TypeOK'
  <2>1. [key |-> k, left |-> Empty, right |-> Empty] \in Node /\ id \in NodeId
    BY DEF Node, NodeId
  <2>. QED  BY <1>3, <1>w, <2>1 DEF NewLeaf
<1>4. ASSUME NEW id \in InteriorId, NEW l \in held[p] \cup {Empty}, NEW r \in held[p] \cup {Empty},
             NewBranch(p, id, l, r)
      PROVE TypeOK'
  <2>1. [key |-> NoKey, left |-> l, right |-> r] \in Node /\ id \in NodeId
    BY DEF Node, NodeId
  <2>. QED  BY <1>4, <1>w, <2>1 DEF NewBranch
<1>5. ASSUME NEW id \in InteriorId, NewWitness(p, id) PROVE TypeOK'
  <2>1. [key |-> NoKey, left |-> Empty, right |-> Empty] \in Node /\ id \in NodeId
    BY DEF Node, NodeId
  <2>. QED  BY <1>5, <1>w, <2>1 DEF NewWitness
<1>6. ASSUME NEW id \in held[p] \cup {Empty}, SetHead(p, id) PROVE TypeOK'
  <2>1. id \in NodeId \cup {Empty} /\ obj[p].head \in HeadName
    OBVIOUS
  <2>2. CASE obj[p].detached
    <3>1. /\ obj' = [obj EXCEPT ![p] = Detached(obj[p].head, id)]
          /\ UNCHANGED <<db, txn, view, held, gc>>
      BY <1>6, <2>2, Zenon DEF SetHead
    <3>2. Detached(obj[p].head, id) \in
            [detached : BOOLEAN, node : NodeId \cup {Empty}, head : HeadName]
      BY <2>1 DEF Detached
    <3>. QED  BY <3>1, <3>2
  <2>3. CASE ~obj[p].detached
    <3>1. StoreOK(WithHeads(view[p], Put(view[p].heads, obj[p].head, id)))
      BY <1>n, <2>1
    <3>. QED  BY <1>6, <2>3, <3>1 DEF SetHead, PutHead
  <2>. QED  BY <2>2, <2>3
<1>7. ASSUME NEW id \in held[p] \cup {Empty}, CheckoutNode(p, id) PROVE TypeOK'
  BY <1>7 DEF CheckoutNode, Detached
<1>8. ASSUME NEW name \in HeadName, Checkout(p, name) PROVE TypeOK'
  BY <1>8 DEF Checkout, Attached
<1>9. ASSUME NEW name \in HeadName, Fork(p, name) PROVE TypeOK'
  BY <1>9, <1>n, <1>h DEF Fork, PutHead, Attached, Hold
<1>10. ASSUME NEW name \in HeadName, RemoveHead(p, name) PROVE TypeOK'
  <2>1. StoreOK(WithHeads(view[p], Del(view[p].heads, {name})))
    BY <1>s, DelTable DEF StoreOK, WithHeads
  <2>. QED  BY <1>10, <2>1 DEF RemoveHead
<1>11. CASE ForkDetached(p)
  BY <1>11, <1>h DEF ForkDetached, Detached, Hold
<1>. HIDE DEF TypeOK
<1>. QED
  BY <1>1, <1>2, <1>3, <1>4, <1>5, <1>6, <1>7, <1>8, <1>9, <1>10, <1>11 DEF AppNext

(* The steps of a collector keep the types.                                *)
LEMMA TypeCollector ==
  ASSUME TypeOK, NEW c \in Collector, CollectorNext(c)
  PROVE  TypeOK'
<1>. USE DEF TypeOK
<1>s. StoreOK(view[c])
  OBVIOUS
<1>1. CASE MarkAllHeads(c)
  BY <1>1, <1>s, RootsType DEF MarkAllHeads, NewCollector, GarbageCollector
<1>2. ASSUME NEW id \in gc[c].todo, MarkNode(c, id) PROVE TypeOK'
  <2>1. Children(view[c].nodes[id]) \subseteq NodeId
    BY <1>s, <1>2, ChildrenType DEF MarkNode, StoreOK, TableOf
  <2>. QED  BY <1>2, <2>1 DEF MarkNode, GarbageCollector
<1>3. CASE Sweep(c)
  BY <1>3, <1>s DEF Sweep, GarbageCollector, StoreOK, TableOf
<1>4. CASE DeleteNodes(c)
  <2>1. /\ TableOf(Del(view[c].nodes, gc[c].garbage), NodeId, Node)
        /\ TableOf(Del(view[c].keys, gc[c].garbage \cap LeafId), LeafId, Key)
    BY <1>s, DelTable DEF StoreOK
  <2>. QED  BY <1>4, <1>s, <2>1 DEF DeleteNodes, GarbageCollector, StoreOK
<1>. HIDE DEF TypeOK
<1>. QED  BY <1>1, <1>2, <1>3, <1>4 DEF CollectorNext

(* The tables, transactions and objects always have their types.           *)
THEOREM TypeCorrect == Spec => []TypeOK
<1>1. TypeOK /\ [Next]_vars => TypeOK'
  <2>1. TypeOK /\ UNCHANGED vars => TypeOK'
    BY DEF TypeOK, vars
  <2>. QED  BY <2>1, TypeTxn, TypeApp, TypeCollector DEF Next
<1>. QED  BY TypeInit, <1>1, PTL DEF Spec

---------------------------------------------------------------------------
(* The inductive invariant of the garbage collection theorems.             *)

Writing(p) == txn[p] = "write"

(* Nothing in these tables outside of G refers to G.                       *)
Avoids(store, G) ==
  /\ RootsOf(store) \cap G = {}
  /\ \A id \in DOMAIN store.nodes \ G : Children(store.nodes[id]) \cap G = {}

(* Nor does anything writer w has done, or could do with what it holds.    *)
Clear(w, G) ==
  /\ G \subseteq DOMAIN view[w].nodes
  /\ Avoids(view[w], G)
  /\ held[w] \cap G = {}

(* G is garbage that nobody can grab back: the committed tables avoid it   *)
(* and so does the transaction that is about to replace them.              *)
Lost(G) ==
  /\ G \subseteq DOMAIN db.nodes
  /\ Avoids(db, G)
  /\ \A w \in App : Writing(w) => Clear(w, G)

LiveSets(store) == {live \in SUBSET DOMAIN store.nodes : Spans(store, live)}
Rest(store, live) == DOMAIN store.nodes \ live

(* What thread is in which role, and what it has when it has no txn.       *)
Roles ==
  /\ \A p \in App : gc[p] = NewCollector
  /\ \A c \in Collector : held[c] = {}
  /\ \A p \in Proc : txn[p] = "none" => view[p] = EmptyStore /\ held[p] = {}
  /\ \A p, q \in Proc : Writing(p) /\ Writing(q) => p = q
  /\ \A c \in Collector : Writing(c) /\ gc[c].phase # "deleted" => view[c] = db

(* Tables are complete, and so is what a thread holds.                     *)
Complete ==
  /\ Closed(db)
  /\ \A p \in Proc : Closed(view[p]) /\ held[p] \subseteq DOMAIN view[p].nodes

DetachedHeld ==
  \A p \in Proc : obj[p].detached => obj[p].node \in held[p] \cup {Empty}

(* The walk of a collector: every node it knows of is live, and what is    *)
(* marked spans the live nodes once nothing is left to do.                 *)
Walk(c) ==
  /\ gc[c].phase # "marking" => gc[c].todo = {}
  /\ gc[c].phase = "deleted" => txn[c] = "write"
  /\ gc[c].phase = "marking" =>
       LET known == gc[c].marked \cup gc[c].todo IN
       /\ txn[c] # "none"
       /\ known \subseteq DOMAIN view[c].nodes
       /\ RootsOf(view[c]) \subseteq known
       /\ \A id \in gc[c].marked : Children(view[c].nodes[id]) \subseteq known
       /\ \A live \in LiveSets(view[c]) : known \subseteq live

(* Whatever a set of live nodes of the committed tables leaves out is lost.*)
DatabaseSeparated == \A live \in LiveSets(db) : Lost(Rest(db, live))

(* The same for the snapshot of a collector that has yet to sweep, however *)
(* old the snapshot is, and for the list of one that has swept.            *)
CollectorSeparated(c) ==
  /\ txn[c] # "none" /\ gc[c].phase \in {"idle", "marking"} =>
       \A live \in LiveSets(view[c]) : Lost(Rest(view[c], live))
  /\ gc[c].phase = "swept" => Lost(gc[c].garbage)

IInv ==
  /\ TypeOK
  /\ Roles
  /\ Complete
  /\ DetachedHeld
  /\ \A c \in Collector : Walk(c) /\ CollectorSeparated(c)
  /\ DatabaseSeparated

---------------------------------------------------------------------------
(* What an application step may do, whichever it is: nodes are only added, *)
(* and what is referred to afterwards was held, was a root, is a child of  *)
(* a held node, or is new.                                                 *)

Known(p) == RootsOf(view[p]) \cup held[p]
              \cup UNION {Children(view[p].nodes[id]) : id \in held[p] \cap DOMAIN view[p].nodes}

Fresh(p) == DOMAIN view'[p].nodes \ DOMAIN view[p].nodes

AppShape(p) ==
  /\ UNCHANGED <<db, txn, gc>>
  /\ \A q \in Proc \ {p} : view'[q] = view[q] /\ held'[q] = held[q] /\ obj'[q] = obj[q]
  /\ view'[p] # view[p] => Writing(p)
  /\ DOMAIN view[p].nodes \subseteq DOMAIN view'[p].nodes
  /\ \A id \in DOMAIN view[p].nodes : view'[p].nodes[id] = view[p].nodes[id]
  /\ \A id \in Fresh(p) : Children(view'[p].nodes[id]) \subseteq held[p]
  /\ RootsOf(view'[p]) \subseteq Known(p)
  /\ held[p] \subseteq held'[p]
  /\ held'[p] \subseteq Known(p) \cup Fresh(p)
  /\ obj'[p].detached => obj'[p].node \in held'[p] \cup {Empty}
  /\ txn[p] = "none" => view'[p] = view[p] /\ held'[p] = held[p]

(* What a head names is the empty node, a root, or held.                   *)
LEMMA HeadIsKnown ==
  ASSUME TypeOK, DetachedHeld, NEW p \in App
  PROVE  HeadNodeId(p) \in RootsOf(view[p]) \cup held[p] \cup {Empty}
<1>1. CASE obj[p].detached
  BY <1>1, Zenon DEF HeadNodeId, DetachedHeld
<1>2. CASE ~obj[p].detached
  <2>1. HeadNodeId(p) = IF obj[p].head \in DOMAIN view[p].heads
                        THEN view[p].heads[obj[p].head] ELSE Empty
    BY <1>2, Zenon DEF HeadNodeId
  <2>. QED  BY <2>1 DEF RootsOf
<1>. QED  BY <1>1, <1>2

(* Setting a head adds at most the new root to the roots, removing one     *)
(* adds nothing.                                                           *)
LEMMA RootsAfterPut ==
  ASSUME NEW store, NEW name, NEW id
  PROVE  RootsOf(WithHeads(store, Put(store.heads, name, id))) \subseteq RootsOf(store) \cup ({id} \ {Empty})
  BY DEF RootsOf, WithHeads, Put

(* Deleting heads adds none either.                                        *)
LEMMA RootsAfterDel ==
  ASSUME NEW store, NEW names
  PROVE  RootsOf(WithHeads(store, Del(store.heads, names))) \subseteq RootsOf(store)
  BY DEF RootsOf, WithHeads, Del, Restrict

(* Writing a node has the shape of an application step.                    *)
LEMMA ShapeOfWrite ==
  ASSUME TypeOK, DetachedHeld, NEW p \in App, NEW id \in NodeId, NEW node \in Node, NEW tracked \in BOOLEAN,
         id \notin DOMAIN view[p].nodes, Children(node) \subseteq held[p],
         WriteNode(p, id, node, tracked)
  PROVE  AppShape(p)
<1>1. /\ view'[p].nodes = Put(view[p].nodes, id, node)
      /\ view'[p].heads = view[p].heads
      /\ \A q \in Proc \ {p} : view'[q] = view[q]
  BY DEF WriteNode, TypeOK
<1>2. /\ held'[p] = held[p] \cup {id}
      /\ \A q \in Proc \ {p} : held'[q] = held[q]
  BY DEF WriteNode, Hold, TypeOK, NodeId, LeafId, InteriorId, Empty
<1>3. /\ DOMAIN view'[p].nodes = DOMAIN view[p].nodes \cup {id}
      /\ \A i \in DOMAIN view[p].nodes : view'[p].nodes[i] = view[p].nodes[i]
      /\ view'[p].nodes[id] = node
  BY <1>1 DEF Put
<1>4. Fresh(p) = {id}
  BY <1>3 DEF Fresh
<1>5. RootsOf(view'[p]) = RootsOf(view[p])
  BY <1>1 DEF RootsOf
<1>6. UNCHANGED <<db, txn, obj, gc>> /\ Writing(p)
  BY DEF WriteNode, Writing
<1>7. obj'[p].detached => obj'[p].node \in held'[p] \cup {Empty}
  BY <1>2, <1>6, Zenon DEF DetachedHeld
<1>. QED
  BY <1>1, <1>2, <1>3, <1>4, <1>5, <1>6, <1>7 DEF AppShape, Known, Writing

(* A step that leaves the nodes of the view alone: p's tables become       *)
(* "store", it obtains "ids", and its Quadrable object becomes o.          *)
KeepsNodes(p, store, ids, o) ==
  /\ UNCHANGED <<db, txn, gc>>
  /\ txn[p] # "none" \/ (store = view[p] /\ ids = {})
  /\ view' = [view EXCEPT ![p] = store]
  /\ store = view[p] \/ Writing(p)
  /\ store.nodes = view[p].nodes
  /\ RootsOf(store) \subseteq Known(p)
  /\ held' = [held EXCEPT ![p] = @ \cup ids]
  /\ ids \subseteq Known(p)
  /\ obj' = [obj EXCEPT ![p] = o]
  /\ ~o.detached \/ o.node \in held[p] \cup ids \cup {Empty}

(* So has a step that leaves the nodes as they are.                        *)
LEMMA ShapeOfOther ==
  ASSUME TypeOK, NEW p \in App, NEW store, NEW ids, NEW o, KeepsNodes(p, store, ids, o)
  PROVE  AppShape(p)
<1>. USE DEF KeepsNodes
<1>1. view'[p] = store /\ \A q \in Proc \ {p} : view'[q] = view[q]
  BY DEF TypeOK
<1>2. held'[p] = held[p] \cup ids /\ \A q \in Proc \ {p} : held'[q] = held[q]
  BY DEF TypeOK
<1>3. obj'[p] = o /\ \A q \in Proc \ {p} : obj'[q] = obj[q]
  BY DEF TypeOK
<1>4. Fresh(p) = {}
  BY <1>1 DEF Fresh
<1>5. held[p] \subseteq Known(p)
  BY DEF Known
<1>6. obj'[p].detached => obj'[p].node \in held'[p] \cup {Empty}
  BY <1>2, <1>3, Zenon
<1>. QED  BY <1>1, <1>2, <1>3, <1>4, <1>5, <1>6 DEF AppShape

(* All application steps have that shape.                                  *)
LEMMA AppIsShaped ==
  ASSUME TypeOK, DetachedHeld, NEW p \in App, AppNext(p)
  PROVE  AppShape(p)
<1>h. {HeadNodeId(p)} \ {Empty} \subseteq Known(p)
  BY HeadIsKnown DEF Known
<1>k. held[p] \subseteq Known(p) /\ RootsOf(view[p]) \subseteq Known(p)
  BY DEF Known
<1>v. /\ view = [view EXCEPT ![p] = view[p]]
      /\ held = [held EXCEPT ![p] = @ \cup {}]
      /\ obj = [obj EXCEPT ![p] = obj[p]]
  BY DEF TypeOK
<1>d. obj[p].detached => obj[p].node \in held[p] \cup {Empty}
  BY Zenon DEF DetachedHeld
<1>a. \A name : ~Attached(name).detached
  BY DEF Attached
<1>b. \A name, id : Detached(name, id).node = id
  BY DEF Detached
<1>1. CASE LoadHead(p)
  <2>1. KeepsNodes(p, view[p], {HeadNodeId(p)} \ {Empty}, obj[p])
    BY <1>1, <1>h, <1>k, <1>v, <1>d DEF LoadHead, Hold, KeepsNodes
  <2>. QED  BY <2>1, ShapeOfOther
<1>2. ASSUME NEW id \in held[p], LoadNode(p, id) PROVE AppShape(p)
  <2>1. Children(view[p].nodes[id]) \ {Empty} \subseteq Known(p)
    BY <1>2 DEF LoadNode, Known
  <2>2. KeepsNodes(p, view[p], Children(view[p].nodes[id]) \ {Empty}, obj[p])
    BY <1>2, <2>1, <1>k, <1>v, <1>d DEF LoadNode, Hold, KeepsNodes
  <2>. QED  BY <2>2, ShapeOfOther
<1>3. ASSUME NEW id \in LeafId, NEW k \in Key, NEW named \in BOOLEAN, NewLeaf(p, id, k, named)
      PROVE AppShape(p)
  <2>1. /\ [key |-> k, left |-> Empty, right |-> Empty] \in Node
        /\ Children([key |-> k, left |-> Empty, right |-> Empty]) = {}
    BY DEF Node, Children
  <2>2. id \in NodeId /\ id \notin DOMAIN view[p].nodes
    BY <1>3, NextIdIsFresh DEF NewLeaf
  <2>. QED  BY <1>3, <2>1, <2>2, ShapeOfWrite DEF NewLeaf
<1>4. ASSUME NEW id \in InteriorId, NEW l \in held[p] \cup {Empty}, NEW r \in held[p] \cup {Empty},
             NewBranch(p, id, l, r)
      PROVE AppShape(p)
  <2>0. held[p] \subseteq NodeId
    BY DEF TypeOK
  <2>1. /\ [key |-> NoKey, left |-> l, right |-> r] \in Node
        /\ Children([key |-> NoKey, left |-> l, right |-> r]) \subseteq held[p]
    BY <2>0 DEF Node, Children
  <2>2. id \in NodeId /\ id \notin DOMAIN view[p].nodes
    BY <1>4, NextIdIsFresh DEF NewBranch
  <2>. QED  BY <1>4, <2>1, <2>2, ShapeOfWrite DEF NewBranch
<1>5. ASSUME NEW id \in InteriorId, NewWitness(p, id) PROVE AppShape(p)
  <2>1. /\ [key |-> NoKey, left |-> Empty, right |-> Empty] \in Node
        /\ Children([key |-> NoKey, left |-> Empty, right |-> Empty]) = {}
    BY DEF Node, Children
  <2>2. id \in NodeId /\ id \notin DOMAIN view[p].nodes
    BY <1>5, NextIdIsFresh DEF NewWitness
  <2>. QED  BY <1>5, <2>1, <2>2, ShapeOfWrite DEF NewWitness
<1>6. ASSUME NEW id \in held[p] \cup {Empty}, SetHead(p, id) PROVE AppShape(p)
  <2>1. CASE obj[p].detached
    <3>1. /\ obj' = [obj EXCEPT ![p] = Detached(obj[p].head, id)]
          /\ UNCHANGED <<db, txn, view, held, gc>>
      BY <1>6, <2>1, Zenon DEF SetHead
    <3>2. txn[p] # "none"
      BY <1>6, <2>1, Zenon DEF SetHead
    <3>3. KeepsNodes(p, view[p], {}, Detached(obj[p].head, id))
      BY <3>1, <3>2, <1>b, <1>k, <1>v DEF KeepsNodes
    <3>. QED  BY <3>3, ShapeOfOther
  <2>2. CASE ~obj[p].detached
    <3>1. /\ UNCHANGED <<db, txn, obj, held, gc>>
          /\ PutHead(p, obj[p].head, id)
          /\ txn[p] = "write"
      BY <1>6, <2>2, Zenon DEF SetHead
    <3>2. RootsOf(WithHeads(view[p], Put(view[p].heads, obj[p].head, id))) \subseteq Known(p)
      BY <1>k, RootsAfterPut
    <3>3. KeepsNodes(p, WithHeads(view[p], Put(view[p].heads, obj[p].head, id)), {}, obj[p])
      BY <3>1, <3>2, <2>2, <1>v DEF PutHead, WithHeads, Writing, KeepsNodes
    <3>. QED  BY <3>3, ShapeOfOther
  <2>. QED  BY <2>1, <2>2
<1>7. ASSUME NEW id \in held[p] \cup {Empty}, CheckoutNode(p, id) PROVE AppShape(p)
  <2>1. KeepsNodes(p, view[p], {}, Detached(obj[p].head, id))
    BY <1>7, <1>b, <1>k, <1>v DEF CheckoutNode, KeepsNodes
  <2>. QED  BY <2>1, ShapeOfOther
<1>8. ASSUME NEW name \in HeadName, Checkout(p, name) PROVE AppShape(p)
  <2>1. KeepsNodes(p, view[p], {}, Attached(name))
    BY <1>8, <1>a, <1>k, <1>v DEF Checkout, KeepsNodes
  <2>. QED  BY <2>1, ShapeOfOther
<1>9. ASSUME NEW name \in HeadName, Fork(p, name) PROVE AppShape(p)
  <2>1. RootsOf(WithHeads(view[p], Put(view[p].heads, name, HeadNodeId(p)))) \subseteq Known(p)
    BY <1>h, <1>k, RootsAfterPut
  <2>2. KeepsNodes(p, WithHeads(view[p], Put(view[p].heads, name, HeadNodeId(p))),
                   {HeadNodeId(p)} \ {Empty}, Attached(name))
    BY <1>9, <2>1, <1>a, <1>h DEF WithHeads, Fork, PutHead, Hold, Writing, KeepsNodes
  <2>. QED  BY <2>2, ShapeOfOther
<1>10. ASSUME NEW name \in HeadName, RemoveHead(p, name) PROVE AppShape(p)
  <2>1. RootsOf(WithHeads(view[p], Del(view[p].heads, {name}))) \subseteq Known(p)
    BY <1>k, RootsAfterDel
  <2>2. KeepsNodes(p, WithHeads(view[p], Del(view[p].heads, {name})), {}, obj[p])
    BY <1>10, <2>1, <1>d, <1>v DEF WithHeads, RemoveHead, Writing, KeepsNodes
  <2>. QED  BY <2>2, ShapeOfOther
<1>11. CASE ForkDetached(p)
  <2>1. KeepsNodes(p, view[p], {HeadNodeId(p)} \ {Empty}, Detached(obj[p].head, HeadNodeId(p)))
    BY <1>11, <1>b, <1>h, <1>k, <1>v DEF ForkDetached, Hold, KeepsNodes
  <2>. QED  BY <2>1, ShapeOfOther
<1>. HIDE DEF TypeOK
<1>. QED
  BY <1>1, <1>2, <1>3, <1>4, <1>5, <1>6, <1>7, <1>8, <1>9, <1>10, <1>11 DEF AppNext

---------------------------------------------------------------------------
(* What an application step of this shape preserves.                       *)

LEMMA ShapeKeepsClear ==
  ASSUME NEW p \in App, AppShape(p), NEW G, Clear(p, G)
  PROVE  Clear(p, G)'
<1>1. Known(p) \cap G = {}
  BY DEF Known, Clear, Avoids
<1>2. Fresh(p) \cap G = {}
  BY DEF Fresh, Clear
<1>3. RootsOf(view'[p]) \cap G = {} /\ held'[p] \cap G = {}
  BY <1>1, <1>2 DEF AppShape
<1>4. ASSUME NEW id \in DOMAIN view'[p].nodes \ G PROVE Children(view'[p].nodes[id]) \cap G = {}
  BY <1>4 DEF AppShape, Fresh, Clear, Avoids
<1>. QED  BY <1>3, <1>4 DEF Clear, Avoids, AppShape

(* Such a step leaves no reference to a node that is not stored.           *)
LEMMA ShapeKeepsComplete ==
  ASSUME NEW p \in App, AppShape(p), Complete
  PROVE  Complete'
<1>1. Known(p) \subseteq DOMAIN view[p].nodes
  BY DEF Known, Complete, Closed
<1>2. RootsOf(view'[p]) \cup held'[p] \subseteq DOMAIN view'[p].nodes
  BY <1>1 DEF AppShape, Fresh
<1>3. ASSUME NEW id \in DOMAIN view'[p].nodes
      PROVE  Children(view'[p].nodes[id]) \subseteq DOMAIN view'[p].nodes
  BY <1>3 DEF AppShape, Fresh, Complete, Closed
<1>. QED  BY <1>2, <1>3 DEF AppShape, Complete, Closed

(* Lost garbage stays lost through an application's step.                  *)
LEMMA ShapeKeepsLost ==
  ASSUME NEW p \in App, AppShape(p), NEW G, Lost(G)
  PROVE  Lost(G)'
<1>1. ASSUME NEW w \in App, Writing(w)' PROVE Clear(w, G)'
  <2>1. Clear(w, G)
    BY <1>1 DEF AppShape, Writing, Lost
  <2>2. CASE w = p
    BY <2>1, <2>2, ShapeKeepsClear
  <2>3. CASE w # p
    BY <2>1, <2>3 DEF AppShape, Clear, Avoids
  <2>. QED  BY <2>2, <2>3
<1>. QED  BY <1>1 DEF Lost, AppShape, Avoids

---------------------------------------------------------------------------
(* The invariant, one kind of step after the other.                        *)

(* What a set of live nodes leaves out is not referred to from within it.  *)
LEMMA SpansAvoid ==
  ASSUME NEW store, NEW live \in LiveSets(store)
  PROVE  Avoids(store, Rest(store, live)) /\ Rest(store, live) \subseteq DOMAIN store.nodes
  BY DEF LiveSets, Spans, Avoids, Rest

(* What an application step does to the invariant.                         *)
LEMMA AppStep ==
  ASSUME IInv, OneCollector, NEW p \in App, AppNext(p)
  PROVE  Roles' /\ Complete' /\ DetachedHeld' /\ DatabaseSeparated'
         /\ \A c \in Collector : Walk(c)' /\ CollectorSeparated(c)'
<1>s. AppShape(p)
  BY AppIsShaped DEF IInv
<1>u. UNCHANGED <<db, txn, gc>> /\ \A c \in Collector : view'[c] = view[c] /\ held'[c] = held[c]
  BY <1>s DEF AppShape
<1>1. Roles'
  BY <1>s, <1>u DEF IInv, Roles, Writing, AppShape
<1>2. Complete'
  BY <1>s, ShapeKeepsComplete DEF IInv
<1>3. DetachedHeld'
  <2>. SUFFICES ASSUME NEW q \in Proc, obj'[q].detached PROVE obj'[q].node \in held'[q] \cup {Empty}
    BY DEF DetachedHeld
  <2>1. CASE q = p
    BY <1>s, <2>1, Zenon DEF AppShape
  <2>2. CASE q # p
    <3>1. obj'[q] = obj[q] /\ held'[q] = held[q]
      BY <1>s, <2>2 DEF AppShape
    <3>. QED  BY <3>1, Zenon DEF IInv, DetachedHeld
  <2>. QED  BY <2>1, <2>2
<1>4. DatabaseSeparated'
  BY <1>s, <1>u, ShapeKeepsLost DEF IInv, DatabaseSeparated, LiveSets, Rest, Spans, RootsOf
<1>5. ASSUME NEW c \in Collector PROVE Walk(c)' /\ CollectorSeparated(c)'
  <2>1. Walk(c)'
    BY <1>u DEF IInv, Walk, LiveSets, Spans, RootsOf
  <2>2. CollectorSeparated(c)'
    BY <1>s, <1>u, ShapeKeepsLost DEF IInv, CollectorSeparated, LiveSets, Rest, Spans, RootsOf
  <2>. QED  BY <2>1, <2>2
<1>. QED  BY <1>1, <1>2, <1>3, <1>4, <1>5

(* The end of a transaction, by commit, abort or crash.                    *)
EndShape(p) ==
  /\ db' = db \/ (Writing(p) /\ db' = view[p])
  /\ txn'[p] = "none" /\ view'[p] = EmptyStore /\ held'[p] = {}
  /\ \A q \in Proc \ {p} : /\ txn'[q] = txn[q] /\ view'[q] = view[q] /\ held'[q] = held[q]
                           /\ obj'[q] = obj[q] /\ gc'[q] = gc[q]
  /\ obj'[p].detached => obj'[p].node = Empty
  /\ gc'[p] = NewCollector \/ (gc'[p] = gc[p] /\ gc[p].phase = "swept")

(* A commit, an abort and a crash have the shape of an end.                *)
LEMMA EndIsShaped ==
  ASSUME TypeOK, MarkAndSweepTogether, NEW p \in Proc, Commit(p) \/ Abort(p) \/ Crash(p)
  PROVE  EndShape(p)
<1>1. ASSUME EndTxn(p) PROVE /\ txn'[p] = "none" /\ view'[p] = EmptyStore /\ held'[p] = {}
                             /\ \A q \in Proc \ {p} : txn'[q] = txn[q] /\ view'[q] = view[q] /\ held'[q] = held[q]
  BY <1>1 DEF EndTxn, TypeOK
<1>2. ASSUME DropDetachedHead(p)
      PROVE  /\ obj'[p].detached => obj'[p].node = Empty
             /\ \A q \in Proc \ {p} : obj'[q] = obj[q]
  <2>1. /\ obj'[p] = IF obj[p].detached THEN Detached(obj[p].head, Empty) ELSE obj[p]
        /\ \A q \in Proc \ {p} : obj'[q] = obj[q]
    BY <1>2 DEF DropDetachedHead, TypeOK
  <2>2. Detached(obj[p].head, Empty).node = Empty
    BY DEF Detached
  <2>. QED  BY <2>1, <2>2, Zenon
<1>3. ASSUME gc' = [gc EXCEPT ![p] = IF KeepsObject(p) THEN @ ELSE NewCollector]
      PROVE  /\ gc'[p] = NewCollector \/ (gc'[p] = gc[p] /\ gc[p].phase = "swept")
             /\ \A q \in Proc \ {p} : gc'[q] = gc[q]
  BY <1>3 DEF KeepsObject, MarkAndSweepTogether, TypeOK
<1>4. CASE Commit(p)
  BY <1>1, <1>2, <1>3, <1>4 DEF Commit, EndShape, Writing
<1>5. CASE Abort(p)
  BY <1>1, <1>2, <1>3, <1>5 DEF Abort, EndShape, Writing
<1>6. CASE Crash(p)
  <2>1. /\ obj'[p] = NewQuadrable /\ \A q \in Proc \ {p} : obj'[q] = obj[q]
        /\ gc'[p] = NewCollector /\ \A q \in Proc \ {p} : gc'[q] = gc[q]
    BY <1>6 DEF Crash, TypeOK
  <2>2. ~NewQuadrable.detached
    BY DEF NewQuadrable, Attached
  <2>. QED  BY <1>1, <1>6, <2>1, <2>2 DEF Crash, EndShape, Writing
<1>. QED  BY <1>4, <1>5, <1>6

(* What cannot be reached stays so when a transaction ends, unless it is   *)
(* the one that has just deleted nodes.                                    *)
LEMMA EndKeepsLost ==
  ASSUME IInv, NEW p \in Proc, EndShape(p), p \in App \/ gc[p].phase # "deleted",
         NEW G, Lost(G)
  PROVE  Lost(G)'
<1>1. CASE db' = db
  BY <1>1 DEF EndShape, Lost, Clear, Avoids, RootsOf, Writing
<1>2. CASE Writing(p) /\ db' = view[p]
  <2>1. \A w \in App : ~Writing(w)'
    BY <1>2 DEF IInv, Roles, EndShape, Writing
  <2>2. Avoids(view[p], G) /\ G \subseteq DOMAIN view[p].nodes
    BY <1>2 DEF IInv, Roles, Lost, Clear
  <2>. QED  BY <1>2, <2>1, <2>2 DEF Lost, Avoids, RootsOf
<1>. QED  BY <1>1, <1>2 DEF EndShape

(* What the end of a transaction does to the invariant.                    *)
LEMMA EndStep ==
  ASSUME IInv, OneCollector, NEW p \in Proc, EndShape(p)
  PROVE  Roles' /\ Complete' /\ DetachedHeld' /\ DatabaseSeparated'
         /\ \A c \in Collector : Walk(c)' /\ CollectorSeparated(c)'
<1>1. Roles'
  <2>1. \A q \in App : gc'[q] = NewCollector
    BY DEF EndShape, IInv, Roles
  <2>2. \A q \in Proc : txn'[q] = "none" => view'[q] = EmptyStore /\ held'[q] = {}
    BY DEF EndShape, IInv, Roles
  <2>3. \A q \in Proc : Writing(q)' => q # p /\ Writing(q) /\ gc'[q] = gc[q] /\ view'[q] = view[q]
    BY DEF EndShape, Writing
  <2>4. \A q \in Proc : Writing(q)' => db' = db
    BY <2>3 DEF EndShape, IInv, Roles
  <2>5. \A c \in Collector : held'[c] = {}
    BY DEF EndShape, IInv, Roles
  <2>. QED  BY <2>1, <2>2, <2>3, <2>4, <2>5 DEF IInv, Roles
<1>2. Complete'
  <2>1. Closed(EmptyStore)
    BY EmptyStoreOK
  <2>2. Closed(db)'
    BY DEF EndShape, IInv, Complete, Closed, RootsOf
  <2>3. ASSUME NEW q \in Proc PROVE Closed(view[q])' /\ held'[q] \subseteq DOMAIN view'[q].nodes
    BY <2>1 DEF EndShape, IInv, Complete, Closed, RootsOf
  <2>. QED  BY <2>2, <2>3 DEF Complete
<1>3. DetachedHeld'
  <2>. SUFFICES ASSUME NEW q \in Proc, obj'[q].detached PROVE obj'[q].node \in held'[q] \cup {Empty}
    BY DEF DetachedHeld
  <2>1. CASE q = p
    BY <2>1, Zenon DEF EndShape
  <2>2. CASE q # p
    <3>1. obj'[q] = obj[q] /\ held'[q] = held[q]
      BY <2>2 DEF EndShape
    <3>. QED  BY <3>1, Zenon DEF IInv, DetachedHeld
  <2>. QED  BY <2>1, <2>2
<1>4. DatabaseSeparated'
  <2>. SUFFICES ASSUME NEW live \in LiveSets(db)' PROVE Lost(Rest(db, live))'
    BY DEF DatabaseSeparated
  <2>1. CASE db' = db /\ (p \in App \/ gc[p].phase # "deleted")
    BY <2>1, EndKeepsLost DEF IInv, DatabaseSeparated, LiveSets, Rest, Spans, RootsOf
  <2>2. CASE \A w \in App : ~Writing(w)'
    <3>1. Avoids(db, Rest(db, live))' /\ Rest(db', live) \subseteq DOMAIN db'.nodes
      BY SpansAvoid DEF LiveSets, Rest, Spans, Avoids, RootsOf
    <3>. QED  BY <2>2, <3>1 DEF Lost, Rest
  <2>3. Writing(p) => \A w \in App : ~Writing(w)'
    BY DEF EndShape, IInv, Roles, Writing
  <2>4. p \in App \/ gc[p].phase # "deleted" \/ Writing(p)
    BY DEF IInv, Walk, Writing
  <2>. QED  BY <2>1, <2>2, <2>3, <2>4 DEF EndShape
<1>5. ASSUME NEW c \in Collector PROVE Walk(c)' /\ CollectorSeparated(c)'
  <2>1. CASE c # p
    <3>1. p \in App /\ txn'[c] = txn[c] /\ view'[c] = view[c] /\ gc'[c] = gc[c]
      BY <2>1 DEF OneCollector, EndShape
    <3>2. Walk(c)'
      BY <3>1 DEF IInv, Walk, LiveSets, Spans, RootsOf
    <3>3. CollectorSeparated(c)'
      BY <3>1, EndKeepsLost DEF IInv, CollectorSeparated, LiveSets, Rest, Spans, RootsOf
    <3>. QED  BY <3>2, <3>3
  <2>2. CASE c = p
    <3>1. txn'[c] = "none"
      BY <2>2 DEF EndShape
    <3>2. CASE gc'[c] = NewCollector
      BY <3>1, <3>2 DEF Walk, CollectorSeparated, NewCollector, GarbageCollector
    <3>3. CASE gc'[c] = gc[c] /\ gc[c].phase = "swept"
      <4>1. Lost(gc[c].garbage)'
        BY <2>2, <3>3, EndKeepsLost DEF IInv, CollectorSeparated
      <4>. QED  BY <3>1, <3>3, <4>1 DEF IInv, Walk, CollectorSeparated
    <3>. QED  BY <2>2, <3>2, <3>3 DEF EndShape
  <2>. QED  BY <2>1, <2>2
<1>. QED  BY <1>1, <1>2, <1>3, <1>4, <1>5

(* What the beginning of a transaction does to the invariant.              *)
LEMMA BeginStep ==
  ASSUME IInv, OneCollector, NEW p \in Proc, NEW mode \in {"read", "write"}, Begin(p, mode)
  PROVE  Roles' /\ Complete' /\ DetachedHeld' /\ DatabaseSeparated'
         /\ \A c \in Collector : Walk(c)' /\ CollectorSeparated(c)'
<1>s. /\ UNCHANGED <<db, obj, held, gc>>
      /\ txn[p] = "none" /\ txn'[p] = mode /\ view'[p] = db /\ held[p] = {}
      /\ \A q \in Proc \ {p} : txn'[q] = txn[q] /\ view'[q] = view[q]
      /\ mode = "write" => \A q \in Proc : ~Writing(q)
  BY DEF Begin, IInv, TypeOK, Roles, Writing
<1>0. ASSUME NEW G, Lost(G) PROVE Lost(G)'
  <2>. SUFFICES ASSUME NEW w \in App, Writing(w)' PROVE Clear(w, G)'
    BY <1>s, <1>0 DEF Lost, Avoids, RootsOf
  <2>1. CASE w = p
    BY <1>s, <1>0, <2>1 DEF Lost, Clear, Avoids, RootsOf
  <2>2. CASE w # p
    BY <1>s, <1>0, <2>2 DEF Lost, Clear, Avoids, RootsOf, Writing
  <2>. QED  BY <2>1, <2>2
<1>1. Roles'
  BY <1>s DEF IInv, Roles, Writing
<1>2. Complete'
  BY <1>s DEF IInv, Complete, Closed, RootsOf
<1>3. DetachedHeld'
  BY <1>s DEF IInv, DetachedHeld
<1>4. DatabaseSeparated'
  BY <1>s, <1>0 DEF IInv, DatabaseSeparated, LiveSets, Rest, Spans, RootsOf
<1>5. ASSUME NEW c \in Collector PROVE Walk(c)' /\ CollectorSeparated(c)'
  <2>1. CASE c # p
    <3>1. txn'[c] = txn[c] /\ view'[c] = view[c] /\ gc'[c] = gc[c]
      BY <1>s, <2>1
    <3>2. Walk(c)'
      BY <3>1 DEF IInv, Walk, LiveSets, Spans, RootsOf
    <3>3. CollectorSeparated(c)'
      BY <1>0, <3>1 DEF IInv, CollectorSeparated, LiveSets, Rest, Spans, RootsOf
    <3>. QED  BY <3>2, <3>3
  <2>2. CASE c = p
    <3>1. Walk(c)'
      BY <1>s, <2>2 DEF IInv, Walk
    <3>2. ASSUME NEW live \in LiveSets(view[c])' PROVE Lost(Rest(view[c], live))'
      BY <1>s, <1>0, <2>2, <3>2 DEF IInv, DatabaseSeparated, LiveSets, Rest, Spans, RootsOf
    <3>3. gc'[c].phase = "swept" => Lost(gc[c].garbage)'
      BY <1>s, <1>0 DEF IInv, CollectorSeparated
    <3>. QED  BY <1>s, <3>1, <3>2, <3>3 DEF CollectorSeparated
  <2>. QED  BY <2>1, <2>2
<1>. QED  BY <1>1, <1>2, <1>3, <1>4, <1>5

(* Tables that avoid garbage are complete without it.                      *)
LEMMA ClosedWithoutGarbage ==
  ASSUME NEW store, NEW new, NEW G, Closed(store), Avoids(store, G),
         new.nodes = Del(store.nodes, G), new.heads = store.heads
  PROVE  Closed(new)
  BY DEF Closed, Avoids, RootsOf, Del, Restrict

(* What a step of a collector does to the invariant.                       *)
LEMMA CollectorStep ==
  ASSUME IInv, OneCollector, NEW c \in Collector, CollectorNext(c)
  PROVE  Roles' /\ Complete' /\ DetachedHeld' /\ DatabaseSeparated'
         /\ \A d \in Collector : Walk(d)' /\ CollectorSeparated(d)'
<1>t. gc \in [Proc -> [phase : {"idle", "marking", "swept", "deleted"},
                     todo : SUBSET NodeId, marked : SUBSET NodeId, garbage : SUBSET NodeId]]
  BY DEF IInv, TypeOK
<1>s. /\ UNCHANGED <<db, txn, obj, held>>
      /\ \A q \in Proc \ {c} : view'[q] = view[q] /\ gc'[q] = gc[q]
      /\ \A d \in Collector : d = c
  BY DEF CollectorNext, MarkAllHeads, MarkNode, Sweep, DeleteNodes, OneCollector, IInv, TypeOK
<1>0. ASSUME NEW G, Lost(G) PROVE Lost(G)'
  BY <1>s, <1>0 DEF Lost, Clear, Avoids, RootsOf, Writing
<1>3. DetachedHeld'
  BY <1>s DEF IInv, DetachedHeld
<1>4. DatabaseSeparated'
  BY <1>s, <1>0 DEF IInv, DatabaseSeparated, LiveSets, Rest, Spans, RootsOf
<1>l. ASSUME view' = view, gc[c].phase \in {"idle", "marking"}, txn[c] # "none",
             NEW live \in LiveSets(view[c])'
      PROVE  Lost(Rest(view[c], live))'
  <2>1. live \in LiveSets(view[c]) /\ Rest(view[c], live)' = Rest(view[c], live)
    BY <1>l DEF LiveSets, Spans, RootsOf, Rest
  <2>2. Lost(Rest(view[c], live))
    BY <1>l, <2>1 DEF IInv, CollectorSeparated
  <2>. QED  BY <1>0, <2>1, <2>2
<1>5. ASSUME view' = view, gc[c].phase # "deleted"
      PROVE  Roles' /\ Complete'
  BY <1>s, <1>5 DEF IInv, Roles, Complete, Closed, RootsOf, Writing
<1>6. CASE MarkAllHeads(c)
  <2>1. /\ view' = view /\ txn[c] # "none" /\ gc[c].phase = "idle"
        /\ gc'[c] = GarbageCollector("marking", RootsOf(view[c]), {}, {})
    BY <1>6, <1>t DEF MarkAllHeads
  <2>2. Roles' /\ Complete'
    BY <1>5, <2>1
  <2>3. RootsOf(view[c]) \subseteq DOMAIN view[c].nodes
    BY DEF IInv, Complete, Closed
  <2>4. Walk(c)'
    BY <1>s, <2>1, <2>3 DEF Walk, GarbageCollector, LiveSets, Spans, RootsOf
  <2>5. CollectorSeparated(c)'
    BY <1>l, <2>1 DEF CollectorSeparated, GarbageCollector
  <2>. QED  BY <1>s, <1>3, <1>4, <2>2, <2>4, <2>5
<1>7. ASSUME NEW id \in gc[c].todo, MarkNode(c, id)
      PROVE  Roles' /\ Complete' /\ Walk(c)' /\ CollectorSeparated(c)'
  <2> DEFINE found == IF id \in gc[c].marked THEN {} ELSE Children(view[c].nodes[id])
             new   == (gc[c].todo \ {id}) \cup found
  <2>1. /\ view' = view /\ gc[c].phase = "marking"
        /\ gc'[c] = GarbageCollector("marking", new, gc[c].marked \cup {id}, {})
    BY <1>7, <1>t DEF MarkNode, IInv, Walk
  <2>2. /\ gc'[c].phase = "marking" /\ gc'[c].todo = new
        /\ gc'[c].marked = gc[c].marked \cup {id}
    BY <2>1 DEF GarbageCollector
  <2>3. Roles' /\ Complete'
    BY <1>5, <2>1
  <2>4. /\ gc[c].marked \cup gc[c].todo \subseteq DOMAIN view[c].nodes
        /\ \A n \in gc[c].marked : Children(view[c].nodes[n]) \subseteq gc[c].marked \cup gc[c].todo
        /\ RootsOf(view[c]) \subseteq gc[c].marked \cup gc[c].todo
        /\ \A live \in LiveSets(view[c]) : gc[c].marked \cup gc[c].todo \subseteq live
        /\ txn[c] # "none"
    BY <2>1 DEF IInv, Walk
  <2>5. Children(view[c].nodes[id]) \subseteq gc'[c].marked \cup gc'[c].todo
    BY <2>2, <2>4
  <2>6. /\ gc'[c].marked \cup gc'[c].todo \subseteq gc[c].marked \cup gc[c].todo \cup Children(view[c].nodes[id])
        /\ gc[c].marked \cup gc[c].todo \subseteq gc'[c].marked \cup gc'[c].todo
    BY <2>2
  <2>7. Children(view[c].nodes[id]) \subseteq DOMAIN view[c].nodes
    BY <2>4 DEF IInv, Complete, Closed
  <2>8. \A live \in LiveSets(view[c]) : Children(view[c].nodes[id]) \subseteq live
    BY <2>4 DEF LiveSets, Spans
  <2>9. /\ gc'[c].marked \cup gc'[c].todo \subseteq DOMAIN view[c].nodes
        /\ RootsOf(view[c]) \subseteq gc'[c].marked \cup gc'[c].todo
        /\ \A live \in LiveSets(view[c]) : gc'[c].marked \cup gc'[c].todo \subseteq live
    BY <2>4, <2>6, <2>7, <2>8
  <2>10. \A n \in gc'[c].marked : Children(view[c].nodes[n]) \subseteq gc'[c].marked \cup gc'[c].todo
    BY <2>2, <2>4, <2>5, <2>6
  <2>11. Walk(c)'
    <3>1. txn'[c] # "none" /\ view'[c] = view[c] /\ LiveSets(view[c])' = LiveSets(view[c])
          /\ RootsOf(view[c])' = RootsOf(view[c])
      BY <1>s, <2>1, <2>4 DEF LiveSets, Spans, RootsOf
    <3>. HIDE DEF found, new
    <3>. QED  BY <2>2, <2>9, <2>10, <3>1 DEF Walk
  <2>12. CollectorSeparated(c)'
    BY <1>l, <2>1, <2>2, <2>4 DEF CollectorSeparated
  <2>. QED  BY <2>3, <2>11, <2>12
<1>8. CASE Sweep(c)
  <2>1. /\ view' = view /\ gc[c].phase = "marking" /\ gc[c].todo = {} /\ txn[c] # "none"
        /\ gc'[c] = GarbageCollector("swept", {}, gc[c].marked, Rest(view[c], gc[c].marked))
    BY <1>8, <1>t DEF Sweep, Rest
  <2>2. Roles' /\ Complete'
    BY <1>5, <2>1
  <2>3. gc[c].marked \in LiveSets(view[c])
    BY <2>1 DEF IInv, Walk, LiveSets, Spans
  <2>4. Lost(Rest(view[c], gc[c].marked))
    BY <2>1, <2>3 DEF IInv, CollectorSeparated
  <2>5. Walk(c)' /\ CollectorSeparated(c)'
    BY <1>0, <2>1, <2>4 DEF Walk, CollectorSeparated, GarbageCollector
  <2>. QED  BY <1>s, <1>3, <1>4, <2>2, <2>5
<1>9. CASE DeleteNodes(c)
  <2>1. /\ view'[c].nodes = Del(view[c].nodes, gc[c].garbage)
        /\ view'[c].heads = view[c].heads
        /\ gc[c].phase = "swept" /\ Writing(c)
        /\ gc'[c] = GarbageCollector("deleted", {}, gc[c].marked, gc[c].garbage)
    BY <1>9, <1>t DEF DeleteNodes, Writing, IInv, TypeOK
  <2>2. view[c] = db /\ Avoids(db, gc[c].garbage)
    BY <2>1 DEF IInv, Roles, CollectorSeparated, Lost
  <2>3. Closed(view'[c])
    BY <2>1, <2>2, ClosedWithoutGarbage DEF IInv, Complete
  <2>4. held[c] = {}
    BY DEF IInv, Roles
  <2>5. Complete'
    BY <1>s, <2>3, <2>4 DEF IInv, Complete, Closed, RootsOf
  <2>6. Roles'
    BY <1>s, <2>1 DEF IInv, Roles, Writing, GarbageCollector
  <2>7. Walk(c)' /\ CollectorSeparated(c)'
    BY <1>s, <2>1 DEF Walk, CollectorSeparated, GarbageCollector, Writing
  <2>. QED  BY <1>s, <1>3, <1>4, <2>5, <2>6, <2>7
<1>. QED  BY <1>s, <1>3, <1>4, <1>6, <1>7, <1>8, <1>9 DEF CollectorNext

---------------------------------------------------------------------------
(* The theorems                                                            *)

LEMMA InvInit == Init => IInv
<1>. SUFFICES ASSUME Init PROVE IInv
  OBVIOUS
<1>1. TypeOK
  BY TypeInit
<1>2. Roles /\ Complete /\ DetachedHeld
  BY EmptyStoreOK DEF Init, Roles, Complete, DetachedHeld, Writing, NewQuadrable, Attached
<1>3. \A c \in Collector : Walk(c) /\ CollectorSeparated(c)
  BY DEF Init, Walk, CollectorSeparated, NewCollector, GarbageCollector
<1>4. DatabaseSeparated
  <2>. SUFFICES ASSUME NEW live \in LiveSets(db) PROVE Lost(Rest(db, live))
    BY DEF DatabaseSeparated
  <2>. QED  BY SpansAvoid DEF Init, Lost, Writing
<1>. QED  BY <1>1, <1>2, <1>3, <1>4 DEF IInv

LEMMA InvStutter == IInv /\ UNCHANGED vars => IInv'
<1>. SUFFICES ASSUME IInv, UNCHANGED vars PROVE IInv'
  OBVIOUS
<1>0. UNCHANGED <<db, txn, view, obj, held, gc>>
  BY DEF vars
<1>1. TypeOK' /\ Roles' /\ Complete' /\ DetachedHeld'
  <2>1. TypeOK'
    BY <1>0 DEF IInv, TypeOK
  <2>2. Roles'
    BY <1>0 DEF IInv, Roles, Writing
  <2>3. Complete'
    BY <1>0 DEF IInv, Complete, Closed, RootsOf
  <2>4. DetachedHeld'
    BY <1>0 DEF IInv, DetachedHeld
  <2>. QED  BY <2>1, <2>2, <2>3, <2>4
<1>2. ASSUME NEW G, Lost(G) PROVE Lost(G)'
  BY <1>0, <1>2 DEF Lost, Clear, Avoids, RootsOf, Writing
<1>3. ASSUME NEW c \in Collector PROVE Walk(c)' /\ CollectorSeparated(c)'
  <2>1. Walk(c)'
    BY <1>0 DEF IInv, Walk, LiveSets, Spans, RootsOf
  <2>2. CollectorSeparated(c)'
    BY <1>0, <1>2 DEF IInv, CollectorSeparated, LiveSets, Rest, Spans, RootsOf
  <2>. QED  BY <2>1, <2>2
<1>4. DatabaseSeparated'
  BY <1>0, <1>2 DEF IInv, DatabaseSeparated, LiveSets, Rest, Spans, RootsOf
<1>. QED  BY <1>1, <1>3, <1>4 DEF IInv

(* Every step of a system with one collector keeps the invariant.          *)
LEMMA InvNext ==
  ASSUME OneCollector, MarkAndSweepTogether, IInv, Next
  PROVE  IInv'
<1>0. TypeOK'
  BY TypeTxn, TypeApp, TypeCollector DEF IInv, Next
<1>1. ASSUME NEW p \in Proc, TxnNext(p) PROVE IInv'
  <2>1. ASSUME NEW mode \in {"read", "write"}, Begin(p, mode) PROVE IInv'
    BY <1>0, <2>1, BeginStep DEF IInv
  <2>2. CASE Commit(p) \/ Abort(p) \/ Crash(p)
    BY <1>0, <2>2, EndIsShaped, EndStep DEF IInv
  <2>. QED  BY <1>1, <2>1, <2>2 DEF TxnNext
<1>2. ASSUME NEW p \in App, AppNext(p) PROVE IInv'
  BY <1>0, <1>2, AppStep DEF IInv
<1>3. ASSUME NEW c \in Collector, CollectorNext(c) PROVE IInv'
  BY <1>0, <1>3, CollectorStep DEF IInv
<1>. QED  BY <1>1, <1>2, <1>3 DEF Next

(* The inductive invariant holds in every behaviour with one collector     *)
(* that sweeps in the transaction it marked in.                            *)
THEOREM Invariance ==
  ASSUME OneCollector, MarkAndSweepTogether
  PROVE  Spec => []IInv
<1>1. IInv /\ [Next]_vars => IInv'
  BY InvNext, InvStutter
<1>. QED  BY InvInit, <1>1, PTL DEF Spec

(* With one collector that sweeps where it marked, no transaction, old or  *)
(* new, ever misses a node it can reach: "couldn't find nodeId" cannot be  *)
(* thrown, however collections, writers, readers and crashes interleave.   *)
THEOREM NothingIsEverMissing ==
  ASSUME OneCollector, MarkAndSweepTogether
  PROVE  Spec => []NothingMissing
<1>1. IInv => NothingMissing
  <2>. SUFFICES ASSUME IInv PROVE NothingMissing
    OBVIOUS
  <2>1. \A p \in Proc : obj[p].detached => obj[p].node \in held[p] \cup {Empty}
    BY Zenon DEF IInv, DetachedHeld
  <2>2. Closed(db) /\ \A p \in Proc : Closed(view[p]) /\ held[p] \subseteq DOMAIN view[p].nodes
    BY DEF IInv, Complete
  <2>. QED  BY <2>1, <2>2, Zenon DEF NothingMissing
<1>. QED  BY Invariance, <1>1, PTL

(* Under the same hypotheses a list of garbage never goes stale: whatever  *)
(* is committed between the sweep and the deletion, the listed nodes stay  *)
(* unreachable and no writer gets hold of one.                             *)
THEOREM GarbageIsNeverGrabbedBack ==
  ASSUME OneCollector, MarkAndSweepTogether
  PROVE  Spec => []GarbageStaysGarbage
<1>1. IInv => GarbageStaysGarbage
  <2>. SUFFICES ASSUME IInv, NEW c \in Collector, gc[c].phase = "swept"
                PROVE  /\ gc[c].garbage \cap Reachable(db) = {}
                       /\ \A p \in App : txn[p] = "write" => gc[c].garbage \cap held[p] = {}
    BY DEF GarbageStaysGarbage
  <2>1. Lost(gc[c].garbage)
    BY DEF IInv, CollectorSeparated
  <2>2. Spans(db, DOMAIN db.nodes \ gc[c].garbage)
    BY <2>1 DEF Lost, Avoids, Spans, IInv, Complete, Closed
  <2>. QED  BY <2>1, <2>2 DEF Reachable, Lost, Clear, Writing
<1>. QED  BY Invariance, <1>1, PTL

(* Under the same hypotheses sweep() lists the unreachable nodes of its    *)
(* snapshot, all of them and nothing else.                                 *)
THEOREM SweepListsExactlyTheGarbage ==
  ASSUME OneCollector, MarkAndSweepTogether
  PROVE  Spec => SweepIsExact
<1>1. ASSUME IInv, [Next]_vars, NEW c \in Collector,
             gc[c].phase = "marking", gc'[c].phase = "swept"
      PROVE  gc'[c].garbage = DOMAIN view[c].nodes \ Reachable(view[c])
  <2>1. Sweep(c)
    <3>1. ASSUME NEW p \in Proc, TxnNext(p) PROVE FALSE
      BY <1>1, <3>1, EndIsShaped DEF TxnNext, Begin, EndShape, IInv, NewCollector, GarbageCollector
    <3>2. ASSUME NEW p \in App, AppNext(p) PROVE FALSE
      BY <1>1, <3>2, AppIsShaped DEF AppShape, IInv
    <3>3. ASSUME NEW d \in Collector, CollectorNext(d) PROVE Sweep(c)
      <4>1. d = c
        BY DEF OneCollector
      <4>3. ASSUME NEW t, NEW m, NEW ph \in {"marking", "deleted"}, NEW g,
                   gc' = [gc EXCEPT ![c] = GarbageCollector(ph, t, m, g)]
            PROVE FALSE
        BY <1>1, <4>3 DEF GarbageCollector, IInv, TypeOK
      <4>4. ~MarkAllHeads(c) /\ ~DeleteNodes(c) /\ \A id : ~MarkNode(c, id)
        BY <4>3 DEF MarkAllHeads, DeleteNodes, MarkNode
      <4>. QED  BY <3>3, <4>1, <4>4 DEF CollectorNext
    <3>. QED  BY <1>1, <3>1, <3>2, <3>3 DEF Next, vars
  <2>2. gc'[c].garbage = DOMAIN view[c].nodes \ gc[c].marked /\ gc[c].todo = {}
    BY <1>1, <2>1 DEF Sweep, GarbageCollector, IInv, TypeOK
  <2>3. gc[c].marked \in SUBSET DOMAIN view[c].nodes /\ Spans(view[c], gc[c].marked)
    BY <1>1, <2>2 DEF IInv, Walk, Spans
  <2>4. \A live \in SUBSET DOMAIN view[c].nodes : Spans(view[c], live) => gc[c].marked \subseteq live
    BY <1>1 DEF IInv, Walk, LiveSets
  <2>5. Reachable(view[c]) = gc[c].marked
    BY <2>3, <2>4 DEF Reachable
  <2>. QED  BY <2>2, <2>5
<1>2. IInv /\ [Next]_vars =>
        [\A c \in Collector : gc[c].phase = "marking" /\ gc'[c].phase = "swept" =>
           gc'[c].garbage = DOMAIN view[c].nodes \ Reachable(view[c])]_vars
  BY <1>1
<1>. QED  BY Invariance, <1>2, PTL DEF Spec, SweepIsExact

---------------------------------------------------------------------------
(* Key tracking and copy-on-write                                          *)

(* An application step either writes one node under an id that its view    *)
(* does not have, or leaves the nodes and keys of all views as they are.   *)
WritesFresh(p) ==
  \E id \in NodeId, node \in Node, tracked \in BOOLEAN :
    id \notin DOMAIN view[p].nodes /\ WriteNode(p, id, node, tracked)

(* There is no third kind of application step.                             *)
LEMMA AppWrites ==
  ASSUME TypeOK, NEW p \in App, AppNext(p)
  PROVE  /\ UNCHANGED <<db, txn>>
         /\ WritesFresh(p) \/ \A q \in Proc : view'[q].nodes = view[q].nodes /\ view'[q].keys = view[q].keys
<1>h. held[p] \subseteq NodeId
  BY DEF TypeOK
<1>1. ASSUME NEW id \in LeafId, NEW k \in Key, NEW named \in BOOLEAN, NewLeaf(p, id, k, named)
      PROVE  UNCHANGED <<db, txn>> /\ WritesFresh(p)
  <2>1. [key |-> k, left |-> Empty, right |-> Empty] \in Node
    BY DEF Node
  <2>2. id \in NodeId /\ id \notin DOMAIN view[p].nodes
    BY <1>1, NextIdIsFresh DEF NewLeaf
  <2>. QED  BY <1>1, <2>1, <2>2 DEF NewLeaf, WritesFresh, WriteNode
<1>2. ASSUME NEW id \in InteriorId, NEW l \in held[p] \cup {Empty}, NEW r \in held[p] \cup {Empty},
             NewBranch(p, id, l, r)
      PROVE  UNCHANGED <<db, txn>> /\ WritesFresh(p)
  <2>1. [key |-> NoKey, left |-> l, right |-> r] \in Node
    BY <1>h DEF Node
  <2>2. id \in NodeId /\ id \notin DOMAIN view[p].nodes
    BY <1>2, NextIdIsFresh DEF NewBranch
  <2>. QED  BY <1>2, <2>1, <2>2 DEF NewBranch, WritesFresh, WriteNode
<1>3. ASSUME NEW id \in InteriorId, NewWitness(p, id)
      PROVE  UNCHANGED <<db, txn>> /\ WritesFresh(p)
  <2>1. [key |-> NoKey, left |-> Empty, right |-> Empty] \in Node
    BY DEF Node
  <2>2. id \in NodeId /\ id \notin DOMAIN view[p].nodes
    BY <1>3, NextIdIsFresh DEF NewWitness
  <2>. QED  BY <1>3, <2>1, <2>2 DEF NewWitness, WritesFresh, WriteNode
<1>4. ASSUME NEW heads, view' = [view EXCEPT ![p] = WithHeads(@, heads)]
      PROVE  \A q \in Proc : view'[q].nodes = view[q].nodes /\ view'[q].keys = view[q].keys
  BY <1>4 DEF TypeOK, WithHeads
<1>5. ASSUME NEW id \in held[p] \cup {Empty}, SetHead(p, id)
      PROVE  UNCHANGED <<db, txn>>
             /\ \A q \in Proc : view'[q].nodes = view[q].nodes /\ view'[q].keys = view[q].keys
  <2>1. UNCHANGED view \/ PutHead(p, obj[p].head, id)
    BY <1>5, Zenon DEF SetHead
  <2>. QED  BY <1>4, <1>5, <2>1 DEF SetHead, PutHead
<1>6. ASSUME NEW name \in HeadName, Fork(p, name) \/ RemoveHead(p, name)
      PROVE  UNCHANGED <<db, txn>>
             /\ \A q \in Proc : view'[q].nodes = view[q].nodes /\ view'[q].keys = view[q].keys
  BY <1>4, <1>6 DEF Fork, PutHead, RemoveHead
<1>7. ASSUME \/ LoadHead(p) \/ ForkDetached(p)
             \/ \E id \in held[p] : LoadNode(p, id)
             \/ \E id \in held[p] \cup {Empty} : CheckoutNode(p, id)
             \/ \E name \in HeadName : Checkout(p, name)
      PROVE  UNCHANGED <<db, txn, view>>
  BY <1>7 DEF LoadHead, ForkDetached, LoadNode, CheckoutNode, Checkout
<1>. QED  BY <1>1, <1>2, <1>3, <1>5, <1>6, <1>7 DEF AppNext

(* What the write of a fresh node does to the tables of the writer.        *)
LEMMA FreshWrite ==
  ASSUME TypeOK, NEW p \in App, WritesFresh(p)
  PROVE  /\ Writing(p)
         /\ \A q \in Proc \ {p} : view'[q] = view[q]
         /\ DOMAIN view[p].nodes \subseteq DOMAIN view'[p].nodes
         /\ \A id \in DOMAIN view[p].nodes : view'[p].nodes[id] = view[p].nodes[id]
         /\ KeysFit(view[p]) => KeysFit(view'[p])
<1>1. PICK id \in NodeId, node \in Node, tracked \in BOOLEAN :
        id \notin DOMAIN view[p].nodes /\ WriteNode(p, id, node, tracked)
  BY DEF WritesFresh
<1>2. /\ view'[p].nodes = Put(view[p].nodes, id, node)
      /\ view'[p].keys = IF tracked THEN Put(view[p].keys, id, node.key) ELSE view[p].keys
      /\ \A q \in Proc \ {p} : view'[q] = view[q]
  BY <1>1 DEF WriteNode, TypeOK
<1>3. KeysFit(view[p]) => KeysFit(view'[p])
  BY <1>1, <1>2 DEF KeysFit, Put
<1>. QED  BY <1>1, <1>2, <1>3 DEF WriteNode, Writing, Put

(* The hypothesis of the key table theorem: no collector that would delete *)
(* a leaf and leave its key behind.                                        *)
CollectorsTrack == Collector \subseteq Tracking

(* Deleting leaves together with their keys keeps the tables together.     *)
LEMMA KeysAfterDelete ==
  ASSUME NEW store, NEW new, NEW G, KeysFit(store), DOMAIN store.keys \subseteq LeafId,
         new.nodes = Del(store.nodes, G), new.keys = Del(store.keys, G \cap LeafId)
  PROVE  KeysFit(new)
  BY DEF KeysFit, Del, Restrict

(* If the collectors track keys, the key table never names a wrong key and *)
(* has no entry for a node that was collected, whether or not the other    *)
(* threads track keys and however many collectors there are.               *)
THEOREM KeyTableIsSound ==
  ASSUME CollectorsTrack
  PROVE  Spec => []KeyTableSound
<1> DEFINE KInv == TypeOK /\ KeyTableSound
<1>1. Init => KInv
  BY TypeInit, EmptyStoreOK DEF Init, KeyTableSound
<1>2. ASSUME KInv, [Next]_vars PROVE KInv'
  <2>0. TypeOK'
    <3>1. UNCHANGED vars => TypeOK'
      BY <1>2 DEF TypeOK, vars
    <3>. QED  BY <1>2, <3>1, TypeTxn, TypeApp, TypeCollector DEF Next
  <2>1. ASSUME NEW p \in Proc, TxnNext(p) PROVE KeyTableSound'
    <3>1. ASSUME NEW mode \in {"read", "write"}, Begin(p, mode) PROVE KeyTableSound'
      <4>1. db' = db /\ \A q \in Proc : view'[q] = view[q] \/ view'[q] = db
        BY <1>2, <3>1 DEF Begin, TypeOK
      <4> QED  BY <1>2, <4>1 DEF KeyTableSound, KeysFit
    <3>2. CASE Commit(p) \/ Abort(p) \/ Crash(p)
      <4>1. /\ db' = db \/ db' = view[p]
            /\ \A q \in Proc : view'[q] = view[q] \/ view'[q] = EmptyStore
        BY <1>2, <3>2 DEF Commit, Abort, Crash, EndTxn, TypeOK
      <4>. QED  BY <1>2, <4>1, EmptyStoreOK DEF KeyTableSound, KeysFit
    <3>. QED  BY <2>1, <3>1, <3>2 DEF TxnNext
  <2>2. ASSUME NEW p \in App, AppNext(p) PROVE KeyTableSound'
    BY <1>2, <2>2, AppWrites, FreshWrite DEF KeyTableSound, KeysFit
  <2>3. ASSUME NEW c \in Collector, CollectorNext(c) PROVE KeyTableSound'
    <3>1. UNCHANGED <<db, view>> => KeyTableSound'
      BY <1>2 DEF KeyTableSound, KeysFit
    <3>2. CASE DeleteNodes(c)
      <4>1. /\ view'[c].nodes = Del(view[c].nodes, gc[c].garbage)
            /\ view'[c].keys = Del(view[c].keys, gc[c].garbage \cap LeafId)
            /\ \A q \in Proc \ {c} : view'[q] = view[q]
            /\ db' = db
        BY <1>2, <3>2 DEF DeleteNodes, CollectorsTrack, TypeOK
      <4>2. KeysFit(view'[c])
        BY <1>2, <4>1, KeysAfterDelete DEF KeyTableSound, TypeOK, StoreOK, TableOf
      <4>3. \A q \in Proc \ {c} : KeysFit(view'[q])
        BY <1>2, <4>1 DEF KeyTableSound
      <4>4. KeysFit(db')
        BY <1>2, <4>1 DEF KeyTableSound
      <4>. QED  BY <4>2, <4>3, <4>4 DEF KeyTableSound, KeysFit
    <3>. QED  BY <2>3, <3>1, <3>2 DEF CollectorNext, MarkAllHeads, MarkNode, Sweep
  <2>4. UNCHANGED vars => KeyTableSound'
    BY <1>2 DEF KeyTableSound, KeysFit, vars
  <2>. QED  BY <1>2, <2>0, <2>1, <2>2, <2>3, <2>4 DEF Next
<1>3. KInv => KeyTableSound
  OBVIOUS
<1>. QED  BY <1>1, <1>2, <1>3, PTL DEF Spec

(* A stored node is never modified: the copy-on-write discipline, for any  *)
(* number of application threads and collectors.                           *)
THEOREM NodesAreImmutable == Spec => CopyOnWrite
<1> DEFINE Agrees(p) ==
             /\ \A id \in DOMAIN db.nodes \cap DOMAIN view[p].nodes : view[p].nodes[id] = db.nodes[id]
             /\ p \in App => DOMAIN db.nodes \subseteq DOMAIN view[p].nodes
           CInv == /\ TypeOK
                   /\ \A p, q \in Proc : Writing(p) /\ Writing(q) => p = q
                   /\ \A p \in Proc : Writing(p) => Agrees(p)
<1>1. Init => CInv
  BY TypeInit DEF Init, Writing
<1>2. ASSUME CInv, [Next]_vars PROVE CInv'
  <2>0. TypeOK'
    <3>1. UNCHANGED vars => TypeOK'
      BY <1>2 DEF TypeOK, vars
    <3>. QED  BY <1>2, <3>1, TypeTxn, TypeApp, TypeCollector DEF Next
  <2>1. ASSUME NEW p \in Proc, TxnNext(p) PROVE CInv'
    <3>1. ASSUME NEW mode \in {"read", "write"}, Begin(p, mode) PROVE CInv'
      <4>1. /\ db' = db /\ view'[p] = db /\ txn'[p] = mode
            /\ \A q \in Proc \ {p} : view'[q] = view[q] /\ txn'[q] = txn[q]
            /\ mode = "write" => \A q \in Proc : ~Writing(q)
        BY <1>2, <3>1 DEF Begin, Writing, TypeOK
      <4>. QED  BY <1>2, <2>0, <4>1 DEF Writing
    <3>2. CASE Commit(p) \/ Abort(p) \/ Crash(p)
      <4>1. /\ db' = db \/ Writing(p)
            /\ txn'[p] = "none"
            /\ \A q \in Proc \ {p} : view'[q] = view[q] /\ txn'[q] = txn[q]
        BY <1>2, <3>2 DEF Commit, Abort, Crash, EndTxn, TypeOK, Writing
      <4>. QED  BY <1>2, <2>0, <4>1 DEF Writing
    <3>. QED  BY <2>1, <3>1, <3>2 DEF TxnNext
  <2>2. ASSUME NEW p \in App, AppNext(p) PROVE CInv'
    <3>1. UNCHANGED <<db, txn>>
      BY <1>2, <2>2, AppWrites
    <3>2. CASE WritesFresh(p)
      BY <1>2, <2>0, <3>1, <3>2, FreshWrite DEF Writing
    <3>3. CASE \A q \in Proc : view'[q].nodes = view[q].nodes
      BY <1>2, <2>0, <3>1, <3>3 DEF Writing
    <3>. QED  BY <1>2, <2>2, <3>2, <3>3, AppWrites
  <2>3. ASSUME NEW c \in Collector, CollectorNext(c) PROVE CInv'
    <3>1. UNCHANGED <<db, txn, view>> => CInv'
      BY <1>2, <2>0 DEF Writing
    <3>2. CASE DeleteNodes(c)
      <4>1. /\ view'[c].nodes = Del(view[c].nodes, gc[c].garbage)
            /\ \A q \in Proc \ {c} : view'[q] = view[q]
            /\ UNCHANGED <<db, txn>>
        BY <1>2, <3>2 DEF DeleteNodes, TypeOK
      <4>2. /\ DOMAIN view'[c].nodes \subseteq DOMAIN view[c].nodes
            /\ \A id \in DOMAIN view'[c].nodes : view'[c].nodes[id] = view[c].nodes[id]
        BY <4>1 DEF Del, Restrict
      <4>3. c \notin App
        OBVIOUS
      <4>. QED  BY <1>2, <2>0, <4>1, <4>2, <4>3 DEF Writing
    <3>. QED  BY <2>3, <3>1, <3>2 DEF CollectorNext, MarkAllHeads, MarkNode, Sweep
  <2>4. UNCHANGED vars => CInv'
    BY <1>2, <2>0 DEF Writing, vars
  <2>. QED  BY <1>2, <2>1, <2>2, <2>3, <2>4 DEF Next
<1>3. ASSUME CInv, [Next]_vars, NEW id \in DOMAIN db.nodes \cap DOMAIN db'.nodes
      PROVE  db'.nodes[id] = db.nodes[id]
  <2>1. db' = db \/ \E p \in Proc : Writing(p) /\ db' = view[p]
    <3>1. ASSUME NEW p \in App, AppNext(p) PROVE db' = db
      BY <1>3, <3>1, AppWrites
    <3>2. ASSUME NEW c \in Collector, CollectorNext(c) PROVE db' = db
      BY <3>2 DEF CollectorNext, MarkAllHeads, MarkNode, Sweep, DeleteNodes
    <3>3. ASSUME NEW p \in Proc, TxnNext(p) PROVE db' = db \/ (Writing(p) /\ db' = view[p])
      BY <3>3 DEF TxnNext, Begin, Commit, Abort, Crash, Writing
    <3>. QED  BY <1>3, <3>1, <3>2, <3>3 DEF Next, vars
  <2>. QED  BY <1>3, <2>1
<1>4. CInv /\ [Next]_vars =>
        [\A id \in DOMAIN db.nodes \cap DOMAIN db'.nodes : db'.nodes[id] = db.nodes[id]]_vars
  BY <1>3
<1>. QED  BY <1>1, <1>2, <1>4, PTL DEF Spec, CopyOnWrite
============================================================================

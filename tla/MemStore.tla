------------------------------ MODULE MemStore ------------------------------
(***************************************************************************)
(* A Quadrable object whose nodes are partly in LMDB and partly in a       *)
(* MemStore: a table in memory, with ids from FirstMem on.  The object     *)
(* owns the one that addMemStore makes; withMemStore lends it one of the   *)
(* program's for the time of a callback.                                   *)
(*                                                                         *)
(* The ids of every MemStore begin at FirstMem, so that an id alone does   *)
(* not say which node is meant.  Here a reference also carries the home of *)
(* the node that it was made for, which the code does not know and which   *)
(* decides nothing.                                                        *)
(*                                                                         *)
(* If Careful, the program that uses the object keeps some rules, each     *)
(* marked by Rule below.  All of it happens in one transaction, and what   *)
(* one set of updates writes is taken for one node.                        *)
(***************************************************************************)
EXTENDS Integers

CONSTANTS
  Store,      \* MemStores, each made once
  NoStore,    \* memStore is a null pointer
  Lmdb,       \* the home of the nodes in LMDB
  HeadName, DefaultHead,
  FirstMem,   \* firstMemStoreNodeId
  MaxLmdb,    \* bound: the highest id in LMDB
  MaxMem,     \* bound: the highest id in a MemStore
  Careful     \* TRUE: the program keeps the rules

ASSUME StoreAssumption == NoStore \notin Store /\ Lmdb \notin Store \cup {NoStore}
ASSUME HeadAssumption == DefaultHead \in HeadName
ASSUME IdAssumption ==
  /\ FirstMem \in Nat /\ MaxLmdb \in Nat /\ MaxMem \in Nat
  /\ MaxLmdb < FirstMem

Rule(kept) == Careful => kept

LmdbId == 1 .. MaxLmdb
MemId  == FirstMem .. MaxMem

Home     == Store \cup {Lmdb}
Ref      == [id : LmdbId \cup MemId, home : Home]
EmptyRef == [id |-> 0, home |-> Lmdb]

VARIABLES
  nodes,      \* per home the table of its nodes: of the references they have
  kind,       \* history: "none", "own", "lent" or "gone", per MemStore
  saved,      \* per MemStore its headNodeId
  heads,      \* the table of heads
  head, detached, detachedNode,    \* head, detachedHead, detachedHeadNodeId
  memStore, memStoreOwned, writeToMemStore,
  guarded     \* a MemStoreGuard exists: a callback of withMemStore is running

objVars   == <<head, detached, detachedNode>>
storeVars == <<memStore, memStoreOwned, guarded, kind, saved>>
vars == <<nodes, heads, objVars, storeVars, writeToMemStore>>

NoNodes == [id \in {} |-> {}]

---------------------------------------------------------------------------
(* Nodes                                                                   *)

Root == IF detached THEN detachedNode ELSE heads[head]

(* getNode: where an id is looked up, whatever it was made for; NoStore    *)
(* stands for the exception if there is no MemStore.                       *)
Place(ref) == IF ref.id >= FirstMem THEN memStore ELSE Lmdb

Found(ref)  == Place(ref) # NoStore /\ ref.id \in DOMAIN nodes[Place(ref)]
NodeOf(ref) == nodes[Place(ref)][ref.id]

(* What an update of the working tree can build on: the tree, or a part.   *)
Reusable == IF Root # EmptyRef /\ Found(Root) THEN {Root} \cup NodeOf(Root) ELSE {}

(* Mutant: the last id is handed out again.                                *)
IsLastId(id, home) ==
  LET first == IF home = Lmdb THEN 1 ELSE FirstMem
      used  == DOMAIN nodes[home] IN
  IF used = {} THEN id = first ELSE id \in used /\ \A i \in used : i <= id

IsNextId(id, home) ==
  LET first == IF home = Lmdb THEN 1 ELSE FirstMem
      used  == DOMAIN nodes[home] IN
  IF used = {} THEN id = first ELSE id - 1 \in used /\ \A i \in used : i < id

(* writeNodeToDb                                                           *)
Write(id, home, node) ==
  nodes' = [nodes EXCEPT ![home] = [i \in DOMAIN @ \cup {id} |-> IF i = id THEN node ELSE @[i]]]

---------------------------------------------------------------------------
(* Heads                                                                   *)

(* Mutant: setHeadNodeId takes any root.                                   *)
SetHeadToAny(ref) ==
  IF detached THEN detachedNode' = ref /\ UNCHANGED <<heads, head, detached>>
  ELSE heads' = [heads EXCEPT ![head] = ref] /\ UNCHANGED objVars

(* setHeadNodeId, which throws for the root of a MemStore tree.            *)
SetHead(ref) ==
  IF detached THEN detachedNode' = ref /\ UNCHANGED <<heads, head, detached>>
  ELSE /\ heads' = IF ref.id >= FirstMem THEN heads ELSE [heads EXCEPT ![head] = ref]
       /\ UNCHANGED objVars

(* apply(), while writeToMemStore is set and while it is not.              *)
Apply(id, home, node) ==
  /\ Root # EmptyRef => Found(Root)
  /\ node \subseteq Reusable
  /\ IsNextId(id, home)
  /\ Write(id, home, node)
  /\ SetHead([id |-> id, home |-> home])
  /\ UNCHANGED <<storeVars, writeToMemStore>>

ApplyToMemStore(id, node) == writeToMemStore /\ memStore # NoStore /\ Apply(id, memStore, node)

(* Rule: a tree that is in a MemStore is updated there.                    *)
ApplyToLmdb(id, node) ==
  /\ ~writeToMemStore
  /\ Rule(Root.home = Lmdb)
  /\ Apply(id, Lmdb, node)

SetWriteToMemStore(b) ==
  /\ writeToMemStore' = b
  /\ UNCHANGED <<nodes, heads, objVars, storeVars>>

Checkout(name) ==
  /\ head' = name /\ detached' = FALSE
  /\ UNCHANGED <<nodes, heads, detachedNode, storeVars, writeToMemStore>>

CheckoutNode(ref) ==
  /\ detached' = TRUE /\ detachedNode' = ref
  /\ UNCHANGED <<nodes, heads, head, storeVars, writeToMemStore>>

(* The program goes back to what it did in an earlier callback.  Rule:     *)
(* within one for the same MemStore.                                       *)
CheckoutSaved(s) == kind[s] = "lent" /\ Rule(memStore = s) /\ CheckoutNode(saved[s])

(* fork(): the head is checked out before setHeadNodeId may throw.         *)
Fork(name) ==
  /\ head' = name /\ detached' = FALSE
  /\ heads' = IF Root.id >= FirstMem THEN heads ELSE [heads EXCEPT ![name] = Root]
  /\ UNCHANGED <<nodes, detachedNode, storeVars, writeToMemStore>>

ForkDetached == CheckoutNode(Root)

---------------------------------------------------------------------------
(* MemStores                                                               *)

(* addMemStore.  Rules: there is none yet, and the working head is not in  *)
(* one that is gone.                                                       *)
AddMemStore(s) ==
  /\ kind[s] = "none"
  /\ Rule(memStore = NoStore /\ ~guarded)
  /\ Rule(detached => detachedNode.home = Lmdb)
  /\ memStore' = s /\ memStoreOwned' = TRUE
  /\ kind' = [kind EXCEPT ![s] = "own"]
  /\ UNCHANGED <<nodes, heads, objVars, guarded, saved, writeToMemStore>>

(* Mutant: memStoreOwned stays set.                                        *)
RemoveMemStoreStillOwned ==
  /\ memStoreOwned
  /\ kind' = [s \in Store |-> IF s = memStore THEN "gone" ELSE kind[s]]
  /\ nodes' = [home \in Home |-> IF home = memStore THEN NoNodes ELSE nodes[home]]
  /\ memStore' = NoStore
  /\ UNCHANGED <<heads, objVars, memStoreOwned, guarded, saved, writeToMemStore>>

(* removeMemStore.  What a detached head still refers to cannot be loaded. *)
RemoveMemStore ==
  /\ memStoreOwned
  /\ kind' = [s \in Store |-> IF s = memStore THEN "gone" ELSE kind[s]]
  /\ nodes' = [home \in Home |-> IF home = memStore THEN NoNodes ELSE nodes[home]]
  /\ memStore' = NoStore /\ memStoreOwned' = FALSE
  /\ UNCHANGED <<heads, objVars, guarded, saved, writeToMemStore>>

(* withMemStore, and the MemStoreGuard.  Rule: the working head is not in  *)
(* another one.  One guard at a time.                                      *)
EnterCallback(s) ==
  /\ kind[s] \in {"none", "lent"}
  /\ memStore = NoStore /\ ~guarded
  /\ Rule(detached => detachedNode.home \in {Lmdb, s})
  /\ memStore' = s /\ guarded' = TRUE
  /\ kind' = [kind EXCEPT ![s] = "lent"]
  /\ UNCHANGED <<nodes, heads, objVars, memStoreOwned, saved, writeToMemStore>>

(* The guard saves detachedHeadNodeId.  Rule: the head is a detached one.  *)
(* Without a MemStore the behaviour is undefined.                          *)
LeaveCallback ==
  /\ guarded /\ memStore # NoStore
  /\ Rule(detached)
  /\ saved' = [saved EXCEPT ![memStore] = detachedNode]
  /\ memStore' = NoStore /\ guarded' = FALSE
  /\ UNCHANGED <<nodes, heads, objVars, memStoreOwned, kind, writeToMemStore>>

---------------------------------------------------------------------------
Init ==
  /\ nodes = [home \in Home |-> NoNodes]
  /\ kind = [s \in Store |-> "none"]
  /\ saved = [s \in Store |-> EmptyRef]
  /\ heads = [name \in HeadName |-> EmptyRef]
  /\ head = DefaultHead /\ detached = FALSE /\ detachedNode = EmptyRef
  /\ memStore = NoStore /\ memStoreOwned = FALSE /\ writeToMemStore = FALSE
  /\ guarded = FALSE

Next ==
  \/ \E id \in MemId, node \in SUBSET Reusable : ApplyToMemStore(id, node)
  \/ \E id \in LmdbId, node \in SUBSET Reusable : ApplyToLmdb(id, node)
  \/ \E b \in BOOLEAN : SetWriteToMemStore(b)
  \/ \E name \in HeadName : Checkout(name) \/ Fork(name)
  \/ CheckoutNode(EmptyRef)
  \/ ForkDetached
  \/ \E s \in Store : CheckoutSaved(s) \/ AddMemStore(s) \/ EnterCallback(s)
  \/ RemoveMemStore
  \/ LeaveCallback

Spec == Init /\ [][Next]_vars

---------------------------------------------------------------------------
(* Properties                                                              *)

(* Every variable has its type: a home has nodes of its own range of ids.  *)
TypeOK ==
  /\ nodes = [home \in Home |-> nodes[home]]
  /\ \A home \in Home :
       /\ DOMAIN nodes[home] \subseteq IF home = Lmdb THEN LmdbId ELSE MemId
       /\ nodes[home] \in [DOMAIN nodes[home] -> SUBSET Ref]
  /\ kind \in [Store -> {"none", "own", "lent", "gone"}]
  /\ saved \in [Store -> Ref \cup {EmptyRef}]
  /\ heads \in [HeadName -> Ref \cup {EmptyRef}]
  /\ head \in HeadName /\ detached \in BOOLEAN /\ detachedNode \in Ref \cup {EmptyRef}
  /\ memStore \in Store \cup {NoStore}
  /\ {memStoreOwned, writeToMemStore, guarded} \subseteq BOOLEAN

(* README, "MemStore": "while MemStore nodes can refer to nodes in LMDB,   *)
(* the opposite is not true": no head in the table and no node in LMDB     *)
(* refers to a node that ends with the process.                            *)
LmdbStandsAlone ==
  /\ \A name \in HeadName : heads[name].home = Lmdb
  /\ \A id \in DOMAIN nodes[Lmdb] : \A ref \in nodes[Lmdb][id] : ref.home = Lmdb

(* A node refers to older nodes of its own MemStore or to nodes in LMDB,   *)
(* that are still there; so does the headNodeId that a guard has saved,    *)
(* and the working head while a MemStore is installed.                     *)
LeadsTo(ref, homes) == ref = EmptyRef \/ (ref.home \in homes /\ ref.id \in DOMAIN nodes[ref.home])

TreesAreWhole ==
  /\ \A home \in Home : \A id \in DOMAIN nodes[home] : \A ref \in nodes[home][id] :
       /\ LeadsTo(ref, {Lmdb, home})
       /\ ref.home = home => ref.id < id
  /\ \A s \in Store : LeadsTo(saved[s], {Lmdb, s})
  /\ memStore # NoStore /\ detached => LeadsTo(detachedNode, {Lmdb, memStore})

(* removeMemStore deletes no MemStore that belongs to the program, nor one *)
(* that it has deleted before.                                             *)
DeletesOnlyItsOwn == memStoreOwned /\ memStore # NoStore => kind[memStore] = "own"
=============================================================================

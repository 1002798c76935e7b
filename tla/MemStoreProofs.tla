--------------------------- MODULE MemStoreProofs ---------------------------
(***************************************************************************)
(* What MemStore promises a careful program, proved for any number of      *)
(* MemStores, heads and nodes.                                             *)
(***************************************************************************)
EXTENDS MemStore, TLAPS

(* A reference has an id of the range that its home has.                   *)
Fits(ref) == ref.home = Lmdb <=> ref.id < FirstMem

RefsFit ==
  /\ \A home \in Home : \A id \in DOMAIN nodes[home] : \A ref \in nodes[home][id] : Fits(ref)
  /\ \A s \in Store : Fits(saved[s])
  /\ \A name \in HeadName : Fits(heads[name])
  /\ Fits(detachedNode)

(* Which MemStore may be installed, which may be owned, and which has been *)
(* in a callback.                                                          *)
KindsFit ==
  /\ memStore # NoStore => kind[memStore] \in {"own", "lent"}
  /\ memStoreOwned => memStore # NoStore
  /\ guarded => memStore # NoStore /\ kind[memStore] = "lent"
  /\ \A s \in Store : kind[s] # "lent" => saved[s] = EmptyRef

(* A named head leads to a node, and a detached one does unless its        *)
(* MemStore has been deleted.                                              *)
HeadsLead ==
  /\ \A name \in HeadName : LeadsTo(heads[name], {Lmdb})
  /\ detached =>
       \/ LeadsTo(detachedNode, Home)
       \/ detachedNode.home \in Store /\ kind[detachedNode.home] = "gone"

IInv ==
  /\ TypeOK
  /\ RefsFit
  /\ KindsFit
  /\ HeadsLead
  /\ LmdbStandsAlone
  /\ TreesAreWhole
  /\ DeletesOnlyItsOwn

USE StoreAssumption, HeadAssumption, IdAssumption

---------------------------------------------------------------------------
(* Nothing is wrong before anything has been written.                      *)
LEMMA InvInit == Init => IInv
<1>1. EmptyRef \notin Ref /\ Fits(EmptyRef) /\ \A homes : LeadsTo(EmptyRef, homes)
  BY DEF EmptyRef, Ref, LmdbId, MemId, Fits, LeadsTo
<1>2. Init => TypeOK
  <2>1. Init => /\ nodes = [home \in Home |-> nodes[home]]
                /\ \A home \in Home : DOMAIN nodes[home] = {} /\ nodes[home] \in [DOMAIN nodes[home] -> SUBSET Ref]
    BY DEF Init, NoNodes
  <2>2. Init => /\ kind \in [Store -> {"none", "own", "lent", "gone"}]
                /\ saved \in [Store -> Ref \cup {EmptyRef}]
                /\ heads \in [HeadName -> Ref \cup {EmptyRef}]
    BY DEF Init
  <2>3. Init => /\ head \in HeadName /\ detached \in BOOLEAN /\ detachedNode \in Ref \cup {EmptyRef}
                /\ memStore \in Store \cup {NoStore}
                /\ {memStoreOwned, writeToMemStore, guarded} \subseteq BOOLEAN
    BY DEF Init
  <2> QED  BY <2>1, <2>2, <2>3 DEF TypeOK
<1>3. Init => RefsFit /\ KindsFit /\ HeadsLead
  BY <1>1 DEF Init, RefsFit, KindsFit, HeadsLead, NoNodes
<1>4. Init => LmdbStandsAlone /\ TreesAreWhole /\ DeletesOnlyItsOwn
  BY <1>1 DEF Init, LmdbStandsAlone, TreesAreWhole, DeletesOnlyItsOwn, NoNodes, Home, EmptyRef
<1> QED  BY <1>2, <1>3, <1>4 DEF IInv

(* What can be built on fits, is there, and has the home of the tree it is *)
(* in, or LMDB.                                                            *)
LEMMA ReusableLeads ==
  ASSUME IInv, NEW home \in Home, Root.home \in {Lmdb, home}, home \in {Lmdb, memStore},
         Root # EmptyRef => Found(Root), NEW ref \in Reusable
  PROVE  /\ ref \in Ref /\ Fits(ref)
         /\ ref.home \in {Lmdb, home}
         /\ ref.id \in DOMAIN nodes[ref.home]
<1>1. Root # EmptyRef /\ Found(Root)
  BY DEF Reusable
<1>2. Root \in Ref /\ Fits(Root)
  BY <1>1 DEF IInv, TypeOK, RefsFit, Root
<1>3. Place(Root) = Root.home
  <2>1. CASE Root.home = Lmdb
    BY <1>2, <2>1 DEF Place, Fits, Ref, LmdbId, MemId
  <2>2. CASE Root.home # Lmdb
    BY <1>2, <2>2 DEF Place, Fits, Ref, LmdbId, MemId
  <2> QED  BY <2>1, <2>2
<1>4. Root.home \in Home /\ Root.id \in DOMAIN nodes[Root.home]
  BY <1>1, <1>2, <1>3 DEF Found, Ref
<1>5. CASE ref = Root
  BY <1>2, <1>4, <1>5
<1>6. CASE ref \in nodes[Root.home][Root.id]
  <2>1. ref \in Ref /\ Fits(ref)
    BY <1>4, <1>6 DEF IInv, TypeOK, RefsFit
  <2>2. LeadsTo(ref, {Lmdb, Root.home})
    BY <1>4, <1>6 DEF IInv, TreesAreWhole
  <2>3. ref # EmptyRef
    BY <2>1 DEF EmptyRef, Ref, LmdbId, MemId
  <2> QED  BY <2>1, <2>2, <2>3 DEF LeadsTo
<1> QED  BY <1>1, <1>3, <1>5, <1>6 DEF Reusable, NodeOf

(* A node that is built on what can be built on keeps the invariant, if it *)
(* is in LMDB or in the MemStore that is there, and if the working tree is *)
(* in the same place or in LMDB.                                           *)
LEMMA ApplyKeeps ==
  ASSUME IInv, NEW home \in Home, home \in {Lmdb, memStore}, Root.home \in {Lmdb, home},
         NEW id \in IF home = Lmdb THEN LmdbId ELSE MemId,
         NEW node, Apply(id, home, node)
  PROVE  IInv'
<1> DEFINE new == [id |-> id, home |-> home]
<1>1. \A ref \in node : /\ ref \in Ref /\ Fits(ref) /\ ref.home \in {Lmdb, home}
                        /\ ref.id \in DOMAIN nodes[ref.home]
  BY ReusableLeads DEF Apply
<1>2. /\ nodes' = [h \in Home |-> IF h = home THEN nodes'[home] ELSE nodes[h]]
      /\ nodes'[home] = [i \in DOMAIN nodes[home] \cup {id} |-> IF i = id THEN node ELSE nodes[home][i]]
  BY DEF Apply, Write, IInv, TypeOK
<1>3. id \notin DOMAIN nodes[home] /\ \A i \in DOMAIN nodes[home] : i < id
  BY DEF Apply, IsNextId, IInv, TypeOK, LmdbId, MemId
<1>4. /\ new \in Ref /\ Fits(new) /\ new # EmptyRef
      /\ home # Lmdb <=> id >= FirstMem
  BY DEF Ref, Fits, LmdbId, MemId, EmptyRef, Home
<1>5. \A h \in Home : DOMAIN nodes[h] \subseteq DOMAIN nodes'[h]
  BY <1>2
<1>6. ASSUME NEW ref, NEW homes \in SUBSET Home, LeadsTo(ref, homes)
      PROVE  ref = EmptyRef \/ (ref.home \in homes /\ ref.id \in DOMAIN nodes'[ref.home])
  BY <1>5, <1>6 DEF LeadsTo
<1>7. id \in DOMAIN nodes'[home]
  BY <1>2
<1>8. UNCHANGED <<memStore, memStoreOwned, guarded, kind, saved, writeToMemStore>>
  BY DEF Apply, storeVars
<1>9. /\ head' = head /\ detached' = detached
      /\ detached => detachedNode' = new /\ heads' = heads
      /\ ~detached => /\ detachedNode' = detachedNode
                      /\ heads' = heads \/ (home = Lmdb /\ heads' = [heads EXCEPT ![head] = new])
  BY <1>4 DEF Apply, SetHead, objVars
<1>10. TypeOK'
  <2>1. nodes' = [h \in Home |-> nodes'[h]]
    BY <1>2
  <2>2. ASSUME NEW h \in Home
        PROVE  /\ DOMAIN nodes'[h] \subseteq IF h = Lmdb THEN LmdbId ELSE MemId
               /\ nodes'[h] \in [DOMAIN nodes'[h] -> SUBSET Ref]
    <3>1. CASE h = home
      <4>1. node \in SUBSET Ref
        BY <1>1
      <4>2. /\ DOMAIN nodes[home] \subseteq IF home = Lmdb THEN LmdbId ELSE MemId
            /\ nodes[home] \in [DOMAIN nodes[home] -> SUBSET Ref]
        BY DEF IInv, TypeOK
      <4>3. DOMAIN nodes'[home] = DOMAIN nodes[home] \cup {id}
        BY <1>2
      <4>4. nodes'[home] \in [DOMAIN nodes'[home] -> SUBSET Ref]
        BY <1>2, <4>1, <4>2
      <4> QED  BY <3>1, <4>2, <4>3, <4>4
    <3>2. CASE h # home
      BY <1>2, <3>2 DEF IInv, TypeOK
    <3> QED  BY <3>1, <3>2
  <2> QED  BY <1>4, <1>8, <1>9, <2>1, <2>2 DEF IInv, TypeOK
<1>11. ASSUME NEW h \in Home, NEW i \in DOMAIN nodes'[h], NEW ref \in nodes'[h][i]
       PROVE  /\ Fits(ref)
              /\ ref = EmptyRef \/ (ref.home \in {Lmdb, h} /\ ref.id \in DOMAIN nodes'[ref.home])
              /\ ref.home = h => ref.id < i
              /\ h = Lmdb => ref.home = Lmdb
  <2>1. CASE h = home /\ i = id
    <3>1. ref \in node
      BY <1>2, <2>1
    <3>2. ref \in Ref /\ Fits(ref) /\ ref.home \in {Lmdb, home} /\ ref.id \in DOMAIN nodes[ref.home]
      BY <1>1, <3>1
    <3>3. Lmdb \in Home
      BY DEF Home
    <3> QED  BY <1>3, <1>5, <2>1, <3>2, <3>3
  <2>2. CASE ~(h = home /\ i = id)
    <3>1. i \in DOMAIN nodes[h] /\ ref \in nodes[h][i]
      BY <1>2, <2>2
    <3>2. LeadsTo(ref, {Lmdb, h})
      BY <3>1 DEF IInv, TreesAreWhole
    <3>3. {Lmdb, h} \in SUBSET Home
      BY DEF Home
    <3> QED  BY <1>6, <3>1, <3>2, <3>3 DEF IInv, RefsFit, TreesAreWhole, LmdbStandsAlone, Home
  <2> QED  BY <2>1, <2>2
<1>12. RefsFit'
  BY <1>4, <1>8, <1>9, <1>11 DEF IInv, RefsFit, TypeOK
<1>13. KindsFit' /\ DeletesOnlyItsOwn'
  BY <1>8 DEF IInv, KindsFit, DeletesOnlyItsOwn
<1>14. HeadsLead'
  <2>1. ASSUME NEW name \in HeadName
        PROVE  LeadsTo(heads[name], {Lmdb})'
    <3>1. CASE heads'[name] = heads[name]
      <4>1. LeadsTo(heads[name], {Lmdb})
        BY DEF IInv, HeadsLead
      <4> QED  BY <1>5, <3>1, <4>1 DEF LeadsTo, Home
    <3>2. CASE heads'[name] # heads[name]
      <4>1. home = Lmdb /\ heads'[name] = new
        BY <1>9, <3>2 DEF IInv, TypeOK
      <4> QED  BY <1>7, <4>1 DEF LeadsTo
    <3> QED  BY <3>1, <3>2
  <2>2. detached' => LeadsTo(detachedNode, Home)'
    BY <1>7, <1>9 DEF LeadsTo
  <2> QED  BY <2>1, <2>2 DEF HeadsLead
<1>15. LmdbStandsAlone'
  <2>1. ASSUME NEW name \in HeadName
        PROVE  heads'[name].home = Lmdb
    BY <1>9 DEF IInv, LmdbStandsAlone, TypeOK
  <2>2. Lmdb \in Home
    BY DEF Home
  <2> QED  BY <1>11, <2>1, <2>2 DEF LmdbStandsAlone
<1>16. TreesAreWhole'
  <2>1. ASSUME NEW s \in Store
        PROVE  LeadsTo(saved[s], {Lmdb, s})'
    <3>1. LeadsTo(saved[s], {Lmdb, s})
      BY DEF IInv, TreesAreWhole
    <3> QED  BY <1>5, <1>8, <3>1 DEF LeadsTo, Home
  <2>2. memStore' # NoStore /\ detached' => LeadsTo(detachedNode, {Lmdb, memStore})'
    BY <1>7, <1>8, <1>9 DEF LeadsTo
  <2>3. ASSUME NEW h \in Home, NEW i \in DOMAIN nodes'[h], NEW ref \in nodes'[h][i]
        PROVE  LeadsTo(ref, {Lmdb, h})' /\ (ref.home = h => ref.id < i)
    BY <1>11 DEF LeadsTo
  <2> QED  BY <2>1, <2>2, <2>3 DEF TreesAreWhole
<1> QED  BY <1>10, <1>12, <1>13, <1>14, <1>15, <1>16 DEF IInv

(* The steps that write no node: what they leave alone keeps its part of   *)
(* the invariant, and the rest follows action by action.                   *)
LEMMA KeptByHeads ==
  ASSUME IInv, UNCHANGED <<nodes, heads, kind, saved, memStore, memStoreOwned, guarded>>,
         head' \in HeadName, {detached', writeToMemStore'} \subseteq BOOLEAN,
         detachedNode' \in Ref \cup {EmptyRef}, Fits(detachedNode)',
         detached' => /\ LeadsTo(detachedNode', Home) \/ (detachedNode'.home \in Store /\ kind[detachedNode'.home] = "gone")
                      /\ memStore # NoStore => LeadsTo(detachedNode', {Lmdb, memStore})
  PROVE  IInv'
<1>1. TypeOK' /\ RefsFit' /\ KindsFit' /\ LmdbStandsAlone' /\ DeletesOnlyItsOwn'
  BY DEF IInv, TypeOK, RefsFit, Fits, KindsFit, LmdbStandsAlone, DeletesOnlyItsOwn
<1>2. HeadsLead'
  BY DEF IInv, HeadsLead, LeadsTo
<1>3. TreesAreWhole'
  BY DEF IInv, TreesAreWhole, LeadsTo
<1> QED  BY <1>1, <1>2, <1>3 DEF IInv

(* Where the working tree is.                                              *)
LEMMA RootLeads ==
  ASSUME IInv
  PROVE  /\ Root \in Ref \cup {EmptyRef} /\ Fits(Root)
         /\ LeadsTo(Root, Home) \/ (Root.home \in Store /\ kind[Root.home] = "gone")
         /\ memStore # NoStore => LeadsTo(Root, {Lmdb, memStore})
         /\ Root.home = Lmdb => LeadsTo(Root, {Lmdb})
<1>1. CASE detached
  BY <1>1 DEF IInv, TypeOK, RefsFit, HeadsLead, TreesAreWhole, Root, LeadsTo
<1>2. CASE ~detached
  <2>1. LeadsTo(heads[head], {Lmdb})
    BY DEF IInv, HeadsLead, TypeOK
  <2> QED  BY <1>2, <2>1 DEF IInv, TypeOK, RefsFit, Root, LeadsTo, Home
<1> QED  BY <1>1, <1>2

(* A careful step keeps all of the invariant.                              *)
LEMMA InvNext == Careful /\ IInv /\ [Next]_vars => IInv'
<1> SUFFICES ASSUME Careful, IInv, [Next]_vars  PROVE IInv'
  OBVIOUS
<1>1. ASSUME NEW id \in MemId, NEW node, ApplyToMemStore(id, node)
      PROVE  IInv'
  <2>1. memStore \in Store /\ memStore \in Home /\ memStore # Lmdb
    BY <1>1 DEF ApplyToMemStore, IInv, TypeOK, Home
  <2>2. Root.home \in {Lmdb, memStore}
    BY <2>1, RootLeads DEF LeadsTo, EmptyRef
  <2>3. Apply(id, memStore, node)
    BY <1>1 DEF ApplyToMemStore
  <2> QED  BY <2>1, <2>2, <2>3, ApplyKeeps
<1>2. ASSUME NEW id \in LmdbId, NEW node, ApplyToLmdb(id, node)
      PROVE  IInv'
  <2>1. Root.home = Lmdb /\ Lmdb \in Home /\ Apply(id, Lmdb, node)
    BY <1>2 DEF ApplyToLmdb, Rule, Home
  <2> QED  BY <2>1, ApplyKeeps
<1>3. ASSUME NEW b \in BOOLEAN, SetWriteToMemStore(b)
      PROVE  IInv'
  BY <1>3, KeptByHeads DEF SetWriteToMemStore, objVars, storeVars, IInv, TypeOK, RefsFit, HeadsLead, TreesAreWhole
<1>4. ASSUME NEW name \in HeadName, Checkout(name)
      PROVE  IInv'
  BY <1>4, KeptByHeads DEF Checkout, storeVars, IInv, TypeOK, RefsFit
<1>5. ASSUME NEW ref \in Ref \cup {EmptyRef}, CheckoutNode(ref), Fits(ref),
             LeadsTo(ref, Home) \/ (ref.home \in Store /\ kind[ref.home] = "gone"),
             memStore # NoStore => LeadsTo(ref, {Lmdb, memStore})
      PROVE  IInv'
  BY <1>5, KeptByHeads DEF CheckoutNode, storeVars, IInv, TypeOK
<1>6. CASE CheckoutNode(EmptyRef)
  BY <1>5, <1>6 DEF Fits, LeadsTo, EmptyRef
<1>7. CASE ForkDetached
  BY <1>5, <1>7, RootLeads DEF ForkDetached
<1>8. ASSUME NEW s \in Store, CheckoutSaved(s)
      PROVE  IInv'
  <2>1. LeadsTo(saved[s], {Lmdb, s}) /\ saved[s] \in Ref \cup {EmptyRef} /\ Fits(saved[s])
    BY DEF IInv, TypeOK, RefsFit, TreesAreWhole
  <2>2. LeadsTo(saved[s], Home)
    BY <2>1 DEF LeadsTo, Home
  <2> QED  BY <1>5, <1>8, <2>1, <2>2 DEF CheckoutSaved, Rule
<1>9. ASSUME NEW name \in HeadName, Fork(name)
      PROVE  IInv'
  <2>1. Root.id < FirstMem => Root.home = Lmdb /\ LeadsTo(Root, {Lmdb}) /\ Root \in Ref \cup {EmptyRef}
    BY RootLeads DEF Fits
  <2>2. Root.id >= FirstMem <=> ~(Root.id < FirstMem)
    BY RootLeads DEF Ref, EmptyRef, LmdbId, MemId
  <2>3. \A n \in HeadName : heads'[n] = heads[n] \/ (heads'[n] = Root /\ Root.id < FirstMem)
    BY <1>9, <2>2 DEF Fork, IInv, TypeOK
  <2>4. TypeOK'
    BY <1>9, <2>1, <2>2 DEF Fork, storeVars, IInv, TypeOK
  <2>5. RefsFit' /\ LmdbStandsAlone'
    BY <1>9, <2>1, <2>3, RootLeads DEF Fork, storeVars, IInv, RefsFit, LmdbStandsAlone, Fits
  <2>6. HeadsLead'
    BY <1>9, <2>1, <2>3 DEF Fork, IInv, HeadsLead, LeadsTo
  <2>7. KindsFit' /\ TreesAreWhole' /\ DeletesOnlyItsOwn'
    BY <1>9 DEF Fork, storeVars, IInv, KindsFit, TreesAreWhole, LeadsTo, DeletesOnlyItsOwn
  <2> QED  BY <2>4, <2>5, <2>6, <2>7 DEF IInv
<1>10. ASSUME NEW s \in Store, AddMemStore(s) \/ EnterCallback(s)
       PROVE  IInv'
  <2>1. /\ memStore = NoStore /\ guarded = FALSE /\ memStoreOwned = FALSE
        /\ memStore' = s /\ s # NoStore
        /\ detached => detachedNode.home \in {Lmdb, s}
        /\ UNCHANGED <<nodes, heads, head, detached, detachedNode, saved, writeToMemStore>>
    <3>1. memStore = NoStore /\ ~guarded
      BY <1>10 DEF AddMemStore, EnterCallback, Rule
    <3>2. {memStoreOwned, guarded} \subseteq BOOLEAN /\ ~memStoreOwned
      BY <3>1 DEF IInv, TypeOK, KindsFit
    <3> QED  BY <1>10, <3>1, <3>2 DEF AddMemStore, EnterCallback, Rule, objVars
  <2>2. \/ /\ kind[s] = "none" /\ kind' = [kind EXCEPT ![s] = "own"]
           /\ memStoreOwned' = TRUE /\ guarded' = FALSE
        \/ /\ kind[s] \in {"none", "lent"} /\ kind' = [kind EXCEPT ![s] = "lent"]
           /\ memStoreOwned' = FALSE /\ guarded' = TRUE
    BY <1>10, <2>1 DEF AddMemStore, EnterCallback
  <2>3. TypeOK'
    BY <2>1, <2>2 DEF IInv, TypeOK
  <2>4. RefsFit' /\ LmdbStandsAlone'
    BY <2>1 DEF IInv, RefsFit, Fits, LmdbStandsAlone
  <2>5. KindsFit' /\ DeletesOnlyItsOwn'
    BY <2>1, <2>2 DEF IInv, TypeOK, KindsFit, DeletesOnlyItsOwn
  <2>6. detached => LeadsTo(detachedNode, {Lmdb, s})
    BY <2>1, <2>2 DEF IInv, HeadsLead, LeadsTo, Home
  <2>7. HeadsLead'
    BY <2>1, <2>2 DEF IInv, TypeOK, HeadsLead, LeadsTo, Home
  <2>8. TreesAreWhole'
    BY <2>1, <2>6 DEF IInv, TreesAreWhole, LeadsTo
  <2> QED  BY <2>3, <2>4, <2>5, <2>7, <2>8 DEF IInv
<1>11. CASE RemoveMemStore
  <2>1. /\ memStore \in Store /\ kind[memStore] = "own" /\ ~guarded
        /\ saved[memStore] = EmptyRef
    BY <1>11 DEF RemoveMemStore, IInv, TypeOK, KindsFit, DeletesOnlyItsOwn
  <2>2. /\ nodes' = [home \in Home |-> IF home = memStore THEN NoNodes ELSE nodes[home]]
        /\ kind' = [s \in Store |-> IF s = memStore THEN "gone" ELSE kind[s]]
        /\ memStore' = NoStore /\ memStoreOwned' = FALSE
        /\ UNCHANGED <<heads, head, detached, detachedNode, guarded, saved, writeToMemStore>>
    BY <1>11 DEF RemoveMemStore, objVars
  <2>3. /\ \A home \in Home : home # memStore => nodes'[home] = nodes[home]
        /\ DOMAIN nodes'[memStore] = {} /\ nodes'[memStore] \in [{} -> SUBSET Ref]
    BY <2>1, <2>2 DEF NoNodes, Home
  <2>4. TypeOK'
    BY <2>1, <2>2, <2>3 DEF IInv, TypeOK
  <2>5. RefsFit' /\ KindsFit' /\ DeletesOnlyItsOwn'
    BY <2>1, <2>2, <2>3 DEF IInv, RefsFit, Fits, KindsFit, DeletesOnlyItsOwn
  <2>6. LmdbStandsAlone'
    BY <2>1, <2>2, <2>3 DEF IInv, LmdbStandsAlone, Home
  <2>7. HeadsLead'
    BY <2>1, <2>2, <2>3 DEF IInv, HeadsLead, LeadsTo, Home
  <2>8. TreesAreWhole'
    BY <2>1, <2>2, <2>3 DEF IInv, TreesAreWhole, LeadsTo, Home
  <2> QED  BY <2>4, <2>5, <2>6, <2>7, <2>8 DEF IInv
<1>12. CASE LeaveCallback
  <2>1. /\ memStore \in Store /\ kind[memStore] = "lent" /\ ~memStoreOwned /\ detached
        /\ LeadsTo(detachedNode, {Lmdb, memStore})
    BY <1>12 DEF LeaveCallback, Rule, IInv, TypeOK, KindsFit, DeletesOnlyItsOwn, TreesAreWhole
  <2>2. /\ saved' = [saved EXCEPT ![memStore] = detachedNode]
        /\ memStore' = NoStore /\ guarded' = FALSE
        /\ UNCHANGED <<nodes, heads, head, detached, detachedNode, memStoreOwned, kind, writeToMemStore>>
    BY <1>12 DEF LeaveCallback, objVars
  <2>3. TypeOK' /\ RefsFit' /\ KindsFit' /\ LmdbStandsAlone' /\ DeletesOnlyItsOwn'
    BY <2>1, <2>2 DEF IInv, TypeOK, RefsFit, Fits, KindsFit, LmdbStandsAlone, DeletesOnlyItsOwn
  <2>4. HeadsLead'
    BY <2>2 DEF IInv, HeadsLead, LeadsTo
  <2>5. \A s \in Store : LeadsTo(saved[s], {Lmdb, s})'
    <3>1. ASSUME NEW s \in Store
          PROVE  LeadsTo(saved[s], {Lmdb, s})'
      <4>1. LeadsTo(saved[s], {Lmdb, s})
        BY DEF IInv, TreesAreWhole
      <4>2. saved'[s] = IF s = memStore THEN detachedNode ELSE saved[s]
        BY <2>2 DEF IInv, TypeOK
      <4> QED  BY <2>1, <2>2, <4>1, <4>2 DEF LeadsTo
    <3> QED  BY <3>1
  <2>6. TreesAreWhole'
    <3>1. \A home \in Home : \A id \in DOMAIN nodes[home] : \A ref \in nodes[home][id] :
            LeadsTo(ref, {Lmdb, home}) /\ (ref.home = home => ref.id < id)
      BY DEF IInv, TreesAreWhole
    <3>2. (\A home \in Home : \A id \in DOMAIN nodes[home] : \A ref \in nodes[home][id] :
            LeadsTo(ref, {Lmdb, home}) /\ (ref.home = home => ref.id < id))'
      BY <2>2, <3>1 DEF LeadsTo
    <3> QED  BY <2>2, <2>5, <3>2 DEF TreesAreWhole
  <2> QED  BY <2>3, <2>4, <2>6 DEF IInv
<1>13. CASE UNCHANGED vars
  <2>1. UNCHANGED <<nodes, kind, saved, heads, head, detached, detachedNode, memStore, memStoreOwned,
                    writeToMemStore, guarded>>
    BY <1>13 DEF vars, objVars, storeVars
  <2> QED  BY <2>1 DEF IInv, TypeOK, RefsFit, Fits, KindsFit, HeadsLead, LmdbStandsAlone, TreesAreWhole,
                      LeadsTo, DeletesOnlyItsOwn
<1> QED
  BY <1>1, <1>2, <1>3, <1>4, <1>6, <1>7, <1>8, <1>9, <1>10, <1>11, <1>12, <1>13 DEF Next

(* It holds at all times.                                                  *)
LEMMA Invariant == Careful => (Spec => []IInv)
<1> SUFFICES ASSUME Careful PROVE Spec => []IInv
  OBVIOUS
<1>1. IInv /\ [Next]_vars => IInv'
  BY InvNext
<1> QED  BY InvInit, <1>1, PTL DEF Spec

---------------------------------------------------------------------------
(* Every variable has its type, for a careful program: MemStore.h and      *)
(* heads.h hand out no id outside the range of the home it is for.         *)
THEOREM TypeCorrect == Careful => (Spec => []TypeOK)
<1>1. IInv => TypeOK
  BY DEF IInv
<1> QED  BY Invariant, <1>1, PTL

(* As long as a tree in a MemStore is updated there, no head in the table  *)
(* and no node in LMDB refers to a node that ends with the process: the    *)
(* check of the root's id in heads.h is then enough.                       *)
THEOREM LmdbNeedsNoMemStore == Careful => (Spec => []LmdbStandsAlone)
<1>1. IInv => LmdbStandsAlone
  BY DEF IInv
<1> QED  BY Invariant, <1>1, PTL

(* For a program that keeps to the rules, a tree loses no node: not when a *)
(* MemStore is lent and taken back, nor when one is deleted under a        *)
(* detached head.                                                          *)
THEOREM NoTreeLosesNodes == Careful => (Spec => []TreesAreWhole)
<1>1. IInv => TreesAreWhole
  BY DEF IInv
<1> QED  BY Invariant, <1>1, PTL

(* A careful program never has its own MemStore deleted by removeMemStore. *)
THEOREM OnlyItsOwnIsDeleted == Careful => (Spec => []DeletesOnlyItsOwn)
<1>1. IInv => DeletesOnlyItsOwn
  BY DEF IInv
<1> QED  BY Invariant, <1>1, PTL
=============================================================================

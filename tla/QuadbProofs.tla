---------------------------- MODULE QuadbProofs ----------------------------
(***************************************************************************)
(* What holds of a database after any number of commands of quadb and of   *)
(* programs beside it, with keys of any length: there is a tree under each *)
(* head, its root hash is the canonical one, lookups in it are answered    *)
(* right, and the whole is a versioned map.                                *)
(***************************************************************************)
EXTENDS Quadb, TreeProofs

(* A path along the bits of a key.                                         *)
IsWay(table, p, key) == \A i \in 1 .. Len(p) - 1 : p[i + 1] = Toward(table, p[i], key, i - 1)

(* Two of them do not part.                                                *)
LEMMA WaysAgree ==
  ASSUME NEW table, NEW root, NEW p \in Paths(table, root), NEW q \in Paths(table, root),
         NEW key, IsWay(table, p, key), IsWay(table, q, key),
         NEW i \in Nat, i \in 1 .. Len(p), i \in 1 .. Len(q)
  PROVE  p[i] = q[i]
<1> DEFINE T == {n \in Nat : n + 1 <= Len(p) /\ n + 1 <= Len(q) => p[n + 1] = q[n + 1]}
<1>1. p[1] = root /\ q[1] = root /\ Len(p) \in Nat /\ Len(q) \in Nat
  BY DEF Paths
<1>2. 0 \in T
  BY <1>1
<1>3. ASSUME NEW n \in T
      PROVE  n + 1 \in T
  <2>1. PICK m \in Nat : m = n + 1
    OBVIOUS
  <2> SUFFICES ASSUME m + 1 <= Len(p), m + 1 <= Len(q)
               PROVE  p[m + 1] = q[m + 1]
    BY <2>1
  <2>2. p[m] = q[m]
    BY <1>1, <2>1
  <2>3. m \in 1 .. Len(p) - 1 /\ m \in 1 .. Len(q) - 1
    BY <1>1, <2>1
  <2>4. p[m + 1] = Toward(table, p[m], key, m - 1)
    BY <2>3 DEF IsWay
  <2>5. q[m + 1] = Toward(table, q[m], key, m - 1)
    BY <2>3 DEF IsWay
  <2> QED  BY <2>2, <2>4, <2>5
<1>4. T = Nat
  <2>1. T \in SUBSET Nat
    OBVIOUS
  <2> HIDE DEF T
  <2> QED  BY <1>2, <1>3, <2>1, AllNumbers
<1>5. PICK n \in Nat : i = n + 1
  <2>1. i - 1 \in Nat /\ i = (i - 1) + 1
    OBVIOUS
  <2> QED  BY <2>1
<1>6. n + 1 <= Len(p) /\ n + 1 <= Len(q)
  BY <1>1, <1>5
<1>7. n \in T
  <2> HIDE DEF T
  <2> QED  BY <1>4
<1> QED  BY <1>5, <1>6, <1>7

(* So that there is one that ends where there is no branch.                *)
LEMMA OneWay ==
  ASSUME NEW table, NEW root, NEW p \in Paths(table, root), NEW q \in Paths(table, root),
         NEW key, IsWay(table, p, key), IsWay(table, q, key),
         ~IsBranch(ParsedNode(table, End(p))), ~IsBranch(ParsedNode(table, End(q)))
  PROVE  End(p) = End(q)
<1>1. Len(p) \in Nat /\ Len(q) \in Nat /\ Len(p) >= 1 /\ Len(q) >= 1
  BY DEF Paths
<1>2. CASE Len(p) = Len(q)
  BY <1>1, <1>2, WaysAgree DEF End
<1>3. CASE Len(p) < Len(q)
  <2>1. p[Len(p)] = q[Len(p)]
    BY <1>1, <1>3, WaysAgree
  <2>2. IsBranch(ParsedNode(table, q[Len(p)]))
    BY <1>1, <1>3 DEF Paths
  <2> QED  BY <2>1, <2>2 DEF End
<1>4. CASE Len(q) < Len(p)
  <2>1. p[Len(q)] = q[Len(q)]
    BY <1>1, <1>4, WaysAgree
  <2>2. IsBranch(ParsedNode(table, p[Len(q)]))
    BY <1>1, <1>4 DEF Paths
  <2> QED  BY <2>1, <2>2 DEF End
<1> QED  BY <1>1, <1>2, <1>3, <1>4

(* A leaf is at the end of the way of its key.                             *)
LEMMA LeavesEndWays ==
  ASSUME NEW table, NEW root, WellFormed(table, root), NEW q \in LeafPaths(table, root)
  PROVE  /\ q \in Paths(table, root) /\ IsWay(table, q, KeyOf(table, q))
         /\ ~IsBranch(ParsedNode(table, End(q)))
<1>1. q \in Paths(table, root) /\ ~IsBranch(ParsedNode(table, End(q)))
  BY DEF LeafPaths, IsLeaf, IsBranch
<1>2. ASSUME NEW i \in 1 .. Len(q) - 1
      PROVE  q[i + 1] = Toward(table, q[i], KeyOf(table, q), i - 1)
  <2>1. q[i + 1] \in {table[q[i]].left, table[q[i]].right}
    BY <1>1, PathsAreShort
  <2>2. GetBit(KeyOf(table, q), i - 1) = IF q[i + 1] = table[q[i]].left THEN 0 ELSE 1
    BY LeavesAreWhereTheirKeysLead
  <2> QED  BY <2>1, <2>2 DEF Toward
<1> QED  BY <1>1, <1>2 DEF IsWay

---------------------------------------------------------------------------
(* A key comes to a place along its bits, ...                              *)
GoTheirWay(calls, n, table, root, keys) ==
  \A call \in calls[n] : \A k \in call.keys :
    k \in keys /\ \E p \in Paths(table, root) :
                    Len(p) = n + 1 /\ End(p) = call.id /\ IsWay(table, p, k)

(* A call has only keys whose bits lead to the node it is at.              *)
LEMMA KeysGoTheirWay ==
  ASSUME NEW table, NEW root, WellFormed(table, root), NEW keys \in SUBSET KeySpace, NEW calls,
         ByLevel(calls, table, root, keys)
  PROVE  \A n \in Nat : GoTheirWay(calls, n, table, root, keys)
<1> DEFINE T == {n \in Nat : GoTheirWay(calls, n, table, root, keys)}
<1>1. 0 \in T
  <2>1. <<root>> \in Paths(table, root) /\ End(<<root>>) = root /\ Len(<<root>>) = 0 + 1
    BY RootIsAPath DEF End
  <2>2. \A k : IsWay(table, <<root>>, k)
    BY DEF IsWay
  <2> QED  BY <2>1, <2>2 DEF Call, ByLevel, GoTheirWay
<1>2. ASSUME NEW n \in T
      PROVE  n + 1 \in T
  <2> SUFFICES ASSUME NEW c \in calls[n + 1], NEW k \in c.keys
               PROVE  k \in keys /\ \E p \in Paths(table, root) :
                                      Len(p) = (n + 1) + 1 /\ End(p) = c.id /\ IsWay(table, p, k)
    BY DEF GoTheirWay
  <2>1. PICK call \in calls[n] : c \in GetBelow(table, n, call)
    BY DEF ByLevel
  <2> DEFINE node  == ParsedNode(table, call.id)
             right == {x \in call.keys : GetBit(x, n) = 1}
  <2>2. /\ IsBranch(node)
        /\ c \in {Call(node.left, call.keys \ right), Call(node.right, right)}
    BY <2>1 DEF GetBelow
  <2>3. k \in call.keys /\ c.id = IF GetBit(k, n) = 1 THEN node.right ELSE node.left
    BY <2>2 DEF Call
  <2>4. GoTheirWay(calls, n, table, root, keys)
    OBVIOUS
  <2>5. PICK p \in Paths(table, root) : Len(p) = n + 1 /\ End(p) = call.id /\ IsWay(table, p, k)
    BY <2>3, <2>4 DEF GoTheirWay
  <2>6. k \in keys
    BY <2>3, <2>4 DEF GoTheirWay
  <2>7. c.id \in Sides(table, End(p))
    BY <2>3, <2>5 DEF Sides
  <2> DEFINE q == Append(p, c.id)
  <2>8. q \in Paths(table, root) /\ Len(q) <= Depth + 1
    BY <2>2, <2>5, <2>7, PathsGoOn
  <2>9. /\ Len(q) = (n + 1) + 1 /\ End(q) = c.id /\ q[n + 2] = c.id /\ p[n + 1] = call.id
        /\ \A i \in 1 .. n + 1 : q[i] = p[i]
    BY <2>5 DEF End, Paths
  <2> HIDE DEF q
  <2>10. n \in 0 .. Depth - 1
    BY <2>8, <2>9, DepthAssumption
  <2>11. GetBit(k, n) \in {0, 1}
    BY <2>6, <2>10, BitOfKey
  <2>12. c.id = Toward(table, call.id, k, n)
    <3>1. node = table[call.id]
      BY <2>2 DEF ParsedNode, EmptyNode, IsBranch
    <3> QED  BY <2>3, <2>11, <3>1 DEF Toward
  <2>13. ASSUME NEW i \in 1 .. Len(q) - 1
         PROVE  q[i + 1] = Toward(table, q[i], k, i - 1)
    <3>1. CASE i = n + 1
      <4>1. i + 1 = n + 2 /\ i - 1 = n /\ q[i] = call.id /\ q[i + 1] = c.id
        BY <2>9, <3>1
      <4> QED  BY <2>12, <4>1
    <3>2. CASE i # n + 1
      <4>1. i \in 1 .. Len(p) - 1 /\ q[i] = p[i] /\ q[i + 1] = p[i + 1]
        BY <2>5, <2>9, <3>2
      <4> QED  BY <2>5, <4>1 DEF IsWay
    <3> QED  BY <3>1, <3>2
  <2> QED  BY <2>6, <2>8, <2>9, <2>13 DEF IsWay
<1>3. T = Nat
  <2>1. T \in SUBSET Nat
    OBVIOUS
  <2> HIDE DEF T
  <2> QED  BY <1>1, <1>2, <2>1, AllNumbers
<1> QED  BY <1>3

(* Each key has a last call, and each last call of a key is at the end of  *)
(* its way.                                                                *)
LEMMA EachKeyHasALastCall ==
  ASSUME NEW table, NEW root, WellFormed(table, root), NEW keys \in SUBSET KeySpace, NEW k \in keys
  PROVE  /\ \E call \in Calls(table, root, keys) : k \in call.keys /\ ~IsBranch(ParsedNode(table, call.id))
         /\ \A call \in Calls(table, root, keys) : k \in call.keys =>
              \E p \in Paths(table, root) : End(p) = call.id /\ IsWay(table, p, k)
<1>1. PICK calls : /\ ByLevel(calls, table, root, keys)
                   /\ \A call : call \in Calls(table, root, keys) <=>
                                  \E n \in 0 .. Depth : call \in calls[n]
  BY CallsByLevel
<1>2. ASSUME NEW n \in Nat, NEW call \in calls[n], NEW key \in call.keys
      PROVE  \E p \in Paths(table, root) : Len(p) = n + 1 /\ End(p) = call.id /\ IsWay(table, p, key)
  <2>1. GoTheirWay(calls, n, table, root, keys)
    BY <1>1, KeysGoTheirWay
  <2> QED  BY <2>1 DEF GoTheirWay
<1>3. Depth \in Nat
  BY DepthAssumption
<1>4. \/ \E call \in calls[Depth] : k \in call.keys
      \/ \E m \in 0 .. Depth - 1 : \E call \in calls[m] :
           k \in call.keys /\ ~IsBranch(ParsedNode(table, call.id))
  <2>1. ByLevel(calls, table, root, keys)
    BY <1>1
  <2> HIDE <1>1, <1>2
  <2>2. \A n \in Nat :
          \/ \E call \in calls[n] : k \in call.keys
          \/ \E m \in 0 .. n - 1 : \E call \in calls[m] :
               k \in call.keys /\ ~IsBranch(ParsedNode(table, call.id))
    BY <2>1, KeysAreHandedDown
  <2> QED  BY <1>3, <2>2
<1>5. CASE \E call \in calls[Depth] : k \in call.keys
  <2>1. PICK call \in calls[Depth] : k \in call.keys
    BY <1>5
  <2>2. PICK p \in Paths(table, root) : Len(p) = Depth + 1 /\ End(p) = call.id
    BY <1>2, <1>3, <2>1
  <2>3. ~IsBranch(ParsedNode(table, call.id))
    <3> SUFFICES ASSUME IsBranch(ParsedNode(table, End(p)))
                 PROVE  FALSE
      BY <2>2
    <3>1. ParsedNode(table, End(p)).left \in Sides(table, End(p))
      BY DEF Sides
    <3>2. Len(Append(p, ParsedNode(table, End(p)).left)) <= Depth + 1
      BY <3>1, PathsGoOn
    <3>3. Len(Append(p, ParsedNode(table, End(p)).left)) = Len(p) + 1
      BY DEF Paths
    <3> QED  BY <1>3, <2>2, <3>2, <3>3
  <2>4. call \in Calls(table, root, keys)
    BY <1>1, <1>3, <2>1
  <2> QED  BY <1>1, <1>2, <2>1, <2>3, <2>4
<1>6. CASE \E m \in 0 .. Depth - 1 : \E call \in calls[m] :
             k \in call.keys /\ ~IsBranch(ParsedNode(table, call.id))
  <2>1. PICK m \in 0 .. Depth - 1 : \E call \in calls[m] :
          k \in call.keys /\ ~IsBranch(ParsedNode(table, call.id))
    BY <1>6
  <2>2. m \in 0 .. Depth
    BY <1>3
  <2> QED  BY <1>1, <1>2, <2>1, <2>2
<1> QED  BY <1>4, <1>5, <1>6

---------------------------------------------------------------------------
(* In a well-formed tree of any depth, without stand-ins, every lookup of  *)
(* any set of keys finds the records that are there, by the node that has  *)
(* the key, and reports no other.                                          *)
THEOREM LookupsAreAnsweredRight ==
  ASSUME NEW table, NEW root, WellFormed(table, root),
         \A id \in Leaves(table, root) : table[id].type = "Leaf",
         NEW keys \in SUBSET KeySpace
  PROVE  AnsweredRight(table, root, keys)
<1> DEFINE map     == Contents(table, root)
           answers == GetMulti(table, root, keys)
           final(k) == CHOOSE call \in Calls(table, root, keys) :
                        k \in call.keys /\ ~IsBranch(ParsedNode(table, call.id))
<1>1. answers = [k \in keys |-> AnswerAt(table, final(k).id, k)]
  BY DEF GetMulti
<1> SUFFICES ASSUME NEW k \in keys
             PROVE  IF k \in DOMAIN map
                    THEN answers[k].exists /\ answers[k].val = map[k] /\ table[answers[k].nodeId].key = k
                    ELSE answers[k] = NoRecord
  BY <1>1 DEF AnsweredRight
<1> DEFINE id == final(k).id
<1>2. answers[k] = AnswerAt(table, id, k)
  BY <1>1
<1> HIDE DEF answers
<1>3. final(k) \in Calls(table, root, keys) /\ k \in final(k).keys /\ ~IsBranch(ParsedNode(table, id))
  BY EachKeyHasALastCall
<1> HIDE DEF final
<1>4. PICK p \in Paths(table, root) : End(p) = id /\ IsWay(table, p, k)
  BY <1>3, EachKeyHasALastCall
<1> HIDE DEF id
<1>5. DOMAIN map = {KeyOf(table, q) : q \in LeafPaths(table, root)}
  BY RecordsAreAtTheEndsOfPaths
<1>6. ASSUME NEW q \in LeafPaths(table, root), KeyOf(table, q) = k
      PROVE  End(q) = id
  BY <1>3, <1>4, <1>6, LeavesEndWays, OneWay
<1>7. CASE k \in DOMAIN map
  <2>1. PICK q \in LeafPaths(table, root) : KeyOf(table, q) = k
    BY <1>5, <1>7
  <2>2. End(q) = id /\ q \in Paths(table, root) /\ IsLeaf(ParsedNode(table, id))
    BY <1>6, <2>1 DEF LeafPaths
  <2>3. id # Empty /\ ParsedNode(table, id) = table[id] /\ table[id].key = k
    BY <2>1, <2>2 DEF IsLeaf, ParsedNode, EmptyNode, KeyOf
  <2> DEFINE leaf == CHOOSE n \in Leaves(table, root) : table[n].key = k
  <2>4. \A n \in Leaves(table, root) : table[n].key = k => n = id
    <3> SUFFICES ASSUME NEW n \in Leaves(table, root), table[n].key = k
                 PROVE  n = id
      OBVIOUS
    <3>1. PICK d \in 0 .. Depth : n \in AtDepth(table, root, d)
      BY DEF Leaves, Walk
    <3>2. PICK r \in Paths(table, root) : End(r) = n
      BY <3>1, EveryNodeHasAPath
    <3>3. n # Empty
      BY <3>1, LevelsHaveNodes
    <3>4. r \in LeafPaths(table, root) /\ KeyOf(table, r) = k
      BY <3>2, <3>3 DEF LeafPaths, Leaves, ParsedNode, KeyOf
    <3> QED  BY <1>6, <3>2, <3>4
  <2>5. DOMAIN map = {table[n].key : n \in Leaves(table, root)} /\ map[k] = table[leaf].val
    BY <1>7 DEF Contents
  <2>6. PICK n \in Leaves(table, root) : table[n].key = k
    BY <1>7, <2>5
  <2>7. leaf = id /\ id \in Leaves(table, root)
    BY <2>4, <2>6
  <2>8. answers[k] = Answer(TRUE, table[id].val, id)
    BY <1>2, <2>3, <2>7 DEF AnswerAt
  <2>9. answers[k].exists /\ answers[k].val = table[id].val /\ answers[k].nodeId = id
    BY <2>8 DEF Answer
  <2> QED  BY <1>7, <2>3, <2>5, <2>7, <2>9
<1>8. CASE k \notin DOMAIN map
  <2>1. \/ id = Empty
        \/ id # Empty /\ IsLeaf(ParsedNode(table, id))
    BY <1>3, <1>4, EndsOfPaths
  <2>2. ParsedNode(table, id).type # "Witness"
    BY <2>1 DEF IsLeaf, ParsedNode, EmptyNode
  <2>3. ParsedNode(table, id).key # k
    <3>1. CASE id = Empty
      <4>1. k \in Nat
        BY KeysAreNumbers
      <4>2. ParsedNode(table, id).key = -1
        BY <3>1 DEF ParsedNode, EmptyNode, NoKey
      <4> QED  BY <4>1, <4>2
    <3>2. CASE id # Empty
      <4>1. p \in LeafPaths(table, root)
        BY <1>4, <2>1, <3>2 DEF LeafPaths
      <4>2. KeyOf(table, p) \in DOMAIN map
        BY <1>5, <4>1
      <4> QED  BY <1>4, <1>8, <4>2 DEF KeyOf
    <3> QED  BY <3>1, <3>2
  <2> QED  BY <1>2, <1>8, <2>2, <2>3 DEF AnswerAt
<1> QED  BY <1>7, <1>8

---------------------------------------------------------------------------
(* The trees under the heads                                               *)

(* In any database with a tree under each head, every lookup of keys in    *)
(* use, in the head that is checked out, is answered right.                *)
THEOREM QueriesAreAnswered ==
  ASSUME TreesOK
  PROVE  QueriesAnswered
<1> SUFFICES ASSUME NEW keys \in SUBSET Key
             PROVE  AnsweredRight(nodes, heads[current], keys)
  BY DEF QueriesAnswered
<1>1. TreeOK(nodes, heads[current])
  BY DEF TreesOK
<1>2. keys \in SUBSET KeySpace
  BY KeyAssumption
<1> QED  BY <1>1, <1>2, LookupsAreAnsweredRight DEF TreeOK

(* The root hash of each head is the one that its records have, however    *)
(* the tree was built.                                                     *)
THEOREM RootsAreCanonical ==
  ASSUME TreesOK
  PROVE  CanonicalRoot
BY HashIsCanonical DEF TreesOK, CanonicalRoot, ContentsOf

(* So two heads have one root hash if, and only if, they have the same     *)
(* records: no difference between two versions is hidden by their hashes,  *)
(* and none is made up by the way the trees were built.                    *)
THEOREM SameRootSameRecords ==
  ASSUME TreesOK, NEW one \in Slot, NEW other \in Slot
  PROVE  ParsedNode(nodes, heads[one]).hash = ParsedNode(nodes, heads[other]).hash
           <=> ContentsOf(one) = ContentsOf(other)
<1> DEFINE a == heads[one]
           b == heads[other]
<1>1. TreeOK(nodes, a) /\ TreeOK(nodes, b)
  BY DEF TreesOK
<1>2. ASSUME ContentsOf(one) = ContentsOf(other)
      PROVE  ParsedNode(nodes, a).hash = ParsedNode(nodes, b).hash
  BY <1>2, RootsAreCanonical DEF CanonicalRoot
<1>3. ASSUME ParsedNode(nodes, a).hash = ParsedNode(nodes, b).hash
      PROVE  ContentsOf(one) = ContentsOf(other)
  <2> HIDE DEF a, b
  <2>1. a \in Subtrees(nodes, a, 0) /\ b \in Subtrees(nodes, b, 0) /\ 0 \in 0 .. Depth
    BY FirstLevel, DepthAssumption DEF Subtrees
  <2>2. RecordsOf(nodes, a) = RecordsOf(nodes, b)
    BY <1>1, <1>3, <2>1, SameHashSameRecords
  <2>3. Contents(nodes, a) = Contents(nodes, b)
    BY <1>1, <2>1, <2>2, SameRecordsSameContents
  <2> QED  BY <2>3 DEF ContentsOf, a, b
<1> QED  BY <1>2, <1>3

---------------------------------------------------------------------------
(* The head that a command finds                                           *)

(* Which entries the state table can have, and that it leads to the head   *)
(* that is checked out.  Without the first part the entry of another       *)
(* command could be mistaken for a head.                                   *)
HeadLeft ==
  /\ heads \in [Slot -> Nat]
  /\ current \in Slot
  /\ DOMAIN state \subseteq {"currHead", "detachedHead"}
  /\ state = [name \in DOMAIN state |-> state[name]]
  /\ "currHead" \in DOMAIN state => state["currHead"] \in HeadName
  /\ "detachedHead" \in DOMAIN state => state["detachedHead"] \in Nat
  /\ NextCommandFindsTheHead

(* A table in which a head has become the working one.                     *)
LEMMA SwitchLeadsToTheHead ==
  ASSUME HeadLeft, NEW slot \in Slot, heads' \in [Slot -> Nat], current' = slot, Save(Switched(slot))
  PROVE  HeadLeft'
<1>1. CASE slot = Detached
  <2>1. state' = PutState(DelState(state, "currHead"), "detachedHead", heads'[Detached])
    BY <1>1 DEF Save, Switched
  <2>2. state' = [n \in (DOMAIN state \ {"currHead"}) \cup {"detachedHead"} |->
                    IF n = "detachedHead" THEN heads'[Detached] ELSE DelState(state, "currHead")[n]]
    BY <2>1 DEF PutState, DelState
  <2>3. DOMAIN state' = {"detachedHead"} /\ state'["detachedHead"] = heads'[Detached]
    BY <2>2 DEF HeadLeft
  <2> QED  BY <1>1, <2>2, <2>3 DEF HeadLeft, NextCommandFindsTheHead, Loaded, Slot
<1>2. CASE slot # Detached
  <2>1. state' = DelState(PutState(state, "currHead", slot), "detachedHead")
    BY <1>2 DEF Save, Switched
  <2>2. DOMAIN state' = {"currHead"} /\ state'["currHead"] = slot
    BY <2>1 DEF HeadLeft, PutState, DelState
  <2>3. state' = [name \in DOMAIN state' |-> state'[name]]
    BY <2>1 DEF PutState, DelState
  <2> QED  BY <1>2, <2>2, <2>3 DEF HeadLeft, NextCommandFindsTheHead, Loaded, Slot
<1> QED  BY <1>1, <1>2

(* A table that is kept but for the root of a detached head.               *)
LEMMA SaveKeepsTheHead ==
  ASSUME HeadLeft, heads' \in [Slot -> Nat], current' = current, Save(state)
  PROVE  HeadLeft'
<1>1. CASE current = Detached
  <2>1. state' = PutState(state, "detachedHead", heads'[Detached])
    BY <1>1 DEF Save
  <2>2. /\ DOMAIN state' = DOMAIN state \cup {"detachedHead"}
        /\ state' = [n \in DOMAIN state \cup {"detachedHead"} |->
                       IF n = "detachedHead" THEN heads'[Detached] ELSE state[n]]
    BY <2>1 DEF PutState, DelState
  <2> QED  BY <1>1, <2>2 DEF HeadLeft, NextCommandFindsTheHead, Loaded, Slot
<1>2. CASE current # Detached
  <2>1. state' = state
    BY <1>2 DEF Save
  <2>2. Loaded(state).slot = current /\ "detachedHead" \notin DOMAIN state
    BY <1>2 DEF HeadLeft, NextCommandFindsTheHead, Loaded
  <2> QED  BY <1>2, <2>1, <2>2 DEF HeadLeft, NextCommandFindsTheHead, Loaded
<1> QED  BY <1>1, <1>2

(* Each command of quadb begins with the head that was left to it: the     *)
(* state table is right after every one, in any order, and when other      *)
(* programs move the head in between.                                      *)
THEOREM CommandsFindTheHead == HeadSpec => []NextCommandFindsTheHead
<1> USE HeadAssumption
<1>1. HeadInit => HeadLeft
  BY DEF HeadInit, HeadLeft, NoState, NoRoot, Slot, NextCommandFindsTheHead, Loaded
<1>2. HeadLeft /\ [HeadNext]_headVars => HeadLeft'
  <2> SUFFICES ASSUME HeadLeft, [HeadNext]_headVars
               PROVE  HeadLeft'
    OBVIOUS
  <2>1. /\ heads \in [Slot -> Nat] /\ current \in Slot /\ NoRoot \in Nat /\ Detached \in Slot
        /\ HeadName \subseteq Slot
    BY DEF HeadLeft, NoRoot, Slot
  <2>2. CASE \E root \in Nat : MoveHead(root)
    BY <2>1, <2>2, SaveKeepsTheHead DEF MoveHead, SetHead
  <2>3. CASE \E root \in Nat : ProgramMovesHead(root)
    <3>1. PICK root \in Nat : ProgramMovesHead(root)
      BY <2>3
    <3>2. Save(state)
      BY <3>1 DEF ProgramMovesHead, SetHead, Save
    <3> QED  BY <2>1, <3>1, <3>2, SaveKeepsTheHead DEF ProgramMovesHead, SetHead
  <2>4. CASE KeepHeads
    BY <2>1, <2>4, SaveKeepsTheHead DEF KeepHeads
  <2>5. CASE \E name \in HeadName : CheckoutHead(name)
    BY <2>1, <2>5, SwitchLeadsToTheHead DEF CheckoutHead, Checkout
  <2>6. CASE \E name \in HeadName : HeadRm(name)
    BY <2>1, <2>6, SaveKeepsTheHead DEF HeadRm, RemoveHead
  <2>7. CASE HeadRmCurrent
    <3>1. heads' \in [Slot -> Nat] /\ current' = current
      BY <2>1, <2>7 DEF HeadRmCurrent, CheckoutNode, RemoveHead
    <3> QED  BY <2>7, <3>1, SaveKeepsTheHead DEF HeadRmCurrent
  <2>8. CASE CheckoutEmpty
    BY <2>1, <2>8, SwitchLeadsToTheHead DEF CheckoutEmpty, CheckoutNode
  <2>9. CASE \E from \in HeadName \cup {current}, slot \in Slot : ForkHead(from, slot)
    <3>1. PICK from \in HeadName \cup {current}, slot \in Slot : ForkHead(from, slot)
      BY <2>9
    <3>2. heads' \in [Slot -> Nat] /\ current' = slot
      BY <2>1, <3>1 DEF ForkHead, Fork
    <3> QED  BY <3>1, <3>2, SwitchLeadsToTheHead DEF ForkHead
  <2>10. CASE UNCHANGED headVars
    BY <2>10 DEF headVars, HeadLeft, NextCommandFindsTheHead, Loaded
  <2> QED  BY <2>2, <2>3, <2>4, <2>5, <2>6, <2>7, <2>8, <2>9, <2>10 DEF HeadNext
<1>3. HeadLeft => NextCommandFindsTheHead
  BY DEF HeadLeft
<1> QED  BY <1>1, <1>2, <1>3, PTL DEF HeadSpec

---------------------------------------------------------------------------
(* What is true of the stored nodes, in all states                         *)

(* Every node has one of the four kinds, under an id of its range, ...     *)
KindOK(T, id) ==
  \/ T[id].type = "Leaf" /\ id \in 1 .. FirstInterior - 1 /\ T[id].key \in Key /\ T[id].val \in Val
  \/ T[id].type = "BranchLeft" /\ id >= FirstInterior /\ T[id].left \in DOMAIN T /\ T[id].right = Empty
  \/ T[id].type = "BranchRight" /\ id >= FirstInterior /\ T[id].left = Empty /\ T[id].right \in DOMAIN T
  \/ T[id].type = "BranchBoth" /\ id >= FirstInterior /\ {T[id].left, T[id].right} \subseteq DOMAIN T

(* ... leaves are whole, whether or not a tree still has them, and there   *)
(* is a greatest id.                                                       *)
NodesOK(T) ==
  /\ DOMAIN T \in SUBSET Nat /\ Bounded(DOMAIN T) /\ Empty \notin DOMAIN T
  /\ \A id \in DOMAIN T : KindOK(T, id) /\ (IsLeaf(T[id]) => StoredLeaf(T, id))

(* The inductive invariant: TypeOK, and what the next set of updates needs *)
(* to find.  A reuse may name any stored leaf, so that it is not enough    *)
(* that those of the trees are whole; and the ids that are given next are  *)
(* above all others only if those end somewhere.                           *)
IInv ==
  /\ NodesOK(nodes)
  /\ heads \in [Slot -> DOMAIN nodes \cup {Empty}]
  /\ TreesOK
  /\ applies \in 0 .. MaxApplies

(* It has all that TypeOK says.                                            *)
LEMMA IInvHasTypes == IInv => TypeOK
<1> SUFFICES ASSUME IInv
             PROVE  TypeOK
  OBVIOUS
<1>1. ASSUME NEW id \in DOMAIN nodes
      PROVE  LET node == nodes[id] IN
             CASE node.type = "Leaf" ->
                    id \in 1 .. FirstInterior - 1 /\ node.key \in Key /\ node.val \in Val
               [] node.type = "BranchLeft" ->
                    id >= FirstInterior /\ node.left \in DOMAIN nodes /\ node.right = Empty
               [] node.type = "BranchRight" ->
                    id >= FirstInterior /\ node.left = Empty /\ node.right \in DOMAIN nodes
               [] node.type = "BranchBoth" ->
                    id >= FirstInterior /\ {node.left, node.right} \subseteq DOMAIN nodes
               [] OTHER -> FALSE
  <2>1. KindOK(nodes, id)
    BY DEF IInv, NodesOK
  <2> QED  BY <2>1 DEF KindOK
<1> QED  BY <1>1 DEF TypeOK, IInv

(* An entry of the updates that are enumerated.                            *)
Entry(T, update) ==
  \/ update = Delete
  \/ \E v \in Val : update = Put(v)
  \/ ReuseLeaves /\ \E id \in DOMAIN T : IsLeaf(T[id]) /\ update = PutReuse(id)

(* They have such entries, for keys in use.                                *)
LEMMA EntriesOfUpdates ==
  ASSUME NEW updates \in UpdateSets
  PROVE  /\ DOMAIN updates \in SUBSET Key
         /\ \A k \in DOMAIN updates : Entry(nodes, updates[k])
<1> DEFINE reused == IF ReuseLeaves THEN {id \in DOMAIN nodes : IsLeaf(nodes[id])} ELSE {}
           update == {Delete} \cup {Put(v) : v \in Val} \cup {PutReuse(id) : id \in reused}
<1>1. PICK S \in SUBSET Key : updates \in [S -> update]
  BY DEF UpdateSets
<1>2. \A u \in update : Entry(nodes, u)
  BY DEF Entry
<1> HIDE DEF update
<1> QED  BY <1>1, <1>2

(* apply() can be asked for each of them.                                  *)
LEMMA EntryCanBePut ==
  ASSUME NEW T, NodesOK(T), NEW root, TreeOK(T, root), NEW update, Entry(T, update)
  PROVE  update \in Update /\ EntryOK(T, update, Leaves(T, root))
<1>1. CASE update = Delete
  BY <1>1 DEF Delete, Update, EntryOK, Empty
<1>2. CASE \E v \in Val : update = Put(v)
  BY <1>2 DEF Put, Update, EntryOK, Empty
<1>3. CASE ReuseLeaves /\ \E id \in DOMAIN T : IsLeaf(T[id]) /\ update = PutReuse(id)
  <2>1. PICK id \in DOMAIN T : IsLeaf(T[id]) /\ update = PutReuse(id)
    BY <1>3
  <2>2. id \in Nat /\ StoredLeaf(T, id)
    BY <2>1 DEF NodesOK
  <2>3. update \in Update /\ ~update.deletion /\ update.override = id /\ update.val = EmptyVal
    BY <2>1, <2>2 DEF PutReuse, Update
  <2>4. ASSUME NEW x \in Leaves(T, root)
        PROVE  T[x].val # EmptyVal
    <3>1. x \in DOMAIN T /\ T[x].type = "Leaf"
      <4>1. SubOK(T, root, 0) /\ 0 \in 0 .. Depth
        BY TreesAreSubtrees, DepthAssumption
      <4> QED  BY <4>1, LeavesAreStored DEF StoredLeaf
    <3>2. T[x].val \in Val
      BY <3>1 DEF NodesOK, KindOK
    <3> QED  BY <1>3, <3>2, ReuseAssumption
  <2> QED  BY <2>2, <2>3, <2>4 DEF EntryOK
<1> QED  BY <1>1, <1>2, <1>3 DEF Entry

(* So apply() does what PutAllPuts says of it.                             *)
LEMMA UpdatesArePut ==
  ASSUME IInv, NEW updates \in UpdateSets, RoomForLeaves(nodes, updates)
  PROVE  HasPut(nodes, heads[current], updates, PutAll(nodes, heads[current], updates))
<1>1. NodesOK(nodes) /\ TreeOK(nodes, heads[current])
  BY DEF IInv, TreesOK
<1>2. DOMAIN updates \in SUBSET KeySpace /\ \A k \in DOMAIN updates : Entry(nodes, updates[k])
  BY EntriesOfUpdates, KeyAssumption
<1>3. \A k \in DOMAIN updates : updates[k] \in Update /\ EntryOK(nodes, updates[k], Leaves(nodes, heads[current]))
  BY <1>1, <1>2, EntryCanBePut
<1>4. CanPut(nodes, heads[current], updates)
  BY <1>1, <1>2, <1>3 DEF CanPut, NodesOK
<1> QED  BY <1>4, PutAllPuts

(* What apply() writes is as what is there.                                *)
LEMMA NodesStayOK ==
  ASSUME NEW T, NodesOK(T), NEW updates, DOMAIN updates \in SUBSET Key,
         \A k \in DOMAIN updates : Entry(T, updates[k]), NEW U, PutStored(T, updates, U)
  PROVE  NodesOK(U)
<1>1. /\ Extends(U, T) /\ DOMAIN U \in SUBSET Nat /\ Bounded(DOMAIN U) /\ Empty \notin DOMAIN U
      /\ \A x \in DOMAIN U \ DOMAIN T : NewNode(U, x, updates)
  BY DEF PutStored
<1>2. ASSUME NEW id \in DOMAIN T
      PROVE  KindOK(U, id) /\ (IsLeaf(U[id]) => StoredLeaf(U, id))
  <2>1. U[id] = T[id] /\ DOMAIN T \subseteq DOMAIN U
    BY <1>1 DEF Extends
  <2>2. KindOK(T, id) /\ (IsLeaf(T[id]) => StoredLeaf(T, id))
    BY DEF NodesOK
  <2>3. KindOK(U, id)
    BY <2>1, <2>2 DEF KindOK
  <2> QED  BY <2>1, <2>2, <2>3 DEF StoredLeaf
<1>3. ASSUME NEW x \in DOMAIN U \ DOMAIN T
      PROVE  KindOK(U, x) /\ (IsLeaf(U[x]) => StoredLeaf(U, x))
  <2>1. CASE NewLeafOf(x, updates, U[x])
    <3>1. PICK k \in DOMAIN updates : /\ ~updates[k].deletion /\ updates[k].override = Empty
                                      /\ U[x] = LeafNode(k, updates[k].val) /\ x \in 1 .. FirstInterior - 1
      BY <2>1 DEF NewLeafOf
    <3>2. k \in Key /\ k \in KeySpace
      BY KeyAssumption
    <3>3. updates[k].val \in Val
      <4>1. Delete.deletion /\ \A id \in DOMAIN T : PutReuse(id).override # Empty
        BY DEF Delete, PutReuse, NodesOK
      <4>2. \A v : Put(v).val = v
        BY DEF Put
      <4>3. Entry(T, updates[k])
        OBVIOUS
      <4> QED  BY <3>1, <4>1, <4>2, <4>3 DEF Entry
    <3>4. /\ U[x].type = "Leaf" /\ U[x].key = k /\ U[x].val = updates[k].val
          /\ U[x].left = Empty /\ U[x].right = Empty /\ U[x].hash = LeafHash(k, updates[k].val)
      BY <3>1 DEF LeafNode, EmptyNode
    <3> QED  BY <3>1, <3>2, <3>3, <3>4 DEF KindOK, StoredLeaf
  <2>2. CASE BranchWritten(DOMAIN U, x, U[x])
    <3>1. PICK l, r : /\ U[x] = BranchNode(l, r) /\ {l.id, r.id} \subseteq DOMAIN U \cup {Empty}
                      /\ l.id # Empty \/ r.id # Empty
      BY <2>2 DEF BranchWritten
    <3>2. /\ U[x].left = l.id /\ U[x].right = r.id
          /\ U[x].type = IF r.id = Empty THEN "BranchLeft" ELSE IF l.id = Empty THEN "BranchRight" ELSE "BranchBoth"
      BY <3>1 DEF BranchNode, EmptyNode
    <3>3. x >= FirstInterior /\ ~IsLeaf(U[x])
      BY <2>2, <3>2 DEF BranchWritten, IsLeaf
    <3> QED  BY <3>1, <3>2, <3>3 DEF KindOK
  <2> QED  BY <1>1, <2>1, <2>2 DEF NewNode
<1> QED  BY <1>1, <1>2, <1>3 DEF NodesOK

(* A new database has nothing.                                             *)
LEMMA NewDatabase == AllInit => IInv
<1> SUFFICES ASSUME AllInit
             PROVE  IInv
  OBVIOUS
<1>1. nodes = NoTable /\ DOMAIN nodes = {}
  BY DEF AllInit, Init, NoTable
<1>2. NodesOK(nodes)
  BY <1>1 DEF NodesOK, Bounded
<1>3. \A slot \in Slot : heads[slot] = Empty
  BY DEF AllInit, HeadInit, Empty, NoRoot
<1>4. heads \in [Slot -> DOMAIN nodes \cup {Empty}] /\ current \in Slot
  BY HeadAssumption DEF AllInit, HeadInit, Empty, NoRoot, Slot
<1>5. TreeOK(nodes, Empty)
  BY TreesAreSubtrees, EmptyIsATree
<1>6. applies \in 0 .. MaxApplies
  BY MaxAppliesAssumption DEF AllInit, Init
<1> QED  BY <1>2, <1>3, <1>4, <1>5, <1>6 DEF IInv, TreesOK

(* What apply() does with what putAux returns.                             *)
Applied(updates, put) ==
  /\ HasPut(nodes, heads[current], updates, put)
  /\ nodes' = put.nodes /\ applies' = applies + 1 /\ applies < MaxApplies
  /\ IF put.thrown THEN UNCHANGED <<heads, current>> ELSE SetHead(put.built.id)
  /\ last' = [updates |-> updates, root |-> heads[current], output |-> put.output, thrown |-> put.thrown]

(* It does so with what PutAll comes to.                                   *)
LEMMA ApplyPuts ==
  ASSUME IInv, NEW updates \in UpdateSets, Apply(updates)
  PROVE  Applied(updates, PutAll(nodes, heads[current], updates))
<1>1. HasPut(nodes, heads[current], updates, PutAll(nodes, heads[current], updates))
  BY UpdatesArePut DEF Apply
<1> QED  BY <1>1 DEF Apply, Applied

(* What is stored after it.                                                *)
LEMMA ApplyStores ==
  ASSUME IInv, NEW updates \in UpdateSets, NEW put, Applied(updates, put)
  PROVE  NodesOK(nodes') /\ Extends(nodes', nodes)
<1>1. PutStored(nodes, updates, nodes')
  BY DEF Applied, HasPut
<1>2. NodesOK(nodes)
  BY DEF IInv
<1>3. DOMAIN updates \in SUBSET Key /\ \A k \in DOMAIN updates : Entry(nodes, updates[k])
  BY EntriesOfUpdates
<1>4. NodesOK(nodes')
  BY <1>1, <1>2, <1>3, NodesStayOK
<1> QED  BY <1>1, <1>4 DEF PutStored

(* apply() leaves such a database: the other heads keep their trees, which *)
(* no new node is part of, and the working one gets the tree that putAux   *)
(* returns.                                                                *)
LEMMA ApplyKeeps ==
  ASSUME IInv, NEW updates \in UpdateSets, NEW put, Applied(updates, put)
  PROVE  IInv'
<1>1. NodesOK(nodes') /\ Extends(nodes', nodes)
  BY ApplyStores
<1>2. ASSUME NEW slot \in Slot
      PROVE  TreeOK(nodes', heads[slot])
  <2>1. TreeOK(nodes, heads[slot])
    BY DEF IInv, TreesOK
  <2> QED  BY <1>1, <2>1, OldTreesStay
<1>3. applies' \in 0 .. MaxApplies
  BY MaxAppliesAssumption DEF IInv, Applied
<1>4. current \in Slot /\ heads \in [Slot -> DOMAIN nodes' \cup {Empty}]
  BY <1>1 DEF IInv, TreesOK, Extends
<1>5. CASE put.thrown
  <2>1. heads' = heads /\ current' = current
    BY <1>5 DEF Applied
  <2> QED  BY <1>1, <1>2, <1>3, <1>4, <2>1 DEF IInv, TreesOK
<1>6. CASE ~put.thrown
  <2>1. heads' = [heads EXCEPT ![current] = put.built.id] /\ current' = current
    BY <1>6 DEF Applied, SetHead
  <2>2. TreeOK(nodes', put.built.id)
    BY <1>6 DEF Applied, HasPut, PutTree
  <2>3. put.built.id \in DOMAIN nodes' \cup {Empty}
    BY <2>2 DEF TreeOK
  <2>4. heads' \in [Slot -> DOMAIN nodes' \cup {Empty}]
    BY <1>4, <2>1, <2>3
  <2>5. ASSUME NEW slot \in Slot
        PROVE  TreeOK(nodes', heads'[slot])
    <3>1. heads'[slot] = IF slot = current THEN put.built.id ELSE heads[slot]
      BY <1>4, <2>1
    <3> QED  BY <1>2, <2>2, <3>1
  <2>6. current' \in Slot
    BY <1>4, <2>1
  <2> QED  BY <1>1, <1>3, <2>4, <2>5, <2>6 DEF IInv, TreesOK
<1> QED  BY <1>5, <1>6

---------------------------------------------------------------------------
(* What apply() says of itself                                             *)

(* It throws for the updates that name a leaf of another key.              *)
LEMMA ApplyRefuses ==
  ASSUME IInv, NEW updates \in UpdateSets, NEW put, Applied(updates, put)
  PROVE  RefusesOnlyForeignLeaves'
<1>1. last'.updates = updates /\ (last'.thrown <=> put.thrown)
  BY DEF Applied
<1>2. put.thrown <=> \E k \in DOMAIN updates : Foreign(nodes, k, updates[k])
  BY DEF Applied, HasPut
<1>3. ASSUME NEW k \in DOMAIN updates
      PROVE  Foreign(nodes, k, updates[k])
               <=> updates[k].override # Empty /\ nodes'[updates[k].override].key # k
  <2>1. Entry(nodes, updates[k])
    BY EntriesOfUpdates
  <2>2. NodesOK(nodes) /\ TreeOK(nodes, heads[current])
    BY DEF IInv, TreesOK
  <2>3. updates[k] \in Update /\ EntryOK(nodes, updates[k], Leaves(nodes, heads[current]))
    BY <2>1, <2>2, EntryCanBePut
  <2>4. updates[k] # NoEntry
    BY <2>3 DEF Update, NoEntry
  <2>5. updates[k].override # Empty => nodes'[updates[k].override] = nodes[updates[k].override]
    <3>1. updates[k].override # Empty => updates[k].override \in DOMAIN nodes
      BY <2>3 DEF EntryOK, StoredLeaf
    <3>2. Extends(nodes', nodes)
      BY ApplyStores
    <3> QED  BY <3>1, <3>2 DEF Extends
  <2> QED  BY <2>4, <2>5 DEF Foreign
<1> QED  BY <1>1, <1>2, <1>3 DEF RefusesOnlyForeignLeaves

(* What has become of the leaves, when it does not.                        *)
LEMMA ApplySettles ==
  ASSUME IInv, NEW updates \in UpdateSets, NEW put, Applied(updates, put), ~put.thrown
  PROVE  /\ PutTree(nodes, last'.root, updates, nodes', heads'[current'], last'.output)
         /\ Leaves(nodes', last'.root) = Leaves(nodes, last'.root)
         /\ \A x \in Leaves(nodes, last'.root) : nodes'[x] = nodes[x] /\ nodes[x].key \in KeySpace
<1>1. last'.root = heads[current] /\ last'.output = put.output
  BY DEF Applied
<1>2. heads' = [heads EXCEPT ![current] = put.built.id] /\ current' = current
  BY DEF Applied, SetHead
<1>3. heads'[current'] = put.built.id
  BY <1>2 DEF IInv, TreesOK
<1>4. PutTree(nodes, heads[current], updates, nodes', put.built.id, put.output)
  BY DEF Applied, HasPut
<1>5. Extends(nodes', nodes) /\ TreeOK(nodes, heads[current])
  BY ApplyStores DEF IInv, TreesOK
<1>6. /\ Leaves(nodes', heads[current]) = Leaves(nodes, heads[current])
      /\ \A x \in Leaves(nodes, heads[current]) : nodes'[x] = nodes[x] /\ StoredLeaf(nodes, x)
  BY <1>5, OldTreesStay
<1> QED  BY <1>1, <1>3, <1>4, <1>6 DEF StoredLeaf

(* No other leaf is taken away or copied.                                  *)
LEMMA ApplyKeepsLeaves ==
  ASSUME IInv, NEW updates \in UpdateSets, NEW put, Applied(updates, put)
  PROVE  UntouchedLeavesKeepTheirId'
<1>1. last'.updates = updates /\ (last'.thrown <=> put.thrown)
  BY DEF Applied
<1> SUFFICES ASSUME ~put.thrown, NEW id \in Leaves(nodes', last'.root), nodes'[id].key \notin DOMAIN updates
             PROVE  id \in Leaves(nodes', heads'[current'])
  BY <1>1 DEF UntouchedLeavesKeepTheirId
<1>2. /\ PutTree(nodes, last'.root, updates, nodes', heads'[current'], last'.output)
      /\ id \in Leaves(nodes, last'.root) /\ nodes'[id] = nodes[id] /\ nodes[id].key \in KeySpace
  BY ApplySettles
<1>3. For(nodes', Leaves(nodes', heads'[current']), nodes[id].key)
        = For(nodes, Leaves(nodes, last'.root), nodes[id].key)
  BY <1>2 DEF PutTree
<1>4. id \in For(nodes, Leaves(nodes, last'.root), nodes[id].key)
  BY <1>2 DEF For
<1> QED  BY <1>3, <1>4 DEF For

(* Where outputNodeId points for each update.                              *)
LEMMA ApplyNamesTheLeaf ==
  ASSUME IInv, NEW updates \in UpdateSets, NEW put, Applied(updates, put)
  PROVE  OutputNamesTheLeaf'
<1>1. last'.updates = updates /\ (last'.thrown <=> put.thrown)
  BY DEF Applied
<1> DEFINE old(k) == {id \in Leaves(nodes', last'.root) : nodes'[id].key = k}
           new(k) == {id \in Leaves(nodes', heads'[current']) : nodes'[id].key = k}
<1>2. ASSUME ~put.thrown, NEW k \in DOMAIN updates
      PROVE  IF updates[k].deletion THEN old(k) = (IF last'.output[k] = Empty THEN {} ELSE {last'.output[k]})
             ELSE IF last'.output[k] = Empty THEN old(k) = new(k) ELSE new(k) = {last'.output[k]}
  <2>1. /\ PutTree(nodes, last'.root, updates, nodes', heads'[current'], last'.output)
        /\ Leaves(nodes', last'.root) = Leaves(nodes, last'.root)
        /\ \A x \in Leaves(nodes, last'.root) : nodes'[x] = nodes[x]
    BY <1>2, ApplySettles
  <2>2. old(k) = For(nodes, Leaves(nodes, last'.root), k)
    BY <2>1 DEF For
  <2>3. new(k) = For(nodes', Leaves(nodes', heads'[current']), k)
    BY DEF For
  <2>4. Settled(nodes, nodes', Leaves(nodes, last'.root), Leaves(nodes', heads'[current']), k, updates[k],
                Empty, last'.output[k])
    BY <2>1 DEF PutTree
  <2>5. updates[k] # NoEntry
    <3>1. Entry(nodes, updates[k]) /\ NodesOK(nodes) /\ TreeOK(nodes, heads[current])
      BY EntriesOfUpdates DEF IInv, TreesOK
    <3>2. updates[k] \in Update
      BY <3>1, EntryCanBePut
    <3> QED  BY <3>2 DEF Update, NoEntry
  <2>6. ASSUME NEW y \in Leaves(nodes', heads'[current'])
        PROVE  y # Empty
    <3>1. TreeOK(nodes', heads'[current']) /\ NodesOK(nodes')
      BY <2>1, ApplyStores DEF PutTree
    <3>2. y \in DOMAIN nodes'
      <4>1. SubOK(nodes', heads'[current'], 0) /\ 0 \in 0 .. Depth
        BY <3>1, TreesAreSubtrees, DepthAssumption
      <4> QED  BY <4>1, LeavesAreStored DEF StoredLeaf
    <3> QED  BY <3>1, <3>2 DEF NodesOK
  <2> HIDE DEF old, new
  <2> QED  BY <2>2, <2>3, <2>4, <2>5, <2>6 DEF Settled
<1> HIDE DEF old, new
<1>3. ASSUME ~last'.thrown, NEW k \in DOMAIN last'.updates
      PROVE  IF last'.updates[k].deletion
             THEN old(k) = (IF last'.output[k] = Empty THEN {} ELSE {last'.output[k]})
             ELSE IF last'.output[k] = Empty THEN old(k) = new(k) ELSE new(k) = {last'.output[k]}
  BY <1>1, <1>2, <1>3
<1> QED  BY <1>3 DEF OutputNamesTheLeaf, old, new

---------------------------------------------------------------------------
(* Garbage collections, and moves of the heads                             *)

(* What the heads lead to.                                                 *)
Marked == UNION {Walk(nodes, heads[slot]) : slot \in Slot}

(* All of a tree is marked, down to its last level.                        *)
LEMMA TreesAreMarked ==
  ASSUME TreesOK, NEW slot \in Slot, NEW n \in Nat, NEW x \in AtDepth(nodes, heads[slot], n)
  PROVE  x \in Marked /\ x \in DOMAIN nodes
<1>1. SubOK(nodes, heads[slot], 0) /\ 0 \in 0 .. Depth
  BY TreesAreSubtrees, DepthAssumption DEF TreesOK
<1>2. n <= Depth
  <2> SUFFICES ASSUME n > Depth
               PROVE  FALSE
    BY DepthAssumption
  <2> QED  BY <1>1, SubtreesEnd
<1>3. x \in Walk(nodes, heads[slot])
  BY <1>2, DepthAssumption DEF Walk
<1>4. NodeOK(nodes, x, 0 + n)
  BY <1>1 DEF SubOK
<1> QED  BY <1>3, <1>4 DEF Marked, NodeOK, StoredLeaf, StoredBranch

(* And nothing else is.                                                    *)
LEMMA MarkedAreOfTrees ==
  ASSUME NEW x \in Marked
  PROVE  \E slot \in Slot, n \in Nat : x \in AtDepth(nodes, heads[slot], n)
<1>1. PICK slot \in Slot : x \in Walk(nodes, heads[slot])
  BY DEF Marked
<1>2. PICK n \in 0 .. Depth : x \in AtDepth(nodes, heads[slot], n)
  BY <1>1 DEF Walk
<1> QED  BY <1>2, DepthAssumption

(* A collection takes nothing that a head leads to: a node is kept with    *)
(* all that is below it.                                                   *)
LEMMA CollectKeeps ==
  ASSUME IInv, Collect, UNCHANGED <<heads, current>>
  PROVE  IInv'
<1>1. DOMAIN nodes' = Marked /\ \A x \in Marked : nodes'[x] = nodes[x]
  BY DEF Collect, Marked, Restrict
<1>2. TreesOK /\ NodesOK(nodes)
  BY DEF IInv
<1>3. Marked \subseteq DOMAIN nodes
  BY <1>2, MarkedAreOfTrees, TreesAreMarked
<1>4. ASSUME NEW slot \in Slot
      PROVE  TreeOK(nodes', heads[slot]) /\ heads[slot] \in DOMAIN nodes' \cup {Empty}
  <2>1. SameBelow(nodes, nodes', heads[slot])
    BY <1>1, <1>2, TreesAreMarked DEF SameBelow
  <2>2. SubOK(nodes, heads[slot], 0)
    BY <1>2, TreesAreSubtrees DEF TreesOK
  <2>3. SubOK(nodes', heads[slot], 0)
    BY <2>1, <2>2, SameTree
  <2>4. heads[slot] \in DOMAIN nodes' \cup {Empty}
    <3>1. heads[slot] # Empty => heads[slot] \in AtDepth(nodes, heads[slot], 0)
      BY FirstLevel
    <3> QED  BY <1>1, <1>2, <3>1, TreesAreMarked
  <2> QED  BY <2>3, <2>4, TreesAreSubtrees
<1>5. ASSUME NEW x \in Marked
      PROVE  KindOK(nodes', x) /\ (IsLeaf(nodes'[x]) => StoredLeaf(nodes', x))
  <2>1. KindOK(nodes, x) /\ (IsLeaf(nodes[x]) => StoredLeaf(nodes, x)) /\ Empty \notin DOMAIN nodes
    BY <1>2, <1>3 DEF NodesOK
  <2>2. PICK slot \in Slot, n \in Nat : x \in AtDepth(nodes, heads[slot], n)
    BY MarkedAreOfTrees
  <2>3. ASSUME NEW c \in {nodes[x].left, nodes[x].right}, c \in DOMAIN nodes
        PROVE  c \in Marked
    <3>1. c \in Children(nodes, AtDepth(nodes, heads[slot], n))
      BY <2>1, <2>2, <2>3 DEF Children
    <3>2. PICK m \in Nat : m = n + 1
      OBVIOUS
    <3>3. c \in AtDepth(nodes, heads[slot], m)
      BY <3>1, <3>2, LevelAfter
    <3> QED  BY <1>2, <3>3, TreesAreMarked
  <2>4. KindOK(nodes', x)
    BY <1>1, <2>1, <2>3 DEF KindOK
  <2> QED  BY <1>1, <2>1, <2>4 DEF StoredLeaf
<1>6. NodesOK(nodes')
  <2>1. DOMAIN nodes' \in SUBSET Nat /\ Empty \notin DOMAIN nodes' /\ Bounded(DOMAIN nodes')
    BY <1>1, <1>2, <1>3 DEF NodesOK, Bounded
  <2> QED  BY <1>1, <1>5, <2>1 DEF NodesOK
<1>7. applies' = applies
  BY DEF Collect
<1>8. heads' = heads /\ current' = current /\ current \in Slot
  BY <1>2 DEF TreesOK
<1>9. heads \in [Slot -> DOMAIN nodes' \cup {Empty}]
  BY <1>4 DEF IInv
<1> QED  BY <1>4, <1>6, <1>7, <1>8, <1>9 DEF IInv, TreesOK

(* The heads are moved to roots that there are, or to none.                *)
HeadsMoved ==
  /\ UNCHANGED <<nodes, applies>>
  /\ current' \in Slot
  /\ \E root \in [Slot -> {heads[slot] : slot \in Slot} \cup {Empty}] : heads' = root

(* So that each still leads to a tree.                                     *)
LEMMA MovesKeep ==
  ASSUME IInv, HeadsMoved
  PROVE  IInv'
<1>1. PICK root \in [Slot -> {heads[slot] : slot \in Slot} \cup {Empty}] : heads' = root
  BY DEF HeadsMoved
<1>2. nodes' = nodes /\ applies' = applies /\ current' \in Slot
  BY DEF HeadsMoved
<1>3. TreeOK(nodes, Empty)
  BY TreesAreSubtrees, EmptyIsATree
<1>4. ASSUME NEW slot \in Slot
      PROVE  TreeOK(nodes, root[slot]) /\ root[slot] \in DOMAIN nodes \cup {Empty}
  <2>1. root[slot] \in {heads[other] : other \in Slot} \cup {Empty}
    OBVIOUS
  <2> QED  BY <1>3, <2>1 DEF IInv, TreesOK
<1>5. root \in [Slot -> DOMAIN nodes \cup {Empty}]
  BY <1>4
<1> QED  BY <1>1, <1>2, <1>4, <1>5 DEF IInv, TreesOK

(* Each command that moves heads moves them so.                            *)
LEMMA CommandsMoveHeads ==
  ASSUME IInv, NoUpdate,
         \/ \E name \in HeadName : CheckoutHead(name) \/ HeadRm(name)
         \/ HeadRmCurrent
         \/ CheckoutEmpty
         \/ \E from \in HeadName \cup {current}, slot \in Slot : ForkHead(from, slot)
  PROVE  HeadsMoved
<1> DEFINE roots == {heads[slot] : slot \in Slot} \cup {Empty}
<1>1. /\ UNCHANGED <<nodes, applies>> /\ current \in Slot
      /\ heads \in [Slot -> roots] /\ NoRoot \in roots /\ Detached \in Slot /\ HeadName \subseteq Slot
  BY DEF NoUpdate, IInv, TreesOK, Slot, NoRoot, Empty
<1> HIDE DEF roots
<1> SUFFICES current' \in Slot /\ heads' \in [Slot -> roots]
  BY <1>1 DEF HeadsMoved, roots
<1>2. CASE \E name \in HeadName : CheckoutHead(name)
  BY <1>1, <1>2 DEF CheckoutHead, Checkout
<1>3. CASE \E name \in HeadName : HeadRm(name)
  BY <1>1, <1>3 DEF HeadRm, RemoveHead
<1>4. CASE HeadRmCurrent
  BY <1>1, <1>4 DEF HeadRmCurrent, CheckoutNode, RemoveHead
<1>5. CASE CheckoutEmpty
  BY <1>1, <1>5 DEF CheckoutEmpty, CheckoutNode
<1>6. CASE \E from \in HeadName \cup {current}, slot \in Slot : ForkHead(from, slot)
  <2>1. PICK from \in HeadName \cup {current}, slot \in Slot : ForkHead(from, slot)
    BY <1>6
  <2>2. heads[from] \in roots
    BY <1>1
  <2> QED  BY <1>1, <2>1, <2>2 DEF ForkHead, Fork
<1> QED  BY <1>2, <1>3, <1>4, <1>5, <1>6

---------------------------------------------------------------------------
(* All states of the database                                              *)

(* What is said of the last call of apply.                                 *)
CallsOK == RefusesOnlyForeignLeaves /\ UntouchedLeavesKeepTheirId /\ OutputNamesTheLeaf

(* Nothing is, when the last operation was no such call.                   *)
LEMMA NoCallToSpeakOf ==
  ASSUME last' = NoApply
  PROVE  CallsOK'
<1>1. last'.updates = NoTable /\ ~last'.thrown
  BY DEF NoApply
<1>2. DOMAIN last'.updates = {}
  BY <1>1 DEF NoTable
<1> QED  BY <1>1, <1>2 DEF CallsOK, RefusesOnlyForeignLeaves, UntouchedLeavesKeepTheirId, OutputNamesTheLeaf

(* Whatever a command or a program does is one of three things.            *)
LEMMA Operations ==
  ASSUME IInv, Next
  PROVE  \/ \E updates \in UpdateSets : Apply(updates)
         \/ Collect /\ UNCHANGED <<heads, current>>
         \/ NoUpdate /\ HeadsMoved
<1>1. CASE \E updates \in UpdateSets : Edit(updates) \/ ProgramEdits(updates)
  BY <1>1 DEF Edit, ProgramEdits
<1>2. CASE Gc
  BY <1>2 DEF Gc, KeepHeads
<1>3. CASE \/ \E name \in HeadName : NoUpdate /\ (CheckoutHead(name) \/ HeadRm(name))
           \/ NoUpdate /\ HeadRmCurrent
           \/ NoUpdate /\ CheckoutEmpty
           \/ \E from \in HeadName \cup {current}, slot \in Slot : NoUpdate /\ ForkHead(from, slot)
  BY <1>3, CommandsMoveHeads
<1> QED  BY <1>1, <1>2, <1>3 DEF Next

(* Each keeps what the next one relies on, and says the truth.             *)
LEMMA StepsKeep ==
  ASSUME IInv, CallsOK, [Next]_vars
  PROVE  IInv' /\ CallsOK'
<1>1. CASE \E updates \in UpdateSets : Apply(updates)
  <2>1. PICK updates \in UpdateSets : Apply(updates)
    BY <1>1
  <2> DEFINE put == PutAll(nodes, heads[current], updates)
  <2>2. Applied(updates, put)
    BY <2>1, ApplyPuts
  <2> HIDE DEF put
  <2>3. IInv'
    BY <2>2, ApplyKeeps
  <2>4. RefusesOnlyForeignLeaves' /\ UntouchedLeavesKeepTheirId' /\ OutputNamesTheLeaf'
    BY <2>2, ApplyRefuses, ApplyKeepsLeaves, ApplyNamesTheLeaf
  <2> QED  BY <2>3, <2>4 DEF CallsOK
<1>2. CASE Collect /\ UNCHANGED <<heads, current>>
  <2>1. last' = NoApply
    BY <1>2 DEF Collect
  <2> QED  BY <1>2, <2>1, CollectKeeps, NoCallToSpeakOf
<1>3. CASE NoUpdate /\ HeadsMoved
  <2>1. last' = NoApply
    BY <1>3 DEF NoUpdate
  <2> QED  BY <1>3, <2>1, MovesKeep, NoCallToSpeakOf
<1>4. CASE UNCHANGED vars
  <2>1. UNCHANGED <<nodes, last, applies, heads, current>>
    BY <1>4 DEF vars, headVars
  <2>2. IInv'
    BY <2>1 DEF IInv, TreesOK
  <2> QED  BY <2>1, <2>2 DEF CallsOK, RefusesOnlyForeignLeaves, UntouchedLeavesKeepTheirId, OutputNamesTheLeaf
<1> QED  BY <1>1, <1>2, <1>3, <1>4, Operations

(* So does every state that commands and programs lead to.                 *)
LEMMA AlwaysKept == Spec => [](IInv /\ CallsOK)
<1>1. AllInit => IInv /\ CallsOK
  <2> SUFFICES ASSUME AllInit
               PROVE  CallsOK
    BY NewDatabase
  <2>1. last.updates = NoTable /\ ~last.thrown /\ last = NoApply
    BY DEF AllInit, Init, NoApply
  <2>2. DOMAIN last.updates = {}
    BY <2>1 DEF NoTable
  <2> QED  BY <2>1, <2>2 DEF CallsOK, RefusesOnlyForeignLeaves, UntouchedLeavesKeepTheirId, OutputNamesTheLeaf
<1>2. (IInv /\ CallsOK) /\ [Next]_vars => (IInv /\ CallsOK)'
  BY StepsKeep
<1> QED  BY <1>1, <1>2, PTL DEF Spec

(* Every stored node is what its type says, and under each head there is a *)
(* tree: no two keys that share a prefix are on the wrong sides of a       *)
(* branch, no leaf that is alone stays below one, no hash is stale,        *)
(* whatever was split, deleted, reused, collapsed and collected before.    *)
THEOREM TypesAreKept == Spec => []TypeOK
<1>1. IInv /\ CallsOK => TypeOK
  BY IInvHasTypes
<1> QED  BY <1>1, AlwaysKept, PTL

(* The root hash of each head is a function of its records alone, in every *)
(* state: two ways to the same records lead to the same root, and the      *)
(* check that a diff or a sync makes of two roots misses no difference.    *)
THEOREM RootsStayCanonical == Spec => []CanonicalRoot
<1>1. IInv /\ CallsOK => CanonicalRoot
  BY RootsAreCanonical DEF IInv
<1> QED  BY <1>1, AlwaysKept, PTL

(* In every state getMulti answers for any keys with the records that are  *)
(* there, and no others.                                                   *)
THEOREM QueriesStayAnswered == Spec => []QueriesAnswered
<1>1. IInv /\ CallsOK => QueriesAnswered
  BY QueriesAreAnswered DEF IInv
<1> QED  BY <1>1, AlwaysKept, PTL

(* A set of updates is refused only for a reuse of a leaf of another key.  *)
THEOREM UpdatesAreRefusedForForeignLeaves == Spec => []RefusesOnlyForeignLeaves
<1>1. IInv /\ CallsOK => RefusesOnlyForeignLeaves
  BY DEF CallsOK
<1> QED  BY <1>1, AlwaysKept, PTL

(* The leaf of a key that the updates do not name keeps its node id.       *)
THEOREM LeavesKeepTheirIds == Spec => []UntouchedLeavesKeepTheirId
<1>1. IInv /\ CallsOK => UntouchedLeavesKeepTheirId
  BY DEF CallsOK
<1> QED  BY <1>1, AlwaysKept, PTL

(* outputNodeId is the leaf that an update added or deleted.               *)
THEOREM OutputsNameTheirLeaves == Spec => []OutputNamesTheLeaf
<1>1. IInv /\ CallsOK => OutputNamesTheLeaf
  BY DEF CallsOK
<1> QED  BY <1>1, AlwaysKept, PTL

(* To the heads, each operation is one of those of HeadTable.              *)
LEMMA HeadsGoAlong ==
  ASSUME IInv, [Next]_vars
  PROVE  [HeadNext]_headVars
<1>1. CASE \E updates \in UpdateSets : Edit(updates) \/ ProgramEdits(updates)
  <2>1. PICK updates \in UpdateSets : Edit(updates) \/ ProgramEdits(updates)
    BY <1>1
  <2> DEFINE put == PutAll(nodes, heads[current], updates)
  <2>2. Applied(updates, put)
    BY <2>1, ApplyPuts DEF Edit, ProgramEdits
  <2> HIDE DEF put
  <2>3. CASE put.thrown
    <3>1. UNCHANGED <<heads, current>>
      BY <2>2, <2>3 DEF Applied
    <3> QED  BY <2>1, <3>1 DEF Edit, ProgramEdits, HeadNext, KeepHeads, headVars
  <2>4. CASE ~put.thrown
    <3>1. SetHead(put.built.id)
      BY <2>2, <2>4 DEF Applied
    <3>2. put.built.id \in Nat
      <4>1. TreeOK(nodes', put.built.id)
        BY <2>2, <2>4 DEF Applied, HasPut, PutTree
      <4>2. NodesOK(nodes')
        BY <2>2, ApplyStores
      <4> QED  BY <4>1, <4>2 DEF TreeOK, NodesOK, Empty
    <3> QED  BY <2>1, <3>1, <3>2 DEF Edit, ProgramEdits, HeadNext, MoveHead, ProgramMovesHead
  <2> QED  BY <2>3, <2>4
<1>2. CASE Gc
  BY <1>2 DEF Gc, HeadNext
<1>3. CASE \/ \E name \in HeadName : NoUpdate /\ (CheckoutHead(name) \/ HeadRm(name))
           \/ NoUpdate /\ HeadRmCurrent
           \/ NoUpdate /\ CheckoutEmpty
           \/ \E from \in HeadName \cup {current}, slot \in Slot : NoUpdate /\ ForkHead(from, slot)
  BY <1>3 DEF HeadNext
<1>4. CASE UNCHANGED vars
  BY <1>4 DEF vars, headVars
<1> QED  BY <1>1, <1>2, <1>3, <1>4 DEF Next

(* So quadb implements the table of heads.                                 *)
THEOREM HeadsAreOneTable == Spec => HeadSpec
<1>1. AllInit => HeadInit
  BY DEF AllInit
<1>2. IInv /\ CallsOK /\ [Next]_vars => [HeadNext]_headVars
  BY HeadsGoAlong
<1> QED  BY <1>1, <1>2, AlwaysKept, PTL DEF Spec, HeadSpec

(* And the next command, a process of its own, works on the head that the  *)
(* last one left, whatever was done in between.                            *)
THEOREM CommandsWorkOnTheHead == Spec => []NextCommandFindsTheHead
  BY HeadsAreOneTable, CommandsFindTheHead, PTL

---------------------------------------------------------------------------
(* The database as a versioned map                                         *)

(* The change that an entry of the updates comes to.                       *)
Change(T, update) ==
  CASE update.deletion -> Deletion
    [] update.override # Empty -> T[update.override].val
    [] OTHER -> update.val

Changes(T, updates) == [k \in DOMAIN updates |-> Change(T, updates[k])]

(* It is a value, or the deletion it asks for.                             *)
LEMMA ChangeOfEntry ==
  ASSUME NEW T, NodesOK(T), NEW update, Entry(T, update)
  PROVE  /\ update.deletion => Change(T, update) = Deletion
         /\ ~update.deletion => /\ Change(T, update) \in Val /\ Change(T, update) # Deletion
                                /\ Change(T, update) = IF update.override # Empty THEN T[update.override].val
                                                       ELSE update.val
<1>1. CASE update = Delete
  <2>1. update.deletion /\ ~(update.override # Empty)
    BY <1>1 DEF Delete
  <2>2. Change(T, update) = Deletion
    BY <2>1 DEF Change
  <2> QED  BY <2>1, <2>2
<1>2. CASE \E v \in Val : update = Put(v)
  <2>1. PICK v \in Val : update = Put(v)
    BY <1>2
  <2>2. ~update.deletion /\ update.override = Empty /\ update.val = v
    BY <2>1 DEF Put
  <2>3. Change(T, update) = v
    BY <2>2 DEF Change
  <2> QED  BY <2>2, <2>3, DeletionAssumption
<1>3. CASE \E id \in DOMAIN T : IsLeaf(T[id]) /\ update = PutReuse(id)
  <2>1. PICK id \in DOMAIN T : IsLeaf(T[id]) /\ update = PutReuse(id)
    BY <1>3
  <2>2. ~update.deletion /\ update.override = id /\ id # Empty
    BY <2>1 DEF PutReuse, NodesOK
  <2>3. Change(T, update) = T[id].val
    BY <2>2 DEF Change
  <2>4. T[id].type = "Leaf" /\ KindOK(T, id)
    BY <2>1 DEF NodesOK, StoredLeaf
  <2>5. T[id].val \in Val
    BY <2>4 DEF KindOK
  <2> QED  BY <2>2, <2>3, <2>5, DeletionAssumption
<1> QED  BY <1>1, <1>2, <1>3 DEF Entry

(* The map of the tree that putAux returns is the one that was there, with *)
(* the changes.                                                            *)
LEMMA UpdatesPatch ==
  ASSUME NEW T, NodesOK(T), NEW root, TreeOK(T, root), NEW updates, DOMAIN updates \subseteq KeySpace,
         \A k \in DOMAIN updates : Entry(T, updates[k]), NEW U, Extends(U, T), NEW new, NEW output,
         PutTree(T, root, updates, U, new, output)
  PROVE  Contents(U, new) = Abstract!Patched(Contents(T, root), Changes(T, updates))
<1> DEFINE old     == Contents(T, root)
           now     == Contents(U, new)
           changes == Changes(T, updates)
           patched == Abstract!Patched(old, changes)
<1>1. AreContents(T, root, old)
  BY ContentsByLeaf
<1>2. AreContents(U, new, now)
  <2>1. TreeOK(U, new)
    BY DEF PutTree
  <2> QED  BY <2>1, ContentsByLeaf
<1>3. DOMAIN changes = DOMAIN updates /\ \A k \in DOMAIN updates : changes[k] = Change(T, updates[k])
  BY DEF Changes
<1>4. /\ DOMAIN patched = {k \in DOMAIN old : k \notin DOMAIN changes}
                            \cup {k \in DOMAIN changes : changes[k] # Deletion}
      /\ patched = [k \in DOMAIN patched |-> patched[k]]
      /\ \A k \in DOMAIN patched : patched[k] = IF k \in DOMAIN changes /\ changes[k] # Deletion THEN changes[k]
                                                ELSE old[k]
  <2> HIDE DEF old, changes
  <2> QED  BY DEF Abstract!Patched
<1> HIDE DEF old, now, changes, patched
<1>5. \A x \in Leaves(T, root) : U[x] = T[x]
  BY OldTreesStay
<1>6. ASSUME NEW k \in KeySpace, k \notin DOMAIN updates
      PROVE  (k \in DOMAIN now <=> k \in DOMAIN patched) /\ (k \in DOMAIN now => now[k] = patched[k])
  <2>1. For(U, Leaves(U, new), k) = For(T, Leaves(T, root), k)
    BY <1>6 DEF PutTree
  <2>2. k \in DOMAIN now <=> k \in DOMAIN old
    BY <1>1, <1>2, <2>1 DEF AreContents
  <2>3. k \in DOMAIN patched <=> k \in DOMAIN old
    BY <1>3, <1>4, <1>6
  <2>4. ASSUME k \in DOMAIN now
        PROVE  now[k] = patched[k]
    <3>1. PICK x \in For(T, Leaves(T, root), k) : TRUE
      BY <1>1, <2>2, <2>4 DEF AreContents
    <3>2. old[k] = T[x].val /\ now[k] = U[x].val
      BY <1>1, <1>2, <2>1, <3>1 DEF AreContents
    <3>3. x \in Leaves(T, root)
      BY <3>1 DEF For
    <3>4. patched[k] = old[k]
      BY <1>3, <1>4, <1>6, <2>2, <2>3, <2>4
    <3> QED  BY <1>5, <3>2, <3>3, <3>4
  <2> QED  BY <2>2, <2>3, <2>4
<1>7. ASSUME NEW k \in DOMAIN updates
      PROVE  (k \in DOMAIN now <=> k \in DOMAIN patched) /\ (k \in DOMAIN now => now[k] = patched[k])
  <2>1. k \in KeySpace /\ Entry(T, updates[k]) /\ changes[k] = Change(T, updates[k])
    BY <1>3
  <2>2. Settled(T, U, Leaves(T, root), Leaves(U, new), k, updates[k], Empty, output[k])
    BY DEF PutTree
  <2>3. updates[k] # NoEntry
    <3>1. updates[k] \in Update
      BY <2>1, EntryCanBePut
    <3> QED  BY <3>1 DEF Update, NoEntry
  <2>4. CASE updates[k].deletion
    <3>1. changes[k] = Deletion
      BY <2>1, <2>4, ChangeOfEntry
    <3>2. For(U, Leaves(U, new), k) = {}
      BY <2>2, <2>3, <2>4 DEF Settled
    <3>3. k \notin DOMAIN now
      BY <1>2, <2>1, <3>2 DEF AreContents
    <3>4. k \notin DOMAIN patched
      BY <1>3, <1>4, <3>1
    <3> QED  BY <3>3, <3>4
  <2>5. CASE ~updates[k].deletion
    <3>1. PICK y \in Leaves(U, new) :
            /\ For(U, Leaves(U, new), k) = {y}
            /\ IF updates[k].override = Empty THEN U[y].val = updates[k].val ELSE y = updates[k].override
      BY <2>2, <2>3, <2>5 DEF Settled
    <3>2. k \in DOMAIN now /\ now[k] = U[y].val
      BY <1>2, <2>1, <3>1 DEF AreContents
    <3>3. /\ changes[k] # Deletion
          /\ changes[k] = IF updates[k].override # Empty THEN T[updates[k].override].val ELSE updates[k].val
      BY <2>1, <2>5, ChangeOfEntry
    <3>4. updates[k].override # Empty => U[updates[k].override] = T[updates[k].override]
      <4>1. EntryOK(T, updates[k], Leaves(T, root))
        BY <2>1, EntryCanBePut
      <4> QED  BY <4>1 DEF EntryOK, StoredLeaf, Extends
    <3>5. k \in DOMAIN patched /\ patched[k] = changes[k]
      BY <1>3, <1>4, <3>3
    <3> QED  BY <3>1, <3>2, <3>3, <3>4, <3>5
  <2> QED  BY <2>4, <2>5
<1>8. DOMAIN patched \subseteq KeySpace /\ DOMAIN now \subseteq KeySpace
  BY <1>1, <1>2, <1>3, <1>4 DEF AreContents
<1>9. DOMAIN now = DOMAIN patched
  BY <1>6, <1>7, <1>8
<1>10. \A k \in DOMAIN now : now[k] = patched[k]
  BY <1>6, <1>7, <1>8
<1>11. now = [k \in DOMAIN now |-> now[k]]
  BY <1>2 DEF AreContents
<1>12. now = patched
  BY <1>4, <1>9, <1>10, <1>11
<1> QED  BY <1>12 DEF now, patched, old, changes

(* A call of apply() asks the map for changes of records, ...              *)
LEMMA ChangesAsked ==
  ASSUME IInv, NEW updates \in UpdateSets, NEW put, Applied(updates, put)
  PROVE  /\ [k \in DOMAIN last'.updates |-> ChangeOf(last.updates[k])'] = Changes(nodes, updates)
         /\ Changes(nodes, updates) \in Abstract!Maps(Val \cup {Deletion})
<1>1. last'.updates = updates
  BY DEF Applied
<1>2. ASSUME NEW k \in DOMAIN updates
      PROVE  /\ ChangeOf(last.updates[k])' = Change(nodes, updates[k])
             /\ Change(nodes, updates[k]) \in Val \cup {Deletion}
  <2>1. Entry(nodes, updates[k]) /\ NodesOK(nodes) /\ TreeOK(nodes, heads[current])
    BY EntriesOfUpdates DEF IInv, TreesOK
  <2>2. ChangeOf(last.updates[k])' = Change(nodes', updates[k])
    BY <1>1 DEF ChangeOf, Change
  <2>3. updates[k].override # Empty => nodes'[updates[k].override] = nodes[updates[k].override]
    <3>1. EntryOK(nodes, updates[k], Leaves(nodes, heads[current]))
      BY <2>1, EntryCanBePut
    <3>2. Extends(nodes', nodes)
      BY ApplyStores
    <3> QED  BY <3>1, <3>2 DEF EntryOK, StoredLeaf, Extends
  <2>4. Change(nodes', updates[k]) = Change(nodes, updates[k])
    BY <2>3 DEF Change
  <2>5. Change(nodes, updates[k]) \in Val \cup {Deletion}
    BY <2>1, ChangeOfEntry
  <2> QED  BY <2>2, <2>4, <2>5
<1>3. DOMAIN updates \in SUBSET Key
  BY EntriesOfUpdates
<1>4. Changes(nodes, updates) \in [DOMAIN updates -> Val \cup {Deletion}]
  BY <1>2 DEF Changes
<1>5. Changes(nodes, updates) \in Abstract!Maps(Val \cup {Deletion})
  BY <1>3, <1>4 DEF Abstract!Maps
<1>6. [k \in DOMAIN last'.updates |-> ChangeOf(last.updates[k])'] = Changes(nodes, updates)
  BY <1>1, <1>2 DEF Changes
<1> QED  BY <1>5, <1>6

(* ... which the working head gets, all or none, and no other.             *)
LEMMA ContentsAfterApply ==
  ASSUME IInv, NEW updates \in UpdateSets, NEW put, Applied(updates, put), NEW slot \in Slot
  PROVE  ContentsOf(slot)' = IF ~put.thrown /\ slot = current
                             THEN Abstract!Patched(ContentsOf(slot), Changes(nodes, updates))
                             ELSE ContentsOf(slot)
<1>1. NodesOK(nodes) /\ TreeOK(nodes, heads[slot]) /\ current \in Slot /\ Extends(nodes', nodes)
  BY ApplyStores DEF IInv, TreesOK
<1>2. ContentsOf(slot)' = Contents(nodes', heads'[slot])
  BY DEF ContentsOf
<1>3. CASE ~put.thrown /\ slot = current
  <2>1. heads' = [heads EXCEPT ![current] = put.built.id]
    BY <1>3 DEF Applied, SetHead
  <2>2. heads'[slot] = put.built.id
    BY <1>1, <1>3, <2>1 DEF IInv
  <2>3. PutTree(nodes, heads[slot], updates, nodes', put.built.id, put.output)
    BY <1>3 DEF Applied, HasPut
  <2>4. DOMAIN updates \subseteq KeySpace /\ \A k \in DOMAIN updates : Entry(nodes, updates[k])
    BY EntriesOfUpdates, KeyAssumption
  <2>5. Contents(nodes', put.built.id) = Abstract!Patched(Contents(nodes, heads[slot]), Changes(nodes, updates))
    BY <1>1, <2>3, <2>4, UpdatesPatch
  <2> QED  BY <1>2, <1>3, <2>2, <2>5 DEF ContentsOf
<1>4. CASE put.thrown \/ slot # current
  <2>1. heads'[slot] = heads[slot]
    <3>1. CASE put.thrown
      BY <3>1 DEF Applied
    <3>2. CASE ~put.thrown /\ slot # current
      <4>1. heads' = [heads EXCEPT ![current] = put.built.id]
        BY <3>2 DEF Applied, SetHead
      <4> QED  BY <3>2, <4>1 DEF IInv
    <3> QED  BY <1>4, <3>1, <3>2
  <2>2. /\ TreeOK(nodes', heads[slot]) /\ Leaves(nodes', heads[slot]) = Leaves(nodes, heads[slot])
        /\ \A x \in Leaves(nodes, heads[slot]) : nodes'[x] = nodes[x]
    BY <1>1, OldTreesStay
  <2>3. Contents(nodes', heads[slot]) = Contents(nodes, heads[slot])
    BY <1>1, <2>2, SameContents
  <2> QED  BY <1>2, <1>4, <2>1, <2>3 DEF ContentsOf
<1> QED  BY <1>3, <1>4

(* So that it applies them.                                                *)
LEMMA ApplyIsApply ==
  ASSUME IInv, NEW updates \in UpdateSets, Apply(updates)
  PROVE  Abstract!Apply
<1> DEFINE put == PutAll(nodes, heads[current], updates)
<1>1. Applied(updates, put)
  BY ApplyPuts
<1> HIDE DEF put
<1> DEFINE changes == Changes(nodes, updates)
<1>2. /\ [k \in DOMAIN last'.updates |-> ChangeOf(last.updates[k])'] = changes
      /\ changes \in Abstract!Maps(Val \cup {Deletion})
  BY <1>1, ChangesAsked
<1>3. \A slot \in Slot : ContentsOf(slot)' = IF ~put.thrown /\ slot = current
                                             THEN Abstract!Patched(ContentsOf(slot), changes)
                                             ELSE ContentsOf(slot)
  BY <1>1, ContentsAfterApply
<1> HIDE DEF changes
<1>4. (last'.thrown <=> put.thrown) /\ current' = current
  BY <1>1 DEF Applied, SetHead
<1>5. current \in Slot
  BY DEF IInv, TreesOK
<1>6. CASE ~put.thrown
  <2>1. [slot \in Slot |-> ContentsOf(slot)]'
          = [[slot \in Slot |-> ContentsOf(slot)] EXCEPT ![current] = Abstract!Patched(@, changes)]
    BY <1>3, <1>5, <1>6
  <2>2. ~last'.thrown
    BY <1>4, <1>6
  <2> QED  BY <1>2, <1>4, <2>1, <2>2 DEF Abstract!Apply
<1>7. CASE put.thrown
  <2>1. [slot \in Slot |-> ContentsOf(slot)]' = [slot \in Slot |-> ContentsOf(slot)]
    BY <1>3, <1>7
  <2>2. last'.thrown
    BY <1>4, <1>7
  <2> QED  BY <1>2, <1>4, <2>1, <2>2 DEF Abstract!Apply
<1> QED  BY <1>6, <1>7

(* An operation that is no call of apply() makes no request.               *)
LEMMA NoRequestMade ==
  ASSUME last' = NoApply
  PROVE  [changes  |-> [k \in DOMAIN last'.updates |-> ChangeOf(last.updates[k])'],
          accepted |-> ~last'.thrown] = Abstract!NoRequest
<1>1. DOMAIN last'.updates = {} /\ last'.thrown = FALSE
  BY DEF NoApply, NoTable
<1> QED  BY <1>1 DEF Abstract!NoRequest, Abstract!EmptyMap

(* A collection changes no map.                                            *)
LEMMA CollectIsCollect ==
  ASSUME IInv, Collect, UNCHANGED <<heads, current>>
  PROVE  Abstract!Collect
<1>1. last' = NoApply
  BY DEF Collect
<1>2. DOMAIN nodes' = Marked /\ \A x \in Marked : nodes'[x] = nodes[x]
  BY DEF Collect, Marked, Restrict
<1>3. ASSUME NEW slot \in Slot
      PROVE  ContentsOf(slot)' = ContentsOf(slot)
  <2>1. TreesOK
    BY DEF IInv
  <2>2. SameBelow(nodes, nodes', heads[slot])
    BY <1>2, <2>1, TreesAreMarked DEF SameBelow
  <2>3. TreeOK(nodes, heads[slot])
    BY <2>1 DEF TreesOK
  <2>4. TreeOK(nodes', heads[slot])
    <3>1. IInv' /\ heads' = heads
      BY CollectKeeps
    <3> QED  BY <3>1 DEF IInv, TreesOK
  <2>5. Contents(nodes', heads[slot]) = Contents(nodes, heads[slot])
    BY <2>2, <2>3, <2>4, SameLeaves, SameContents
  <2> QED  BY <2>5 DEF ContentsOf
<1> QED  BY <1>1, <1>3, NoRequestMade DEF Abstract!Collect

(* A head that leads nowhere stands for the empty map, and one that moves  *)
(* for the map it moves to.                                                *)
LEMMA MapsMove ==
  ASSUME IInv, NoUpdate
  PROVE  /\ \A slot \in Slot : ContentsOf(slot)' = Contents(nodes, heads'[slot])
         /\ Contents(nodes, NoRoot) = Abstract!EmptyMap
         /\ heads \in [Slot -> Nat] /\ current \in Slot /\ Detached \in Slot /\ HeadName \subseteq Slot
         /\ Abstract!Slot = Slot
<1>1. nodes' = nodes
  BY DEF NoUpdate
<1>2. \A slot \in Slot : ContentsOf(slot)' = Contents(nodes, heads'[slot])
  BY <1>1 DEF ContentsOf
<1>3. Leaves(nodes, Empty) = {}
  BY EmptyIsATree
<1>4. Contents(nodes, NoRoot) = Abstract!EmptyMap
  BY <1>3 DEF Contents, Abstract!EmptyMap, NoRoot, Empty
<1>5. heads \in [Slot -> Nat]
  BY DEF IInv, NodesOK, Empty
<1> QED  BY <1>2, <1>4, <1>5 DEF IInv, TreesOK, Slot, Abstract!Slot

(* A checkout loses the detached head.                                     *)
LEMMA CheckoutIsCheckout ==
  ASSUME IInv, NoUpdate, NEW name \in HeadName, Checkout(name)
  PROVE  Abstract!Checkout(name)
<1>1. heads' = [heads EXCEPT ![Detached] = NoRoot] /\ current' = name /\ name # Detached
  BY HeadAssumption DEF Checkout
<1>2. last' = NoApply
  BY DEF NoUpdate
<1>3. [slot \in Slot |-> ContentsOf(slot)]'
        = [[slot \in Slot |-> ContentsOf(slot)] EXCEPT ![Detached] = Abstract!EmptyMap]
  <2>1. ASSUME NEW slot \in Slot
        PROVE  ContentsOf(slot)' = IF slot = Detached THEN Abstract!EmptyMap ELSE ContentsOf(slot)
    <3>1. heads'[slot] = IF slot = Detached THEN NoRoot ELSE heads[slot]
      BY <1>1, MapsMove
    <3> QED  BY <3>1, MapsMove DEF ContentsOf
  <2> QED  BY <2>1
<1>4. Abstract!Leaving([slot \in Slot |-> ContentsOf(slot)])
        = [[slot \in Slot |-> ContentsOf(slot)] EXCEPT ![Detached] = Abstract!EmptyMap]
  BY <1>1 DEF Abstract!Leaving
<1> QED  BY <1>1, <1>2, <1>3, <1>4, NoRequestMade DEF Abstract!Checkout

(* A head is removed by leading it nowhere.                                *)
LEMMA RemovalIsRemoval ==
  ASSUME IInv, NoUpdate, NEW name \in HeadName, RemoveHead(name)
  PROVE  Abstract!RemoveHead(name)
<1>1. heads' = [heads EXCEPT ![name] = NoRoot] /\ current' = current
  BY DEF RemoveHead
<1>2. last' = NoApply
  BY DEF NoUpdate
<1>3. ASSUME NEW slot \in Slot
      PROVE  ContentsOf(slot)' = IF slot = name THEN Abstract!EmptyMap ELSE ContentsOf(slot)
  <2>1. heads'[slot] = IF slot = name THEN NoRoot ELSE heads[slot]
    BY <1>1, MapsMove
  <2> QED  BY <2>1, MapsMove DEF ContentsOf
<1>4. [slot \in Slot |-> ContentsOf(slot)]'
        = [[slot \in Slot |-> ContentsOf(slot)] EXCEPT ![name] = Abstract!EmptyMap]
  BY <1>3
<1> QED  BY <1>1, <1>2, <1>4, NoRequestMade DEF Abstract!RemoveHead

(* A head that is detached anew starts empty.                              *)
LEMMA DetachingIsDetaching ==
  ASSUME IInv, NoUpdate, CheckoutNode(NoRoot)
  PROVE  Abstract!Detach(Abstract!EmptyMap)
<1>1. heads' = [heads EXCEPT ![Detached] = NoRoot] /\ current' = Detached
  BY DEF CheckoutNode
<1>2. last' = NoApply
  BY DEF NoUpdate
<1>3. ASSUME NEW slot \in Slot
      PROVE  ContentsOf(slot)' = IF slot = Detached THEN Abstract!EmptyMap ELSE ContentsOf(slot)
  <2>1. heads'[slot] = IF slot = Detached THEN NoRoot ELSE heads[slot]
    BY <1>1, MapsMove
  <2> QED  BY <2>1, MapsMove DEF ContentsOf
<1>4. [slot \in Slot |-> ContentsOf(slot)]'
        = [[slot \in Slot |-> ContentsOf(slot)] EXCEPT ![Detached] = Abstract!EmptyMap]
  BY <1>3
<1> QED  BY <1>1, <1>2, <1>4, NoRequestMade DEF Abstract!Detach

(* A fork is a version of the head it is from, and the working one.        *)
LEMMA ForkIsFork ==
  ASSUME IInv, NoUpdate, NEW from \in Slot, NEW slot \in Slot, Fork(from, slot)
  PROVE  Abstract!Fork(from, slot)
<1> DEFINE maps   == [s \in Slot |-> ContentsOf(s)]
           forked == [maps EXCEPT ![slot] = maps[from]]
<1>1. heads' = [heads EXCEPT ![Detached] = NoRoot, ![slot] = heads[from]] /\ current' = slot
  BY DEF Fork
<1>2. last' = NoApply
  BY DEF NoUpdate
<1>3. ASSUME NEW s \in Slot
      PROVE  ContentsOf(s)' = IF s = slot THEN ContentsOf(from)
                              ELSE IF s = Detached THEN Abstract!EmptyMap ELSE ContentsOf(s)
  <2>1. heads'[s] = IF s = slot THEN heads[from] ELSE IF s = Detached THEN NoRoot ELSE heads[s]
    BY <1>1, MapsMove
  <2> QED  BY <2>1, MapsMove DEF ContentsOf
<1>4. CASE slot = Detached
  <2>1. maps' = forked
    BY <1>3, <1>4
  <2>2. Abstract!Leaving(forked) = forked
    BY <1>1, <1>4 DEF Abstract!Leaving
  <2> QED  BY <1>1, <1>2, <2>1, <2>2, NoRequestMade DEF Abstract!Fork
<1>5. CASE slot # Detached
  <2>1. maps' = [forked EXCEPT ![Detached] = Abstract!EmptyMap]
    BY <1>3, <1>5, MapsMove
  <2>2. Abstract!Leaving(forked) = [forked EXCEPT ![Detached] = Abstract!EmptyMap]
    BY <1>1, <1>5 DEF Abstract!Leaving
  <2> QED  BY <1>1, <1>2, <2>1, <2>2, NoRequestMade DEF Abstract!Fork
<1> QED  BY <1>4, <1>5

(* Every step of quadb, or of a program beside it, is one of the map.      *)
LEMMA StepsAreSteps ==
  ASSUME IInv, Next
  PROVE  Abstract!Next
<1>1. CASE \E updates \in UpdateSets : Edit(updates) \/ ProgramEdits(updates)
  <2>1. PICK updates \in UpdateSets : Apply(updates)
    BY <1>1 DEF Edit, ProgramEdits
  <2>2. Abstract!Apply
    BY <2>1, ApplyIsApply
  <2> QED  BY <2>2 DEF Abstract!Next
<1>2. CASE Gc
  <2>1. Abstract!Collect
    BY <1>2, CollectIsCollect DEF Gc, KeepHeads
  <2> QED  BY <2>1 DEF Abstract!Next
<1>3. CASE \E name \in HeadName : NoUpdate /\ (CheckoutHead(name) \/ HeadRm(name))
  <2>1. PICK name \in HeadName : NoUpdate /\ (CheckoutHead(name) \/ HeadRm(name))
    BY <1>3
  <2>2. Abstract!Checkout(name) \/ Abstract!RemoveHead(name)
    BY <2>1, CheckoutIsCheckout, RemovalIsRemoval DEF CheckoutHead, HeadRm
  <2> QED  BY <2>2 DEF Abstract!Next
<1>4. CASE NoUpdate /\ HeadRmCurrent
  <2>1. CASE current = Detached
    <3>1. Abstract!Detach(Abstract!EmptyMap)
      BY <1>4, <2>1, DetachingIsDetaching DEF HeadRmCurrent
    <3> QED  BY <3>1 DEF Abstract!Next
  <2>2. CASE current # Detached
    <3>1. current \in HeadName
      BY <2>2 DEF IInv, TreesOK, Slot
    <3>2. Abstract!RemoveHead(current)
      BY <1>4, <2>2, <3>1, RemovalIsRemoval DEF HeadRmCurrent
    <3> QED  BY <3>1, <3>2 DEF Abstract!Next
  <2> QED  BY <2>1, <2>2
<1>5. CASE NoUpdate /\ CheckoutEmpty
  <2>1. Abstract!Detach(Abstract!EmptyMap)
    BY <1>5, DetachingIsDetaching DEF CheckoutEmpty
  <2> QED  BY <2>1 DEF Abstract!Next
<1>6. CASE \E from \in HeadName \cup {current}, slot \in Slot : NoUpdate /\ ForkHead(from, slot)
  <2>1. PICK from \in HeadName \cup {current}, slot \in Slot : NoUpdate /\ ForkHead(from, slot)
    BY <1>6
  <2>2. from \in Slot
    BY <2>1 DEF IInv, TreesOK, Slot
  <2>3. Abstract!Fork(from, slot)
    BY <2>1, <2>2, ForkIsFork DEF ForkHead
  <2>4. Abstract!Slot = Slot
    BY DEF Slot, Abstract!Slot
  <2> QED  BY <2>2, <2>3, <2>4 DEF Abstract!Next
<1> QED  BY <1>1, <1>2, <1>3, <1>4, <1>5, <1>6 DEF Next

(* The database is a versioned map: whatever trees it is made of, the      *)
(* heads are maps from keys to values that change as those do, one of them *)
(* at a time, by all of a set of updates or by none.                       *)
THEOREM DatabaseIsAVersionedMap == Spec => IsVersionedMap
<1>1. AllInit => Abstract!Init
  <2> SUFFICES ASSUME AllInit
               PROVE  Abstract!Init
    OBVIOUS
  <2>1. \A slot \in Slot : heads[slot] = Empty
    BY DEF AllInit, HeadInit, Empty, NoRoot
  <2>2. Contents(nodes, Empty) = Abstract!EmptyMap
    <3>1. Leaves(nodes, Empty) = {}
      BY EmptyIsATree
    <3> QED  BY <3>1 DEF Contents, Abstract!EmptyMap
  <2>3. [slot \in Slot |-> ContentsOf(slot)] = [slot \in Abstract!Slot |-> Abstract!EmptyMap]
    BY <2>1, <2>2 DEF ContentsOf, Slot, Abstract!Slot
  <2>4. current = DefaultHead
    BY DEF AllInit, HeadInit
  <2>5. DOMAIN last.updates = {} /\ last.thrown = FALSE
    BY DEF AllInit, Init, NoApply, NoTable
  <2>6. [changes  |-> [k \in DOMAIN last.updates |-> ChangeOf(last.updates[k])],
         accepted |-> ~last.thrown] = Abstract!NoRequest
    BY <2>5 DEF Abstract!NoRequest, Abstract!EmptyMap
  <2> QED  BY <2>3, <2>4, <2>6 DEF Abstract!Init
<1>2. (IInv /\ CallsOK) /\ Next => Abstract!Next
  BY StepsAreSteps
<1>3. UNCHANGED vars => UNCHANGED <<[slot \in Slot |-> ContentsOf(slot)], current,
                                    [changes  |-> [k \in DOMAIN last.updates |-> ChangeOf(last.updates[k])],
                                     accepted |-> ~last.thrown]>>
  BY DEF vars, headVars, ContentsOf, ChangeOf
<1>4. IInv /\ CallsOK /\ [Next]_vars
        => [Abstract!Next]_<<[slot \in Slot |-> ContentsOf(slot)], current,
                             [changes  |-> [k \in DOMAIN last.updates |-> ChangeOf(last.updates[k])],
                              accepted |-> ~last.thrown]>>
  BY <1>2, <1>3
<1> QED  BY <1>1, <1>4, AlwaysKept, PTL DEF Spec, IsVersionedMap, Abstract!Spec
=============================================================================

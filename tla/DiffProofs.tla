----------------------------- MODULE DiffProofs -----------------------------
(***************************************************************************)
(* What diff() lists, for any two trees of any depth: the pairs of nodes   *)
(* that diffAux comes to are at one level of both trees, under the same    *)
(* bits, so that the records of one that the other lacks are found there.  *)
(* Applied as a patch, the last line for a key has the record to be put,   *)
(* and the tree it leads to is the other one, as equal records have equal  *)
(* hashes.                                                                 *)
(***************************************************************************)
EXTENDS TreeDiff, TreeProofs

Line == {Entry(ParsedNode(nodes, id), deletion) : id \in NodeId, deletion \in BOOLEAN}

LinesOf(list) == {list[i] : i \in DOMAIN list}

(* One list after another has the lines of both.                           *)
LEMMA LinesOfBoth ==
  ASSUME NEW S, NEW s \in Seq(S), NEW t \in Seq(S)
  PROVE  s \o t \in Seq(S) /\ LinesOf(s \o t) = LinesOf(s) \cup LinesOf(t)
<1>1. s \o t \in Seq(S) /\ DOMAIN (s \o t) = 1 .. Len(s) + Len(t)
  OBVIOUS
<1>2. /\ DOMAIN s = 1 .. Len(s) /\ DOMAIN t = 1 .. Len(t)
      /\ \A i \in 1 .. Len(s) : (s \o t)[i] = s[i]
      /\ \A i \in 1 .. Len(t) : (s \o t)[Len(s) + i] = t[i]
      /\ Len(s) \in Nat /\ Len(t) \in Nat
  OBVIOUS
<1>3. ASSUME NEW i \in 1 .. Len(s) + Len(t)
      PROVE  (s \o t)[i] \in LinesOf(s) \cup LinesOf(t)
  <2>1. CASE i \in 1 .. Len(s)
    BY <1>2, <2>1 DEF LinesOf
  <2>2. CASE i \notin 1 .. Len(s)
    <3>1. PICK j \in 1 .. Len(t) : Len(s) + j = i
      <4>1. i - Len(s) \in 1 .. Len(t) /\ Len(s) + (i - Len(s)) = i
        BY <1>2, <2>2
      <4> QED  BY <4>1
    <3> QED  BY <1>2, <3>1 DEF LinesOf
  <2> QED  BY <2>1, <2>2
<1>4. ASSUME NEW i \in 1 .. Len(s)
      PROVE  s[i] \in LinesOf(s \o t)
  <2>1. i \in 1 .. Len(s) + Len(t) /\ (s \o t)[i] = s[i]
    BY <1>2
  <2> QED  BY <1>1, <2>1 DEF LinesOf
<1>5. ASSUME NEW i \in 1 .. Len(t)
      PROVE  t[i] \in LinesOf(s \o t)
  <2>1. Len(s) + i \in 1 .. Len(s) + Len(t) /\ (s \o t)[Len(s) + i] = t[i]
    BY <1>2
  <2> QED  BY <1>1, <2>1 DEF LinesOf
<1>6. LinesOf(s \o t) = LinesOf(s) \cup LinesOf(t)
  <2>1. LinesOf(s \o t) \subseteq LinesOf(s) \cup LinesOf(t)
    BY <1>1, <1>3 DEF LinesOf
  <2>2. LinesOf(s) \subseteq LinesOf(s \o t) /\ LinesOf(t) \subseteq LinesOf(s \o t)
    BY <1>2, <1>4, <1>5 DEF LinesOf
  <2> QED  BY <2>1, <2>2
<1> QED  BY <1>1, <1>6

(* A list of one line.                                                     *)
LEMMA OneLine ==
  ASSUME NEW S, NEW x \in S
  PROVE  <<x>> \in Seq(S) /\ LinesOf(<<x>>) = {x}
<1>1. <<x>> \in Seq(S)
  OBVIOUS
<1>2. DOMAIN <<x>> = {1} /\ <<x>>[1] = x
  <2>1. Len(<<x>>) = 1 /\ <<x>>[1] = x
    OBVIOUS
  <2>2. DOMAIN <<x>> = 1 .. Len(<<x>>)
    BY <1>1
  <2> QED  BY <2>1, <2>2
<1> DEFINE list == <<x>>
<1>3. DOMAIN list = {1} /\ list[1] = x
  BY <1>2
<1> HIDE DEF list
<1>4. LinesOf(list) = {x}
  BY <1>3 DEF LinesOf
<1> QED  BY <1>1, <1>4 DEF list

(* Lists of none or two lines.                                             *)
LEMMA NoLines ==
  ASSUME NEW S
  PROVE  <<>> \in Seq(S) /\ LinesOf(<<>>) = {}
BY DEF LinesOf

(* The same, of two.                                                       *)
LEMMA TwoLines ==
  ASSUME NEW S, NEW x \in S, NEW y \in S
  PROVE  <<x>> \o <<y>> \in Seq(S) /\ LinesOf(<<x>> \o <<y>>) = {x, y}
<1>1. /\ <<x>> \in Seq(S) /\ LinesOf(<<x>>) = {x}
      /\ <<y>> \in Seq(S) /\ LinesOf(<<y>>) = {y}
  BY OneLine
<1>2. {x} \cup {y} = {x, y}
  OBVIOUS
<1> DEFINE s == <<x>>  t == <<y>>
<1>3. s \in Seq(S) /\ t \in Seq(S)
  BY <1>1
<1> HIDE DEF s, t
<1>4. s \o t \in Seq(S) /\ LinesOf(s \o t) = LinesOf(s) \cup LinesOf(t)
  BY <1>3, LinesOfBoth
<1> QED  BY <1>1, <1>2, <1>4 DEF s, t

(* A deletion of some key is not the last word on it.                      *)
Followed(list, keys) ==
  \A i \in DOMAIN list : list[i].deletion /\ list[i].key \in keys =>
    \E j \in DOMAIN list : i < j /\ ~list[j].deletion /\ list[j].key = list[i].key

(* One list after another is in order when both are.                       *)
LEMMA BothFollowed ==
  ASSUME NEW S, NEW s \in Seq(S), NEW t \in Seq(S), NEW keys, Followed(s, keys), Followed(t, keys)
  PROVE  Followed(s \o t, keys)
<1>1. /\ DOMAIN (s \o t) = 1 .. Len(s) + Len(t)
      /\ DOMAIN s = 1 .. Len(s) /\ DOMAIN t = 1 .. Len(t)
      /\ \A i \in 1 .. Len(s) : (s \o t)[i] = s[i]
      /\ \A i \in 1 .. Len(t) : (s \o t)[Len(s) + i] = t[i]
      /\ Len(s) \in Nat /\ Len(t) \in Nat
  OBVIOUS
<1> DEFINE both == s \o t
<1> SUFFICES ASSUME NEW i \in DOMAIN both, both[i].deletion, both[i].key \in keys
             PROVE  \E j \in DOMAIN both : i < j /\ ~both[j].deletion /\ both[j].key = both[i].key
  BY DEF Followed
<1>2. /\ DOMAIN both = 1 .. Len(s) + Len(t)
      /\ \A x \in 1 .. Len(s) : both[x] = s[x]
      /\ \A x \in 1 .. Len(t) : both[Len(s) + x] = t[x]
  BY <1>1
<1> HIDE DEF both
<1>3. CASE i \in 1 .. Len(s)
  <2>1. both[i] = s[i]
    BY <1>2, <1>3
  <2>2. PICK j \in DOMAIN s : i < j /\ ~s[j].deletion /\ s[j].key = s[i].key
    BY <1>1, <1>3, <2>1 DEF Followed
  <2>3. j \in DOMAIN both /\ both[j] = s[j]
    BY <1>1, <1>2, <2>2
  <2> QED  BY <2>1, <2>2, <2>3
<1>4. CASE i \notin 1 .. Len(s)
  <2>1. PICK x \in 1 .. Len(t) : i = Len(s) + x
    <3>1. i - Len(s) \in 1 .. Len(t) /\ i = Len(s) + (i - Len(s))
      BY <1>1, <1>2, <1>4
    <3> QED  BY <3>1
  <2>2. both[i] = t[x]
    BY <1>2, <2>1
  <2>3. PICK y \in DOMAIN t : x < y /\ ~t[y].deletion /\ t[y].key = t[x].key
    BY <1>1, <2>1, <2>2 DEF Followed
  <2>4. y \in 1 .. Len(t) /\ Len(s) + y \in DOMAIN both /\ both[Len(s) + y] = t[y] /\ i < Len(s) + y
    BY <1>1, <1>2, <2>1, <2>3
  <2> QED  BY <2>2, <2>3, <2>4
<1> QED  BY <1>3, <1>4

(* Lists that delete none of the keys, and one that goes on to add what it *)
(* has deleted.                                                            *)
LEMMA NoneDeleted ==
  ASSUME NEW list, NEW keys, \A line \in LinesOf(list) : ~(line.deletion /\ line.key \in keys)
  PROVE  Followed(list, keys)
BY DEF Followed, LinesOf

(* The second kind.                                                        *)
LEMMA DeletedAndAdded ==
  ASSUME NEW S, NEW x \in S, NEW y \in S, ~y.deletion, y.key = x.key, NEW keys
  PROVE  Followed(<<x>> \o <<y>>, keys)
<1> DEFINE list == <<x>> \o <<y>>
<1>1. Len(list) = 2 /\ list[1] = x /\ list[2] = y /\ DOMAIN list = 1 .. 2
  OBVIOUS
<1> HIDE DEF list
<1>2. Followed(list, keys)
  <2> SUFFICES ASSUME NEW i \in DOMAIN list, list[i].deletion
               PROVE  \E j \in DOMAIN list : i < j /\ ~list[j].deletion /\ list[j].key = list[i].key
    BY DEF Followed
  <2>1. i = 1
    BY <1>1
  <2>2. 2 \in DOMAIN list /\ i < 2
    BY <1>1, <2>1
  <2> QED  BY <1>1, <2>1, <2>2
<1> QED  BY <1>2 DEF list

---------------------------------------------------------------------------
(* diffWalk                                                                *)

Walking == INSTANCE Recursion WITH First <- LAMBDA lines : [x \in NodeId |-> <<>>],
                                   Step  <- LAMBDA lines, n, below : WalkTree(lines, below)

Walked(lines, n, id) == Walking!Recursive(lines)[n][id]

(* One call of walkTree.                                                   *)
LEMMA WalkFollows ==
  ASSUME NEW lines, NEW n \in Nat, NEW id \in NodeId
  PROVE  /\ DiffWalk(id, lines) = Walked(lines, Depth + 1, id)
         /\ Walked(lines, n + 1, id) =
              LET node == ParsedNode(nodes, id) IN
              IF IsLeaf(node) THEN lines[id]
              ELSE IF IsBranch(node) THEN Walked(lines, n, node.left) \o Walked(lines, n, node.right)
              ELSE <<>>
<1>1. DiffWalk(id, lines) = Walked(lines, Depth + 1, id)
  BY DEF DiffWalk, Walked, Walking!Recursive
<1>2. Walking!Recursive(lines)[n + 1] = WalkTree(lines, Walking!Recursive(lines)[n])
  BY Walking!RecursionFollows
<1> QED  BY <1>1, <1>2 DEF WalkTree, Walked

(* The callback is called for the leaves below the node, and for no others.*)
LEMMA WalkListsTheLeaves ==
  ASSUME NEW root, WellFormed(nodes, root), NEW d \in 0 .. Depth, NEW id \in Subtrees(nodes, root, d),
         NEW lines, NEW keys,
         \A leaf \in Leaves(nodes, id) : lines[leaf] \in Seq(Line) /\ Followed(lines[leaf], keys)
  PROVE  /\ DiffWalk(id, lines) \in Seq(Line) /\ Followed(DiffWalk(id, lines), keys)
         /\ LinesOf(DiffWalk(id, lines)) = UNION {LinesOf(lines[leaf]) : leaf \in Leaves(nodes, id)}
<1> DEFINE Ordered(leaf) == lines[leaf] \in Seq(Line) /\ Followed(lines[leaf], keys)
           Listed(n, x) == /\ Walked(lines, n, x) \in Seq(Line) /\ Followed(Walked(lines, n, x), keys)
                           /\ LinesOf(Walked(lines, n, x)) = UNION {LinesOf(lines[leaf]) : leaf \in Leaves(nodes, x)}
           All(e, x) == (\A leaf \in Leaves(nodes, x) : Ordered(leaf)) =>
                          \A n \in Nat : e + n > Depth => Listed(n, x)
           good == {pair \in Nat \X NodeId : All(pair[1], pair[2])}
<1>0. Depth \in Nat
  BY DepthAssumption
<1>1. ASSUME NEW e \in 0 .. Depth, NEW x \in Subtrees(nodes, root, e)
      PROVE  e \in Nat /\ x \in NodeId
  BY <1>0, SubtreesAreStored DEF NodeId
<1>2. ASSUME NEW e \in 0 .. Depth, NEW x \in Subtrees(nodes, root, e), ~IsBranch(ParsedNode(nodes, x))
      PROVE  <<e, x>> \in good
  <2> SUFFICES ASSUME \A leaf \in Leaves(nodes, x) : Ordered(leaf),
                      NEW n \in Nat, e + n > Depth
               PROVE  Listed(n, x)
    BY <1>1
  <2>1. PICK m \in Nat : n = m + 1
    <3>1. n - 1 \in Nat /\ n = (n - 1) + 1
      BY <1>0
    <3> QED  BY <3>1
  <2>2. CASE x = Empty
    <3>1. Leaves(nodes, x) = {} /\ ~IsLeaf(ParsedNode(nodes, x))
      BY <1>2, <2>2, KindsOfSubtrees
    <3>2. Walked(lines, n, x) = <<>>
      BY <1>1, <1>2, <2>1, <3>1, WalkFollows
    <3>3. <<>> \in Seq(Line) /\ LinesOf(<<>>) = {} /\ Followed(<<>>, keys)
      BY NoLines DEF Followed
    <3> QED  BY <3>1, <3>2, <3>3
  <2>3. CASE x # Empty
    <3>1. Leaves(nodes, x) = {x} /\ IsLeaf(ParsedNode(nodes, x))
      BY <1>2, <2>3, KindsOfSubtrees
    <3>2. Walked(lines, n, x) = lines[x]
      BY <1>1, <2>1, <3>1, WalkFollows
    <3> QED  BY <3>1, <3>2
  <2> QED  BY <2>2, <2>3
<1>3. ASSUME NEW e \in 0 .. Depth - 1, NEW x \in Subtrees(nodes, root, e), IsBranch(ParsedNode(nodes, x)),
             <<e + 1, nodes[x].left>> \in good, <<e + 1, nodes[x].right>> \in good
      PROVE  <<e, x>> \in good
  <2>0. e \in 0 .. Depth
    BY <1>0
  <2> SUFFICES ASSUME \A leaf \in Leaves(nodes, x) : Ordered(leaf),
                      NEW n \in Nat, e + n > Depth
               PROVE  Listed(n, x)
    BY <1>1, <2>0
  <2> DEFINE l == nodes[x].left
             r == nodes[x].right
  <2>1. PICK m \in Nat : n = m + 1 /\ (e + 1) + m > Depth
    <3>1. n - 1 \in Nat /\ n = (n - 1) + 1 /\ (e + 1) + (n - 1) > Depth
      BY <1>0
    <3> QED  BY <3>1
  <2>2. /\ ParsedNode(nodes, x) = nodes[x] /\ ~IsLeaf(nodes[x])
        /\ Leaves(nodes, x) = Leaves(nodes, l) \cup Leaves(nodes, r)
    BY <1>3, <2>0, KindsOfSubtrees
  <2>3. All(e + 1, l) /\ All(e + 1, r)
    BY <1>3
  <2>4. Listed(m, l) /\ Listed(m, r)
    BY <2>1, <2>2, <2>3
  <2>5. Walked(lines, n, x) = Walked(lines, m, l) \o Walked(lines, m, r)
    BY <1>1, <1>3, <2>0, <2>1, <2>2, WalkFollows
  <2> HIDE DEF good, l, r
  <2>6. /\ Walked(lines, n, x) \in Seq(Line) /\ Followed(Walked(lines, n, x), keys)
        /\ LinesOf(Walked(lines, n, x)) = LinesOf(Walked(lines, m, l)) \cup LinesOf(Walked(lines, m, r))
    <3> DEFINE s == Walked(lines, m, l)
               t == Walked(lines, m, r)
    <3>1. s \in Seq(Line) /\ t \in Seq(Line) /\ Followed(s, keys) /\ Followed(t, keys)
      BY <2>4
    <3> HIDE DEF s, t
    <3>2. s \o t \in Seq(Line) /\ LinesOf(s \o t) = LinesOf(s) \cup LinesOf(t)
      BY <3>1, LinesOfBoth
    <3>3. Followed(s \o t, keys)
      BY <3>1, BothFollowed
    <3> QED  BY <2>5, <3>2, <3>3 DEF s, t
  <2> QED  BY <2>2, <2>4, <2>6
<1>4. <<d, id>> \in good
  <2> HIDE DEF good
  <2> QED  BY <1>2, <1>3, SubtreeInduction
<1>5. Depth + 1 \in Nat /\ d + (Depth + 1) > Depth /\ id \in NodeId
  BY <1>0, <1>1
<1>6. Listed(Depth + 1, id)
  BY <1>4, <1>5
<1>7. DiffWalk(id, lines) = Walked(lines, Depth + 1, id)
  BY <1>5, WalkFollows
<1> QED  BY <1>6, <1>7

---------------------------------------------------------------------------
(* diffAux                                                                 *)

Diffing == INSTANCE Recursion WITH First <- LAMBDA p : [pair \in NodeId \X NodeId |-> <<>>],
                                   Step  <- LAMBDA p, n, below : DiffAux(below)

DiffAt(n, a, b) == Diffing!Recursive(0)[n][<<a, b>>]

(* One call of diffAux.                                                    *)
LEMMA DiffFollows ==
  ASSUME NEW n \in Nat, NEW a \in NodeId, NEW b \in NodeId
  PROVE  /\ Diff = Diffing!Recursive(0)[Depth + 1][<<from, to>>]
         /\ DiffAt(n + 1, a, b) =
              LET nodeA == ParsedNode(nodes, a)
                  nodeB == ParsedNode(nodes, b)
              IN  IF a = b \/ nodeA.hash = nodeB.hash THEN <<>>
                  ELSE IF IsBranch(nodeA) /\ IsBranch(nodeB)
                       THEN DiffAt(n, nodeA.left, nodeB.left) \o DiffAt(n, nodeA.right, nodeB.right)
                  ELSE IF IsBranch(nodeB) THEN ToBranch(nodeA, b)
                  ELSE IF IsBranch(nodeA) THEN FromBranch(a, nodeB)
                  ELSE OfLeaves(nodeA, nodeB)
<1>1. Diff = Diffing!Recursive(0)[Depth + 1][<<from, to>>]
  BY DEF Diff, Diffing!Recursive
<1>2. Diffing!Recursive(0)[n + 1] = DiffAux(Diffing!Recursive(0)[n])
  BY Diffing!RecursionFollows
<1> DEFINE f == Diffing!Recursive(0)[n]  g == Diffing!Recursive(0)[n + 1]
<1>3. g = DiffAux(f)
  BY <1>2
<1> HIDE DEF f, g
<1>4. g[<<a, b>>] =
        LET nodeA == ParsedNode(nodes, a)
            nodeB == ParsedNode(nodes, b)
        IN  IF a = b \/ nodeA.hash = nodeB.hash THEN <<>>
            ELSE IF IsBranch(nodeA) /\ IsBranch(nodeB)
                 THEN f[<<nodeA.left, nodeB.left>>] \o f[<<nodeA.right, nodeB.right>>]
            ELSE IF IsBranch(nodeB) THEN ToBranch(nodeA, b)
            ELSE IF IsBranch(nodeA) THEN FromBranch(a, nodeB)
            ELSE OfLeaves(nodeA, nodeB)
  BY <1>3 DEF DiffAux
<1> QED  BY <1>1, <1>4 DEF DiffAt, f, g

---------------------------------------------------------------------------
(* What a list owes to the subtrees it is the difference of                *)

KeysOfRecords(records) == {pair[1] : pair \in records}

ChangedKeys(old, new) == KeysOfRecords((old \ new) \cup (new \ old))

KeysIn(list) == {line.key : line \in LinesOf(list)}

Proper(line, old, new) ==
  <<line.key, line.val>> \in IF line.deletion THEN old ELSE new

(* The lines of a list name the keys whose records differ, and are what    *)
(* they should be unless the key has collapsed; the last one for a key of  *)
(* the new records is an insertion.                                        *)
Tells(list, old, new) ==
  /\ list \in Seq(Line) /\ Followed(list, KeysOfRecords(new))
  /\ KeysIn(list) = ChangedKeys(old, new)
  /\ \A line \in LinesOf(list) : Proper(line, old, new) \/ Collapsed(line.key)

(* The keys of some records.                                               *)
LEMMA KeysOfSomeRecords ==
  ASSUME NEW k, NEW v, NEW s, NEW t
  PROVE  /\ KeysOfRecords({}) = {}
         /\ KeysOfRecords({<<k, v>>}) = {k}
         /\ KeysOfRecords(s \cup t) = KeysOfRecords(s) \cup KeysOfRecords(t)
<1>1. KeysOfRecords({}) = {} /\ KeysOfRecords(s \cup t) = KeysOfRecords(s) \cup KeysOfRecords(t)
  BY DEF KeysOfRecords
<1>2. KeysOfRecords({<<k, v>>}) = {k}
  <2>1. <<k, v>>[1] = k
    OBVIOUS
  <2> DEFINE pair == <<k, v>>
  <2>2. pair[1] = k
    BY <2>1
  <2> HIDE DEF pair
  <2>3. KeysOfRecords({pair}) = {k}
    BY <2>2 DEF KeysOfRecords
  <2> QED  BY <2>3 DEF pair
<1> QED  BY <1>1, <1>2

(* The entry of a stored node is a line, and has its record.               *)
LEMMA Entries ==
  ASSUME NEW id \in NodeId, NEW deletion \in BOOLEAN
  PROVE  LET node == ParsedNode(nodes, id) line == Entry(node, deletion) IN
         /\ line \in Line
         /\ line.key = node.key /\ line.val = node.val /\ line.deletion = deletion
BY DEF Entry, Line

(* Nothing is listed when nothing has changed.                             *)
LEMMA NothingToTell ==
  ASSUME NEW records
  PROVE  Tells(<<>>, records, records)
<1>1. <<>> \in Seq(Line) /\ LinesOf(<<>>) = {} /\ Followed(<<>>, KeysOfRecords(records))
  BY NoLines DEF Followed
<1> DEFINE list == <<>>
<1>2. list \in Seq(Line) /\ LinesOf(list) = {} /\ Followed(list, KeysOfRecords(records))
  BY <1>1
<1> HIDE DEF list
<1>3. Tells(list, records, records)
  BY <1>2 DEF Tells, KeysIn, ChangedKeys, KeysOfRecords
<1> QED  BY <1>3 DEF list

(* Subtrees that have no key in common with each other's sides are told of *)
(* one side after the other.                                               *)
LEMMA SidesAreToldApart ==
  ASSUME NEW s, NEW t, NEW oldLeft, NEW oldRight, NEW newLeft, NEW newRight,
         KeysOfRecords(oldLeft \cup newLeft) \cap KeysOfRecords(oldRight \cup newRight) = {},
         Tells(s, oldLeft, newLeft), Tells(t, oldRight, newRight)
  PROVE  Tells(s \o t, oldLeft \cup oldRight, newLeft \cup newRight)
<1> DEFINE old == oldLeft \cup oldRight
           new == newLeft \cup newRight
<1>1. s \in Seq(Line) /\ t \in Seq(Line)
  BY DEF Tells
<1>2. s \o t \in Seq(Line) /\ LinesOf(s \o t) = LinesOf(s) \cup LinesOf(t)
  BY <1>1, LinesOfBoth
<1>0. oldLeft \cap newRight = {} /\ oldRight \cap newLeft = {}
  BY DEF KeysOfRecords
<1>3. KeysIn(s \o t) = KeysIn(s) \cup KeysIn(t)
  BY <1>2 DEF KeysIn
<1>4. (old \ new) \cup (new \ old) =
        ((oldLeft \ newLeft) \cup (newLeft \ oldLeft)) \cup ((oldRight \ newRight) \cup (newRight \ oldRight))
  BY <1>0
<1>5. ChangedKeys(old, new) = ChangedKeys(oldLeft, newLeft) \cup ChangedKeys(oldRight, newRight)
  <2> DEFINE l == (oldLeft \ newLeft) \cup (newLeft \ oldLeft)
             r == (oldRight \ newRight) \cup (newRight \ oldRight)
             b == (old \ new) \cup (new \ old)
  <2>1. b = l \cup r
    BY <1>4
  <2> HIDE DEF l, r, b
  <2>2. KeysOfRecords(b) = KeysOfRecords(l) \cup KeysOfRecords(r)
    BY <2>1, KeysOfSomeRecords
  <2> QED  BY <2>2 DEF ChangedKeys, l, r, b
<1>6. KeysIn(s \o t) = ChangedKeys(old, new)
  BY <1>3, <1>5 DEF Tells
<1>7. ASSUME NEW line \in LinesOf(s \o t)
      PROVE  Proper(line, old, new) \/ Collapsed(line.key)
  BY <1>2 DEF Tells, Proper
<1>8. Followed(s \o t, KeysOfRecords(new))
  <2>1. KeysOfRecords(new) = KeysOfRecords(newLeft) \cup KeysOfRecords(newRight)
    BY KeysOfSomeRecords
  <2>2. ASSUME NEW i \in DOMAIN s
        PROVE  s[i].key \in KeysOfRecords(oldLeft \cup newLeft)
    <3>1. s[i].key \in ChangedKeys(oldLeft, newLeft)
      BY DEF Tells, KeysIn, LinesOf
    <3> QED  BY <3>1 DEF ChangedKeys, KeysOfRecords
  <2>3. ASSUME NEW i \in DOMAIN t
        PROVE  t[i].key \in KeysOfRecords(oldRight \cup newRight)
    <3>1. t[i].key \in ChangedKeys(oldRight, newRight)
      BY DEF Tells, KeysIn, LinesOf
    <3> QED  BY <3>1 DEF ChangedKeys, KeysOfRecords
  <2>4. /\ KeysOfRecords(newLeft) \subseteq KeysOfRecords(oldLeft \cup newLeft)
        /\ KeysOfRecords(newRight) \subseteq KeysOfRecords(oldRight \cup newRight)
    BY DEF KeysOfRecords
  <2>5. Followed(s, KeysOfRecords(newLeft)) /\ Followed(t, KeysOfRecords(newRight))
    BY DEF Tells
  <2>6. Followed(s, KeysOfRecords(new))
    BY <2>1, <2>2, <2>4, <2>5 DEF Followed
  <2>7. Followed(t, KeysOfRecords(new))
    BY <2>1, <2>3, <2>4, <2>5 DEF Followed
  <2> QED  BY <1>1, <2>6, <2>7, BothFollowed
<1> QED  BY <1>2, <1>6, <1>7, <1>8 DEF Tells

(* Two subtrees that are no branches are told of by the leaf that each is. *)
LEMMA LeavesAreTold ==
  ASSUME NEW a \in NodeId, NEW b \in NodeId,
         LET nodeA == ParsedNode(nodes, a) IN
           RecordsOf(nodes, a) = IF IsLeaf(nodeA) THEN {<<nodeA.key, nodeA.val>>} ELSE {},
         LET nodeB == ParsedNode(nodes, b) IN
           RecordsOf(nodes, b) = IF IsLeaf(nodeB) THEN {<<nodeB.key, nodeB.val>>} ELSE {},
         RecordsOf(nodes, a) \cap RecordsOf(nodes, b) = {}
  PROVE  Tells(OfLeaves(ParsedNode(nodes, a), ParsedNode(nodes, b)), RecordsOf(nodes, a), RecordsOf(nodes, b))
<1> DEFINE nodeA == ParsedNode(nodes, a)
           nodeB == ParsedNode(nodes, b)
           old == RecordsOf(nodes, a)
           new == RecordsOf(nodes, b)
           gone == IF IsLeaf(nodeA) THEN DiffDel(nodeA) ELSE <<>>
           came == IF IsLeaf(nodeB) THEN DiffAdd(nodeB) ELSE <<>>
<1>1. gone \in Seq(Line) /\ LinesOf(gone) = IF IsLeaf(nodeA) THEN {Entry(nodeA, TRUE)} ELSE {}
  BY Entries, OneLine, NoLines DEF DiffDel
<1>2. came \in Seq(Line) /\ LinesOf(came) = IF IsLeaf(nodeB) THEN {Entry(nodeB, FALSE)} ELSE {}
  BY Entries, OneLine, NoLines DEF DiffAdd
<1>3. OfLeaves(nodeA, nodeB) = gone \o came
  BY DEF OfLeaves
<1> HIDE DEF gone, came
<1>4. /\ OfLeaves(nodeA, nodeB) \in Seq(Line)
      /\ LinesOf(OfLeaves(nodeA, nodeB)) = LinesOf(gone) \cup LinesOf(came)
  <2>1. gone \in Seq(Line) /\ came \in Seq(Line)
    BY <1>1, <1>2
  <2>2. gone \o came \in Seq(Line) /\ LinesOf(gone \o came) = LinesOf(gone) \cup LinesOf(came)
    BY <2>1, LinesOfBoth
  <2> QED  BY <1>3, <2>2
<1>5. /\ Entry(nodeA, TRUE).key = nodeA.key /\ Entry(nodeA, TRUE).val = nodeA.val
      /\ Entry(nodeA, TRUE).deletion /\ Entry(nodeB, FALSE).key = nodeB.key
      /\ Entry(nodeB, FALSE).val = nodeB.val /\ ~Entry(nodeB, FALSE).deletion
  BY DEF Entry
<1>6. (old \ new) \cup (new \ old) = old \cup new
  OBVIOUS
<1> DEFINE oldKeys == IF IsLeaf(nodeA) THEN {nodeA.key} ELSE {}
           newKeys == IF IsLeaf(nodeB) THEN {nodeB.key} ELSE {}
           list    == OfLeaves(nodeA, nodeB)
<1>7. ChangedKeys(old, new) = oldKeys \cup newKeys
  <2>1. ChangedKeys(old, new) = KeysOfRecords(old) \cup KeysOfRecords(new)
    <3> HIDE DEF old, new
    <3> QED  BY <1>6, KeysOfSomeRecords DEF ChangedKeys
  <2>2. KeysOfRecords(old) = oldKeys /\ KeysOfRecords(new) = newKeys
    BY KeysOfSomeRecords
  <2> QED  BY <2>1, <2>2
<1>8. KeysIn(list) = oldKeys \cup newKeys
  BY <1>1, <1>2, <1>4, <1>5 DEF KeysIn
<1>9. \A line \in LinesOf(list) : Proper(line, old, new)
  BY <1>1, <1>2, <1>4, <1>5 DEF Proper
<1>10. Followed(list, KeysOfRecords(new))
  <2>1. KeysOfRecords(new) = newKeys
    BY KeysOfSomeRecords
  <2>2. CASE IsLeaf(nodeA) /\ IsLeaf(nodeB) /\ nodeA.key = nodeB.key
    <3>1. list = <<Entry(nodeA, TRUE)>> \o <<Entry(nodeB, FALSE)>>
      BY <2>2 DEF OfLeaves, DiffDel, DiffAdd
    <3> DEFINE e == Entry(nodeA, TRUE)  f == Entry(nodeB, FALSE)
    <3>2. ~f.deletion /\ f.key = e.key
      BY <1>5, <2>2
    <3>3. list = <<e>> \o <<f>>
      BY <3>1
    <3> HIDE DEF e, f, list
    <3> DEFINE L == {e, f}
    <3>4. e \in L /\ f \in L
      OBVIOUS
    <3> HIDE DEF L
    <3>5. Followed(<<e>> \o <<f>>, KeysOfRecords(new))
      BY <3>2, <3>4, DeletedAndAdded
    <3> QED  BY <3>3, <3>5
  <2>3. CASE ~(IsLeaf(nodeA) /\ IsLeaf(nodeB) /\ nodeA.key = nodeB.key)
    <3>1. \A line \in LinesOf(list) : ~(line.deletion /\ line.key \in newKeys)
      BY <1>1, <1>2, <1>4, <1>5, <2>3
    <3> QED  BY <2>1, <3>1, NoneDeleted
  <2> QED  BY <2>2, <2>3
<1> QED  BY <1>4, <1>7, <1>8, <1>9, <1>10 DEF Tells

(* What is known of a leaf of a subtree.                                   *)
LEMMA LeavesOfTrees ==
  ASSUME NEW root, TreeOK(nodes, root), NEW d \in 0 .. Depth, NEW id \in Subtrees(nodes, root, d),
         NEW leaf \in Leaves(nodes, id)
  PROVE  /\ leaf \in NodeId /\ ParsedNode(nodes, leaf) = nodes[leaf]
         /\ nodes[leaf].key # NoKey /\ nodes[leaf].key \in KeySpace
         /\ <<nodes[leaf].key, nodes[leaf].val>> \in RecordsOf(nodes, id)
<1>1. WellFormed(nodes, root) /\ leaf \in Leaves(nodes, root)
  BY LeavesOfSubtrees DEF TreeOK
<1>2. PICK n \in 0 .. Depth : leaf \in AtDepth(nodes, root, n)
  BY <1>1 DEF Leaves, Walk
<1>3. leaf # Empty
  <2>1. n \in Nat
    BY DepthAssumption
  <2> QED  BY <1>2, <2>1, LevelsHaveNodes
<1>4. leaf \in DOMAIN nodes /\ nodes[leaf].key \in KeySpace
  BY <1>1, <1>2 DEF WellFormed, Leaves
<1>5. nodes[leaf].key # NoKey
  BY <1>4, KeysAreNumbers DEF NoKey
<1> QED  BY <1>3, <1>4, <1>5 DEF NodeId, ParsedNode, RecordsOf

(* The line that a record has when it has gone or come.                    *)
LineOf(record, deletion) == [key |-> record[1], val |-> record[2], deletion |-> deletion]

LinesFor(old, new) ==
  {LineOf(record, TRUE) : record \in old \ new} \cup {LineOf(record, FALSE) : record \in new \ old}

(* These are the right lines.                                              *)
LEMMA LinesThatTell ==
  ASSUME NEW old, NEW new, NEW list \in Seq(Line), LinesOf(list) = LinesFor(old, new),
         Followed(list, KeysOfRecords(new)),
         \A record \in old \cup new : record = <<record[1], record[2]>>
  PROVE  Tells(list, old, new)
<1>1. ASSUME NEW record, NEW deletion
      PROVE  /\ LineOf(record, deletion).key = record[1] /\ LineOf(record, deletion).val = record[2]
             /\ LineOf(record, deletion).deletion = deletion
  BY DEF LineOf
<1>2. ASSUME NEW line \in LinesOf(list)
      PROVE  line.key \in ChangedKeys(old, new) /\ Proper(line, old, new)
  <2>1. CASE \E record \in old \ new : line = LineOf(record, TRUE)
    <3>1. PICK record \in old \ new : line = LineOf(record, TRUE)
      BY <2>1
    <3>2. line.key = record[1] /\ line.val = record[2] /\ line.deletion
      BY <1>1, <3>1
    <3> QED  BY <3>1, <3>2 DEF ChangedKeys, KeysOfRecords, Proper
  <2>2. CASE \E record \in new \ old : line = LineOf(record, FALSE)
    <3>1. PICK record \in new \ old : line = LineOf(record, FALSE)
      BY <2>2
    <3>2. line.key = record[1] /\ line.val = record[2] /\ ~line.deletion
      BY <1>1, <3>1
    <3> QED  BY <3>1, <3>2 DEF ChangedKeys, KeysOfRecords, Proper
  <2> QED  BY <2>1, <2>2 DEF LinesFor
<1>3. ASSUME NEW k \in ChangedKeys(old, new)
      PROVE  k \in KeysIn(list)
  <2>1. PICK record \in (old \ new) \cup (new \ old) : k = record[1]
    BY DEF ChangedKeys, KeysOfRecords
  <2>2. PICK deletion \in BOOLEAN : LineOf(record, deletion) \in LinesOf(list)
    BY <2>1 DEF LinesFor
  <2> QED  BY <1>1, <2>1, <2>2 DEF KeysIn
<1>4. KeysIn(list) = ChangedKeys(old, new)
  BY <1>2, <1>3 DEF KeysIn
<1> QED  BY <1>2, <1>4 DEF Tells

(* A leaf, or nothing, against the leaves of a branch: those of the branch *)
(* are new, but for a record that both have.                               *)
LEMMA BranchIsNew ==
  ASSUME TreeOK(nodes, from), TreeOK(nodes, to), NEW d \in 0 .. Depth,
         NEW a \in Subtrees(nodes, from, d), NEW b \in Subtrees(nodes, to, d),
         ~IsBranch(ParsedNode(nodes, a))
  PROVE  Tells(ToBranch(ParsedNode(nodes, a), b), RecordsOf(nodes, a), RecordsOf(nodes, b))
<1> DEFINE nodeA == ParsedNode(nodes, a)
           leaves == Leaves(nodes, b)
           rec(x) == <<nodes[x].key, nodes[x].val>>
           recA == <<nodeA.key, nodeA.val>>
           each == [leaf \in leaves |->
             IF nodes[leaf].key # nodeA.key THEN DiffAdd(nodes[leaf])
             ELSE IF nodes[leaf].val # nodeA.val THEN DiffDel(nodeA) \o DiffAdd(nodes[leaf])
             ELSE <<>>]
           rest == IF IsLeaf(nodeA) /\ ~HasKey(b, nodeA.key) THEN DiffDel(nodeA) ELSE <<>>
           list == ToBranch(nodeA, b)
           old == RecordsOf(nodes, a)
           new == RecordsOf(nodes, b)
<1>1. WellFormed(nodes, from) /\ WellFormed(nodes, to) /\ a \in NodeId
  BY SubtreesAreStored DEF TreeOK, NodeId
<1>2. \A x \in leaves : /\ x \in NodeId /\ ParsedNode(nodes, x) = nodes[x]
                        /\ nodes[x].key # NoKey
  BY LeavesOfTrees
<1>3. \A x, y \in leaves : nodes[x].key = nodes[y].key => x = y
  BY <1>1, KeysHaveOneLeaf DEF OneLeafEach
<1>4. old = IF IsLeaf(nodeA) THEN {recA} ELSE {}
  <2>1. CASE a = Empty
    <3>1. ~IsLeaf(nodeA) /\ RecordsOf(nodes, a) = {}
      BY <1>1, <2>1, HashesOfSubtrees DEF ParsedNode, EmptyNode, IsLeaf
    <3> QED  BY <3>1
  <2>2. CASE a # Empty
    <3>1. IsLeaf(nodeA) /\ ParsedNode(nodes, a) = nodes[a] /\ RecordsOf(nodes, a) = {<<nodes[a].key, nodes[a].val>>}
      BY <1>1, <2>2, HashesOfSubtrees
    <3> QED  BY <3>1
  <2> QED  BY <2>1, <2>2
<1>5. ~IsLeaf(nodeA) => nodeA.key = NoKey
  BY <1>1, KindsOfSubtrees DEF EmptyNode
<1>6. new = {rec(x) : x \in leaves}
  BY DEF RecordsOf
<1>7. ASSUME NEW x \in leaves
      PROVE  /\ Entry(nodes[x], FALSE) = LineOf(rec(x), FALSE) /\ Entry(nodes[x], FALSE) \in Line
             /\ Entry(nodeA, TRUE) = LineOf(recA, TRUE) /\ Entry(nodeA, TRUE) \in Line
  BY <1>1, <1>2, Entries DEF Entry, LineOf
<1>8. Entry(nodeA, TRUE) = LineOf(recA, TRUE) /\ Entry(nodeA, TRUE) \in Line
  BY <1>1, Entries DEF Entry, LineOf
<1>9. list = DiffWalk(b, each) \o rest
  BY DEF ToBranch
<1>10. ASSUME NEW x \in leaves
       PROVE  /\ each[x] \in Seq(Line)
              /\ LinesOf(each[x]) = IF nodes[x].key # nodeA.key THEN {LineOf(rec(x), FALSE)}
                                    ELSE IF nodes[x].val # nodeA.val
                                    THEN {LineOf(recA, TRUE), LineOf(rec(x), FALSE)} ELSE {}
  <2>1. CASE nodes[x].key # nodeA.key
    <3>1. each[x] = <<Entry(nodes[x], FALSE)>>
      BY <2>1 DEF DiffAdd
    <3>2. each[x] \in Seq(Line) /\ LinesOf(each[x]) = {Entry(nodes[x], FALSE)}
      <4> DEFINE e == Entry(nodes[x], FALSE)
      <4>1. e \in Line
        BY <1>7
      <4> HIDE DEF e
      <4>2. <<e>> \in Seq(Line) /\ LinesOf(<<e>>) = {e}
        BY <4>1, OneLine
      <4> HIDE DEF each
      <4> QED  BY <3>1, <4>2 DEF e
    <3> HIDE DEF each
    <3> QED  BY <1>7, <2>1, <3>2
  <2>2. CASE nodes[x].key = nodeA.key /\ nodes[x].val # nodeA.val
    <3>1. each[x] = <<Entry(nodeA, TRUE)>> \o <<Entry(nodes[x], FALSE)>>
      BY <2>2 DEF DiffAdd, DiffDel
    <3> HIDE DEF each, nodeA
    <3>2. each[x] \in Seq(Line) /\ LinesOf(each[x]) = {Entry(nodeA, TRUE), Entry(nodes[x], FALSE)}
      <4> DEFINE e == Entry(nodeA, TRUE)  f == Entry(nodes[x], FALSE)
      <4>1. e \in Line /\ f \in Line
        BY <1>7
      <4> HIDE DEF e, f
      <4>2. <<e>> \o <<f>> \in Seq(Line) /\ LinesOf(<<e>> \o <<f>>) = {e, f}
        BY <4>1, TwoLines
      <4> QED  BY <3>1, <4>2 DEF e, f
    <3> QED  BY <1>7, <2>2, <3>2
  <2>3. CASE nodes[x].key = nodeA.key /\ nodes[x].val = nodeA.val
    <3>1. each[x] = <<>>
      BY <2>3
    <3> HIDE DEF each
    <3> QED  BY <2>3, <3>1, NoLines
  <2> QED  BY <2>1, <2>2, <2>3
<1>11. /\ rest \in Seq(Line)
       /\ LinesOf(rest) = IF IsLeaf(nodeA) /\ ~HasKey(b, nodeA.key) THEN {LineOf(recA, TRUE)} ELSE {}
  BY <1>8, OneLine, NoLines DEF DiffDel
<1>12. HasKey(b, nodeA.key) <=> \E x \in leaves : nodes[x].key = nodeA.key
  BY DEF HasKey
<1>18. \A record, deletion : /\ LineOf(record, deletion).key = record[1]
                             /\ LineOf(record, deletion).deletion = deletion
  BY DEF LineOf
<1>19. ASSUME NEW x \in leaves
       PROVE  Followed(each[x], KeysOfRecords(new))
  <2>1. CASE nodes[x].key = nodeA.key /\ nodes[x].val # nodeA.val
    <3> DEFINE e == Entry(nodeA, TRUE)  f == Entry(nodes[x], FALSE)
    <3>1. each[x] = <<e>> \o <<f>>
      BY <2>1 DEF DiffAdd, DiffDel
    <3>2. e \in Line /\ f \in Line /\ ~f.deletion /\ f.key = e.key
      BY <1>7, <2>1 DEF Entry
    <3> HIDE DEF e, f, each, new
    <3>3. Followed(<<e>> \o <<f>>, KeysOfRecords(new))
      BY <3>2, DeletedAndAdded
    <3> QED  BY <3>1, <3>3
  <2>2. CASE ~(nodes[x].key = nodeA.key /\ nodes[x].val # nodeA.val)
    <3>1. LinesOf(each[x]) = IF nodes[x].key # nodeA.key THEN {LineOf(rec(x), FALSE)} ELSE {}
      BY <1>10, <2>2
    <3> HIDE DEF each, new
    <3> QED  BY <1>18, <3>1, NoneDeleted
  <2> QED  BY <2>1, <2>2
<1>20. Followed(rest, KeysOfRecords(new))
  <2> HIDE DEF rest
  <2> SUFFICES ASSUME NEW line \in LinesOf(rest), line.key \in KeysOfRecords(new)
               PROVE  FALSE
    BY NoneDeleted
  <2>1. line = LineOf(recA, TRUE) /\ \A x \in leaves : nodes[x].key # nodeA.key
    BY <1>11, <1>12
  <2>2. line.key = nodeA.key
    BY <1>18, <2>1
  <2>3. PICK record \in new : line.key = record[1]
    BY DEF KeysOfRecords
  <2>4. PICK x \in leaves : record = rec(x)
    BY <1>6
  <2>5. record[1] = nodes[x].key
    BY <2>4
  <2> QED  BY <2>1, <2>2, <2>3, <2>5
<1> HIDE DEF each, rest, list, nodeA, leaves, old, new
<1>13. /\ DiffWalk(b, each) \in Seq(Line) /\ Followed(DiffWalk(b, each), KeysOfRecords(new))
       /\ LinesOf(DiffWalk(b, each)) = UNION {LinesOf(each[x]) : x \in leaves}
  BY <1>1, <1>10, <1>19, WalkListsTheLeaves DEF leaves
<1>14. /\ list \in Seq(Line) /\ LinesOf(list) = LinesOf(DiffWalk(b, each)) \cup LinesOf(rest)
       /\ Followed(list, KeysOfRecords(new))
  <2> DEFINE walked == DiffWalk(b, each)
  <2>1. walked \in Seq(Line) /\ rest \in Seq(Line) /\ Followed(walked, KeysOfRecords(new))
    BY <1>11, <1>13
  <2> HIDE DEF walked
  <2>2. /\ walked \o rest \in Seq(Line) /\ LinesOf(walked \o rest) = LinesOf(walked) \cup LinesOf(rest)
        /\ Followed(walked \o rest, KeysOfRecords(new))
    BY <1>20, <2>1, LinesOfBoth, BothFollowed
  <2> QED  BY <1>9, <2>2 DEF walked
<1>15. LinesOf(list) \subseteq LinesFor(old, new)
  <2>1. ASSUME NEW x \in leaves, NEW line \in LinesOf(each[x])
        PROVE  line \in LinesFor(old, new)
    <3>1. CASE line = LineOf(rec(x), FALSE) /\ rec(x) # recA
      BY <1>4, <1>6, <3>1 DEF LinesFor
    <3>2. CASE line = LineOf(recA, TRUE) /\ nodes[x].key = nodeA.key /\ nodes[x].val # nodeA.val
      <4>1. IsLeaf(nodeA)
        BY <1>2, <1>5, <3>2
      <4>2. recA \notin new
        BY <1>3, <1>6, <3>2
      <4> QED  BY <1>4, <3>2, <4>1, <4>2 DEF LinesFor
    <3> QED  BY <1>10, <3>1, <3>2
  <2>2. ASSUME NEW line \in LinesOf(rest)
        PROVE  line \in LinesFor(old, new)
    <3>1. line = LineOf(recA, TRUE) /\ IsLeaf(nodeA) /\ \A x \in leaves : nodes[x].key # nodeA.key
      BY <1>11, <1>12
    <3>2. recA \notin new
      BY <1>6, <3>1
    <3> QED  BY <1>4, <3>1, <3>2 DEF LinesFor
  <2> QED  BY <1>13, <1>14, <2>1, <2>2
<1>16. LinesFor(old, new) \subseteq LinesOf(list)
  <2>1. ASSUME NEW record \in new \ old
        PROVE  LineOf(record, FALSE) \in LinesOf(list)
    <3>1. PICK x \in leaves : record = rec(x)
      BY <1>6
    <3>2. nodes[x].key # nodeA.key \/ nodes[x].val # nodeA.val
      BY <1>2, <1>4, <1>5, <3>1
    <3>3. LineOf(record, FALSE) \in LinesOf(each[x])
      BY <1>10, <3>1, <3>2
    <3> QED  BY <1>13, <1>14, <3>3
  <2>2. ASSUME NEW record \in old \ new
        PROVE  LineOf(record, TRUE) \in LinesOf(list)
    <3>1. IsLeaf(nodeA) /\ record = recA /\ recA \notin new
      BY <1>4
    <3>2. CASE \E x \in leaves : nodes[x].key = nodeA.key
      <4>1. PICK x \in leaves : nodes[x].key = nodeA.key
        BY <3>2
      <4>2. nodes[x].val # nodeA.val
        BY <1>6, <3>1, <4>1
      <4>3. LineOf(recA, TRUE) \in LinesOf(each[x])
        BY <1>10, <4>1, <4>2
      <4> QED  BY <1>13, <1>14, <3>1, <4>3
    <3>3. CASE ~\E x \in leaves : nodes[x].key = nodeA.key
      BY <1>11, <1>12, <1>14, <3>1, <3>3
    <3> QED  BY <3>2, <3>3
  <2> QED  BY <2>1, <2>2 DEF LinesFor
<1>17. \A record \in old \cup new : record = <<record[1], record[2]>>
  BY <1>4, <1>6
<1> QED  BY <1>14, <1>15, <1>16, <1>17, LinesThatTell DEF list, old, new, nodeA

Beginning(root, k, d) ==
  {x \in KeysOf(nodes, root) : \A i \in 0 .. d - 1 : GetBit(x, i) = GetBit(k, i)}

(* The keys that begin as one below a subtree are those of the subtree.    *)
LEMMA SubtreesArePrefixes ==
  ASSUME NEW root, TreeOK(nodes, root), NEW d \in 0 .. Depth, NEW id \in Subtrees(nodes, root, d),
         NEW k \in KeysOf(nodes, id)
  PROVE  Beginning(root, k, d) = KeysOf(nodes, id)
<1> DEFINE Holds(e) == \A x \in Subtrees(nodes, root, e) : \A j \in KeysOf(nodes, x) :
                         Beginning(root, j, e) = KeysOf(nodes, x)
           T == {e \in Nat : e <= Depth => Holds(e)}
<1>0. Depth \in Nat /\ WellFormed(nodes, root)
  BY DepthAssumption DEF TreeOK
<1>1. 0 \in T
  <2>1. Subtrees(nodes, root, 0) = {root, Empty}
    BY FirstLevel DEF Subtrees
  <2>2. KeysOf(nodes, Empty) = {}
    <3>1. Empty \in Subtrees(nodes, root, 0) /\ 0 \in 0 .. Depth
      BY <1>0 DEF Subtrees
    <3>2. Leaves(nodes, Empty) = {}
      BY <1>0, <3>1, KindsOfSubtrees
    <3> QED  BY <3>2 DEF KeysOf
  <2>3. \A j : Beginning(root, j, 0) = KeysOf(nodes, root)
    BY DEF Beginning
  <2> QED  BY <2>1, <2>2, <2>3
<1>2. ASSUME NEW e \in T
      PROVE  e + 1 \in T
  <2>1. PICK f \in Nat : f = e + 1
    OBVIOUS
  <2> SUFFICES ASSUME f <= Depth, NEW x \in Subtrees(nodes, root, f), NEW j \in KeysOf(nodes, x)
               PROVE  Beginning(root, j, f) = KeysOf(nodes, x)
    BY <2>1
  <2>2. e \in 0 .. Depth - 1 /\ e \in 0 .. Depth /\ Holds(e) /\ f \in 0 .. Depth
    BY <1>0, <2>1
  <2>3. x # Empty
    <3>1. x = Empty => Leaves(nodes, x) = {}
      BY <1>0, <2>2, KindsOfSubtrees
    <3> QED  BY <3>1 DEF KeysOf
  <2>4. PICK up \in AtDepth(nodes, root, e) : x \in {nodes[up].left, nodes[up].right}
    BY <2>1, <2>3, LevelAfter DEF Subtrees, Children
  <2>5. up # Empty /\ up \in Subtrees(nodes, root, e)
    BY LevelsHaveNodes DEF Subtrees
  <2> DEFINE l == nodes[up].left
             r == nodes[up].right
  <2>6. /\ Leaves(nodes, up) = Leaves(nodes, l) \cup Leaves(nodes, r)
        /\ \A leaf \in Leaves(nodes, l) : GetBit(nodes[leaf].key, e) = 0
        /\ \A leaf \in Leaves(nodes, r) : GetBit(nodes[leaf].key, e) = 1
    <3>1. ~IsLeaf(nodes[up])
      <4>1. IsLeaf(nodes[up]) => Children(nodes, {up}) = {}
        BY <1>0, <2>2, <2>4 DEF WellFormed
      <4>2. x \in Children(nodes, {up})
        BY <2>3, <2>4 DEF Children
      <4> QED  BY <4>1, <4>2
    <3> QED  BY <1>0, <2>2, <2>5, <3>1, KindsOfSubtrees
  <2>7. /\ KeysOf(nodes, up) = KeysOf(nodes, l) \cup KeysOf(nodes, r)
        /\ \A y \in KeysOf(nodes, l) : GetBit(y, e) = 0
        /\ \A y \in KeysOf(nodes, r) : GetBit(y, e) = 1
    BY <2>6 DEF KeysOf
  <2> HIDE DEF l, r
  <2>8. Beginning(root, j, e) = KeysOf(nodes, up)
    BY <2>2, <2>4, <2>5, <2>7 DEF l, r
  <2>9. KeysOf(nodes, x) = {y \in KeysOf(nodes, up) : GetBit(y, e) = GetBit(j, e)}
    <3>1. CASE x = l
      BY <2>7, <3>1
    <3>2. CASE x = r
      BY <2>7, <3>2
    <3> QED  BY <2>4, <3>1, <3>2 DEF l, r
  <2>10. Beginning(root, j, f) = {y \in Beginning(root, j, e) : GetBit(y, e) = GetBit(j, e)}
    <3>1. 0 .. f - 1 = (0 .. e - 1) \cup {e}
      BY <2>1
    <3> QED  BY <3>1 DEF Beginning
  <2> QED  BY <2>8, <2>9, <2>10
<1>3. T = Nat
  <2>1. T \in SUBSET Nat
    OBVIOUS
  <2> HIDE DEF T
  <2> QED  BY <1>1, <1>2, <2>1, AllNumbers
<1>4. d \in Nat /\ d <= Depth
  BY <1>0
<1> QED  BY <1>3, <1>4

(* The contents of a tree, by its records.                                 *)
LEMMA RecordsAndContents ==
  ASSUME NEW root, TreeOK(nodes, root)
  PROVE  /\ DOMAIN Contents(nodes, root) = KeysOf(nodes, root)
         /\ \A x \in Leaves(nodes, root) : Contents(nodes, root)[nodes[x].key] = nodes[x].val
         /\ \A k \in KeysOf(nodes, root) : <<k, Contents(nodes, root)[k]>> \in RecordsOf(nodes, root)
         /\ \A record \in RecordsOf(nodes, root) :
              /\ record[1] \in KeysOf(nodes, root) /\ Contents(nodes, root)[record[1]] = record[2]
              /\ record = <<record[1], record[2]>>
<1>1. WellFormed(nodes, root) /\ 0 \in 0 .. Depth
  BY DepthAssumption DEF TreeOK
<1>2. root \in Subtrees(nodes, root, 0)
  BY <1>1, FirstLevel DEF Subtrees
<1>3. OneLeafEach(nodes, root)
  BY <1>1, <1>2, KeysHaveOneLeaf
<1>4. /\ DOMAIN Contents(nodes, root) = KeysOf(nodes, root)
      /\ \A x \in Leaves(nodes, root) : Contents(nodes, root)[nodes[x].key] = nodes[x].val
  BY <1>3, ContentsHaveTheRecords
<1>5. ASSUME NEW k \in KeysOf(nodes, root)
      PROVE  <<k, Contents(nodes, root)[k]>> \in RecordsOf(nodes, root)
  <2>1. PICK x \in Leaves(nodes, root) : k = nodes[x].key
    BY DEF KeysOf
  <2> QED  BY <1>4, <2>1 DEF RecordsOf
<1>6. ASSUME NEW record \in RecordsOf(nodes, root)
      PROVE  /\ record[1] \in KeysOf(nodes, root) /\ Contents(nodes, root)[record[1]] = record[2]
             /\ record = <<record[1], record[2]>>
  <2>1. PICK x \in Leaves(nodes, root) : record = <<nodes[x].key, nodes[x].val>>
    BY DEF RecordsOf
  <2>2. record[1] = nodes[x].key /\ record[2] = nodes[x].val
    BY <2>1
  <2> QED  BY <1>4, <2>1, <2>2 DEF KeysOf
<1> QED  BY <1>4, <1>5, <1>6

(* A leaf against a branch that has its key with another value: there were *)
(* other records below the branch, and they have gone.                     *)
LEMMA KeptAlone ==
  ASSUME TreeOK(nodes, from), TreeOK(nodes, to), NEW d \in 0 .. Depth,
         NEW a \in Subtrees(nodes, from, d), NEW b \in Subtrees(nodes, to, d),
         IsBranch(ParsedNode(nodes, a)), IsLeaf(ParsedNode(nodes, b)),
         NEW x \in Leaves(nodes, a), nodes[x].key = ParsedNode(nodes, b).key,
         nodes[x].val # ParsedNode(nodes, b).val
  PROVE  Collapsed(nodes[x].key)
<1> DEFINE k == nodes[x].key
<1>1. /\ WellFormed(nodes, from) /\ WellFormed(nodes, to) /\ Compact(nodes, from)
  BY DEF TreeOK
<1>2. a # Empty /\ ~IsLeaf(nodes[a]) /\ a \in AtDepth(nodes, from, d)
  BY DEF ParsedNode, EmptyNode, IsBranch, IsLeaf, Subtrees
<1>3. b # Empty /\ ParsedNode(nodes, b) = nodes[b] /\ Leaves(nodes, b) = {b}
  BY <1>1, KindsOfSubtrees DEF IsBranch, IsLeaf
<1>4. KeysOf(nodes, b) = {k}
  BY <1>3 DEF KeysOf
<1>5. k \in KeysOf(nodes, a)
  BY DEF KeysOf
<1>6. KeysOf(nodes, a) # {k}
  <2>1. PICK y, z \in Leaves(nodes, a) : y # z
    BY <1>1, <1>2 DEF Compact
  <2>2. nodes[y].key # nodes[z].key
    BY <1>1, <2>1, KeysHaveOneLeaf DEF OneLeafEach
  <2>3. nodes[y].key \in KeysOf(nodes, a) /\ nodes[z].key \in KeysOf(nodes, a)
    BY DEF KeysOf
  <2> QED  BY <2>2, <2>3
<1>7. DOMAIN Old = KeysOf(nodes, from) /\ DOMAIN New = KeysOf(nodes, to)
  BY RecordsAndContents DEF Old, New
<1>8. Under(Old, k, d) = KeysOf(nodes, a) /\ Under(New, k, d) = {k}
  <2>1. Beginning(from, k, d) = KeysOf(nodes, a)
    BY <1>5, SubtreesArePrefixes
  <2>2. Beginning(to, k, d) = KeysOf(nodes, b)
    BY <1>4, SubtreesArePrefixes
  <2> QED  BY <1>4, <1>7, <2>1, <2>2 DEF Under, Beginning
<1>9. x \in Leaves(nodes, from) /\ b \in Leaves(nodes, to)
  BY <1>1, <1>3, LeavesOfSubtrees
<1>10. Old[k] = nodes[x].val /\ New[k] = nodes[b].val
  BY <1>3, <1>9, RecordsAndContents DEF Old, New
<1>11. k \in DOMAIN Old \cap DOMAIN New
  BY <1>3, <1>7, <1>9 DEF KeysOf
<1> QED  BY <1>3, <1>6, <1>8, <1>10, <1>11 DEF Collapsed

(* The leaves of a branch against a leaf, or nothing: those of the branch  *)
(* have gone, but for a record that both have.                             *)
LEMMA BranchIsGone ==
  ASSUME TreeOK(nodes, from), TreeOK(nodes, to), NEW d \in 0 .. Depth,
         NEW a \in Subtrees(nodes, from, d), NEW b \in Subtrees(nodes, to, d),
         IsBranch(ParsedNode(nodes, a)), ~IsBranch(ParsedNode(nodes, b))
  PROVE  Tells(FromBranch(a, ParsedNode(nodes, b)), RecordsOf(nodes, a), RecordsOf(nodes, b))
<1> DEFINE nodeB == ParsedNode(nodes, b)
           leaves == Leaves(nodes, a)
           rec(x) == <<nodes[x].key, nodes[x].val>>
           recB == <<nodeB.key, nodeB.val>>
           each == [leaf \in leaves |->
             IF nodes[leaf].key # nodeB.key THEN DiffDel(nodes[leaf])
             ELSE IF nodes[leaf].val # nodeB.val THEN DiffDel(nodeB) \o DiffAdd(nodes[leaf])
             ELSE <<>>]
           rest == IF IsLeaf(nodeB) /\ ~HasKey(a, nodeB.key) THEN DiffAdd(nodeB) ELSE <<>>
           list == FromBranch(a, nodeB)
           old == RecordsOf(nodes, a)
           new == RecordsOf(nodes, b)
<1>1. WellFormed(nodes, from) /\ WellFormed(nodes, to) /\ b \in NodeId
  BY SubtreesAreStored DEF TreeOK, NodeId
<1>2. \A x \in leaves : /\ x \in NodeId /\ ParsedNode(nodes, x) = nodes[x]
                        /\ nodes[x].key # NoKey
  BY LeavesOfTrees
<1>3. \A x, y \in leaves : nodes[x].key = nodes[y].key => x = y
  BY <1>1, KeysHaveOneLeaf DEF OneLeafEach
<1>4. new = IF IsLeaf(nodeB) THEN {recB} ELSE {}
  <2>1. CASE b = Empty
    <3>1. ~IsLeaf(nodeB) /\ RecordsOf(nodes, b) = {}
      BY <1>1, <2>1, HashesOfSubtrees DEF ParsedNode, EmptyNode, IsLeaf
    <3> QED  BY <3>1
  <2>2. CASE b # Empty
    <3>1. IsLeaf(nodeB) /\ ParsedNode(nodes, b) = nodes[b] /\ RecordsOf(nodes, b) = {<<nodes[b].key, nodes[b].val>>}
      BY <1>1, <2>2, HashesOfSubtrees
    <3> QED  BY <3>1
  <2> QED  BY <2>1, <2>2
<1>5. ~IsLeaf(nodeB) => nodeB.key = NoKey
  BY <1>1, KindsOfSubtrees DEF EmptyNode
<1>6. old = {rec(x) : x \in leaves}
  BY DEF RecordsOf
<1>7. ASSUME NEW x \in leaves, NEW deletion \in BOOLEAN
      PROVE  Entry(nodes[x], deletion) = LineOf(rec(x), deletion) /\ Entry(nodes[x], deletion) \in Line
  BY <1>2, Entries DEF Entry, LineOf
<1>8. ASSUME NEW deletion \in BOOLEAN
      PROVE  Entry(nodeB, deletion) = LineOf(recB, deletion) /\ Entry(nodeB, deletion) \in Line
  BY <1>1, Entries DEF Entry, LineOf
<1>9. list = DiffWalk(a, each) \o rest
  BY DEF FromBranch
<1>10. ASSUME NEW x \in leaves
       PROVE  /\ each[x] \in Seq(Line)
              /\ LinesOf(each[x]) = IF nodes[x].key # nodeB.key THEN {LineOf(rec(x), TRUE)}
                                    ELSE IF nodes[x].val # nodeB.val
                                    THEN {LineOf(recB, TRUE), LineOf(rec(x), FALSE)} ELSE {}
  <2>1. CASE nodes[x].key # nodeB.key
    <3>1. each[x] = <<Entry(nodes[x], TRUE)>>
      BY <2>1 DEF DiffDel
    <3>2. each[x] \in Seq(Line) /\ LinesOf(each[x]) = {Entry(nodes[x], TRUE)}
      <4> DEFINE e == Entry(nodes[x], TRUE)
      <4>1. e \in Line
        BY <1>7
      <4> HIDE DEF e
      <4>2. <<e>> \in Seq(Line) /\ LinesOf(<<e>>) = {e}
        BY <4>1, OneLine
      <4> HIDE DEF each
      <4> QED  BY <3>1, <4>2 DEF e
    <3> HIDE DEF each
    <3> QED  BY <1>7, <2>1, <3>2
  <2>2. CASE nodes[x].key = nodeB.key /\ nodes[x].val # nodeB.val
    <3>1. each[x] = <<Entry(nodeB, TRUE)>> \o <<Entry(nodes[x], FALSE)>>
      BY <2>2 DEF DiffAdd, DiffDel
    <3> HIDE DEF each, nodeB
    <3>2. each[x] \in Seq(Line) /\ LinesOf(each[x]) = {Entry(nodeB, TRUE), Entry(nodes[x], FALSE)}
      <4> DEFINE e == Entry(nodeB, TRUE)  f == Entry(nodes[x], FALSE)
      <4>1. e \in Line /\ f \in Line
        BY <1>7, <1>8
      <4> HIDE DEF e, f
      <4>2. <<e>> \o <<f>> \in Seq(Line) /\ LinesOf(<<e>> \o <<f>>) = {e, f}
        BY <4>1, TwoLines
      <4> QED  BY <3>1, <4>2 DEF e, f
    <3>3. Entry(nodeB, TRUE) = LineOf(recB, TRUE) /\ Entry(nodes[x], FALSE) = LineOf(rec(x), FALSE)
      BY <1>7, <1>8
    <3> QED  BY <2>2, <3>2, <3>3
  <2>3. CASE nodes[x].key = nodeB.key /\ nodes[x].val = nodeB.val
    <3>1. each[x] = <<>>
      BY <2>3
    <3> HIDE DEF each
    <3> QED  BY <2>3, <3>1, NoLines
  <2> QED  BY <2>1, <2>2, <2>3
<1>11. /\ rest \in Seq(Line)
       /\ LinesOf(rest) = IF IsLeaf(nodeB) /\ ~HasKey(a, nodeB.key) THEN {LineOf(recB, FALSE)} ELSE {}
  BY <1>8, OneLine, NoLines DEF DiffAdd
<1>12. HasKey(a, nodeB.key) <=> \E x \in leaves : nodes[x].key = nodeB.key
  BY DEF HasKey
<1>13. ASSUME NEW x \in leaves, nodes[x].key = nodeB.key, nodes[x].val # nodeB.val
       PROVE  Collapsed(nodes[x].key)
  <2>1. IsLeaf(nodeB)
    BY <1>2, <1>5, <1>13
  <2> QED  BY <1>13, <2>1, KeptAlone
<1>14. \A record, deletion : /\ LineOf(record, deletion).key = record[1]
                             /\ LineOf(record, deletion).val = record[2]
                             /\ LineOf(record, deletion).deletion = deletion
  BY DEF LineOf
<1>15. \A deletion : /\ LineOf(recB, deletion).key = nodeB.key
                     /\ \A x \in leaves : LineOf(rec(x), deletion).key = nodes[x].key
  BY DEF LineOf
<1>21. ASSUME NEW x \in leaves
       PROVE  Followed(each[x], KeysOfRecords(new))
  <2>1. CASE nodes[x].key = nodeB.key /\ nodes[x].val # nodeB.val
    <3> DEFINE e == Entry(nodeB, TRUE)  f == Entry(nodes[x], FALSE)
    <3>1. each[x] = <<e>> \o <<f>>
      BY <2>1 DEF DiffAdd, DiffDel
    <3>2. e \in Line /\ f \in Line /\ ~f.deletion /\ f.key = e.key
      BY <1>7, <1>8, <2>1 DEF Entry
    <3> HIDE DEF e, f, each, new
    <3>3. Followed(<<e>> \o <<f>>, KeysOfRecords(new))
      BY <3>2, DeletedAndAdded
    <3> QED  BY <3>1, <3>3
  <2>2. CASE ~(nodes[x].key = nodeB.key /\ nodes[x].val # nodeB.val)
    <3>1. LinesOf(each[x]) = IF nodes[x].key # nodeB.key THEN {LineOf(rec(x), TRUE)} ELSE {}
      BY <1>10, <2>2
    <3>2. KeysOfRecords(new) \subseteq {nodeB.key}
      BY <1>4 DEF KeysOfRecords
    <3> HIDE DEF each, new
    <3> QED  BY <1>15, <3>1, <3>2, NoneDeleted
  <2> QED  BY <2>1, <2>2
<1>22. Followed(rest, KeysOfRecords(new))
  <2> HIDE DEF rest, new
  <2> QED  BY <1>11, <1>14, NoneDeleted
<1> HIDE DEF each, rest, list, nodeB, leaves, old, new
<1>16. /\ DiffWalk(a, each) \in Seq(Line) /\ Followed(DiffWalk(a, each), KeysOfRecords(new))
       /\ LinesOf(DiffWalk(a, each)) = UNION {LinesOf(each[x]) : x \in leaves}
  BY <1>1, <1>10, <1>21, WalkListsTheLeaves DEF leaves
<1>17. /\ list \in Seq(Line) /\ LinesOf(list) = LinesOf(DiffWalk(a, each)) \cup LinesOf(rest)
       /\ Followed(list, KeysOfRecords(new))
  <2> DEFINE walked == DiffWalk(a, each)
  <2>1. walked \in Seq(Line) /\ rest \in Seq(Line) /\ Followed(walked, KeysOfRecords(new))
    BY <1>11, <1>16
  <2> HIDE DEF walked
  <2>2. /\ walked \o rest \in Seq(Line) /\ LinesOf(walked \o rest) = LinesOf(walked) \cup LinesOf(rest)
        /\ Followed(walked \o rest, KeysOfRecords(new))
    BY <1>22, <2>1, LinesOfBoth, BothFollowed
  <2> QED  BY <1>9, <2>2 DEF walked
<1> DEFINE Changed(k) == \E record \in (old \ new) \cup (new \ old) : record[1] = k
           Correct(line) == Changed(line.key) /\ (Proper(line, old, new) \/ Collapsed(line.key))
<1>18. ASSUME NEW line \in LinesOf(list)
       PROVE  Correct(line)
  <2>1. ASSUME NEW x \in leaves, line \in LinesOf(each[x])
        PROVE  Correct(line)
    <3>1. CASE nodes[x].key # nodeB.key
      <4>1. line = LineOf(rec(x), TRUE)
        BY <1>10, <2>1, <3>1
      <4>2. line.key = rec(x)[1] /\ line.val = rec(x)[2] /\ line.deletion
        BY <1>14, <4>1
      <4>3. rec(x) \in old \ new
        BY <1>4, <1>6, <3>1
      <4> QED  BY <4>2, <4>3 DEF Proper
    <3>2. CASE nodes[x].key = nodeB.key
      <4>1. line \in {LineOf(recB, TRUE), LineOf(rec(x), FALSE)} /\ nodes[x].val # nodeB.val
        BY <1>10, <2>1, <3>2
      <4>2. line.key = nodes[x].key
        BY <1>15, <3>2, <4>1
      <4>3. rec(x) \in old \ new
        BY <1>4, <1>6, <4>1
      <4>4. Collapsed(nodes[x].key)
        BY <1>13, <3>2, <4>1
      <4> QED  BY <4>2, <4>3, <4>4
    <3> QED  BY <3>1, <3>2
  <2>2. ASSUME line \in LinesOf(rest)
        PROVE  Correct(line)
    <3>1. line = LineOf(recB, FALSE) /\ IsLeaf(nodeB) /\ \A x \in leaves : nodes[x].key # nodeB.key
      BY <1>11, <1>12, <2>2
    <3>2. recB \in new \ old
      BY <1>4, <1>6, <3>1
    <3>3. line.key = recB[1] /\ line.val = recB[2] /\ ~line.deletion
      BY <1>14, <3>1
    <3> QED  BY <3>2, <3>3 DEF Proper
  <2> QED  BY <1>16, <1>17, <2>1, <2>2
<1>19. ASSUME NEW record \in (old \ new) \cup (new \ old)
       PROVE  \E line \in LinesOf(list) : line.key = record[1]
  <2>1. ASSUME NEW x \in leaves, rec(x) \notin new
        PROVE  \E line \in LinesOf(list) : line.key = nodes[x].key
    <3>1. CASE nodes[x].key # nodeB.key
      <4>1. LineOf(rec(x), TRUE) \in LinesOf(list)
        BY <1>10, <1>16, <1>17, <3>1
      <4> QED  BY <1>15, <4>1
    <3>2. CASE nodes[x].key = nodeB.key
      <4>1. nodes[x].val # nodeB.val
        BY <1>2, <1>4, <1>5, <2>1, <3>2
      <4>2. LineOf(rec(x), FALSE) \in LinesOf(list)
        BY <1>10, <1>16, <1>17, <3>2, <4>1
      <4> QED  BY <1>15, <4>2
    <3> QED  BY <3>1, <3>2
  <2>2. CASE record \in old
    BY <1>6, <2>1, <2>2
  <2>3. CASE record \in new \ old
    <3>1. IsLeaf(nodeB) /\ record = recB /\ recB \notin old
      BY <1>4, <2>3
    <3>2. CASE \E x \in leaves : nodes[x].key = nodeB.key
      <4>1. PICK x \in leaves : nodes[x].key = nodeB.key
        BY <3>2
      <4>2. rec(x) # recB
        BY <1>6, <3>1
      <4>3. rec(x) \notin new
        BY <1>4, <4>2
      <4> QED  BY <2>1, <3>1, <4>1, <4>3
    <3>3. CASE ~\E x \in leaves : nodes[x].key = nodeB.key
      <4>1. LineOf(recB, FALSE) \in LinesOf(list)
        BY <1>11, <1>12, <1>17, <3>1, <3>3
      <4> QED  BY <1>14, <3>1, <4>1
    <3> QED  BY <3>2, <3>3
  <2> QED  BY <2>2, <2>3
<1>20. KeysIn(list) = ChangedKeys(old, new)
  BY <1>18, <1>19 DEF KeysIn, ChangedKeys, KeysOfRecords
<1> QED  BY <1>17, <1>18, <1>20 DEF Tells, list, old, new, nodeB

---------------------------------------------------------------------------
(* diff                                                                    *)

(* Calls that go as deep as the trees tell the two subtrees apart.         *)
LEMMA CallsTell ==
  ASSUME TreesOK, NEW d \in 0 .. Depth,
         NEW a \in Subtrees(nodes, from, d), NEW b \in Subtrees(nodes, to, d), NEW n \in Nat, d + n > Depth
  PROVE  Tells(DiffAt(n, a, b), RecordsOf(nodes, a), RecordsOf(nodes, b))
<1> DEFINE Told(e, x) == \A y \in Subtrees(nodes, to, e), m \in Nat : e + m > Depth =>
                           Tells(DiffAt(m, x, y), RecordsOf(nodes, x), RecordsOf(nodes, y))
           good == {pair \in Nat \X NodeId : Told(pair[1], pair[2])}
<1>0. /\ Depth \in Nat /\ TreeOK(nodes, from) /\ TreeOK(nodes, to)
      /\ WellFormed(nodes, from) /\ WellFormed(nodes, to)
  BY DepthAssumption DEF TreesOK, TreeOK
<1>1. ASSUME NEW e \in 0 .. Depth, NEW x \in Subtrees(nodes, from, e)
      PROVE  e \in Nat /\ x \in NodeId
  BY <1>0, SubtreesAreStored DEF NodeId
<1>2. ASSUME NEW e \in 0 .. Depth, NEW y \in Subtrees(nodes, to, e)
      PROVE  y \in NodeId
  BY <1>0, SubtreesAreStored DEF NodeId
<1>3. ASSUME NEW e \in 0 .. Depth, NEW x \in Subtrees(nodes, from, e), NEW y \in Subtrees(nodes, to, e),
             x = y \/ ParsedNode(nodes, x).hash = ParsedNode(nodes, y).hash
      PROVE  Tells(<<>>, RecordsOf(nodes, x), RecordsOf(nodes, y))
  <2>1. RecordsOf(nodes, x) = RecordsOf(nodes, y)
    BY <1>0, <1>3, SameHashSameRecords
  <2> QED  BY <2>1, NothingToTell
<1>4. ASSUME NEW e \in 0 .. Depth, NEW x \in Subtrees(nodes, from, e), ~IsBranch(ParsedNode(nodes, x))
      PROVE  <<e, x>> \in good
  <2> SUFFICES ASSUME NEW y \in Subtrees(nodes, to, e), NEW m \in Nat, e + m > Depth
               PROVE  Tells(DiffAt(m, x, y), RecordsOf(nodes, x), RecordsOf(nodes, y))
    BY <1>1
  <2>1. PICK p \in Nat : m = p + 1
    <3>1. m - 1 \in Nat /\ m = (m - 1) + 1
      BY <1>0
    <3> QED  BY <3>1
  <2>2. x \in NodeId /\ y \in NodeId
    BY <1>1, <1>2
  <2> HIDE DEF good
  <2>3. CASE x = y \/ ParsedNode(nodes, x).hash = ParsedNode(nodes, y).hash
    <3>1. DiffAt(m, x, y) = <<>>
      BY <2>1, <2>2, <2>3, DiffFollows
    <3> QED  BY <1>3, <2>3, <3>1
  <2>4. CASE x # y /\ ParsedNode(nodes, x).hash # ParsedNode(nodes, y).hash
    <3>1. CASE IsBranch(ParsedNode(nodes, y))
      <4>1. DiffAt(m, x, y) = ToBranch(ParsedNode(nodes, x), y)
        BY <1>4, <2>1, <2>2, <2>4, <3>1, DiffFollows
      <4> QED  BY <1>0, <1>4, <4>1, BranchIsNew
    <3>2. CASE ~IsBranch(ParsedNode(nodes, y))
      <4>1. DiffAt(m, x, y) = OfLeaves(ParsedNode(nodes, x), ParsedNode(nodes, y))
        BY <1>4, <2>1, <2>2, <2>4, <3>2, DiffFollows
      <4>2. LET node == ParsedNode(nodes, x) IN
              RecordsOf(nodes, x) = IF IsLeaf(node) THEN {<<node.key, node.val>>} ELSE {}
        BY <1>0, <1>4, HashesOfSubtrees, KindsOfSubtrees
      <4>3. LET node == ParsedNode(nodes, y) IN
              RecordsOf(nodes, y) = IF IsLeaf(node) THEN {<<node.key, node.val>>} ELSE {}
        BY <1>0, <3>2, HashesOfSubtrees, KindsOfSubtrees
      <4>4. RecordsOf(nodes, x) \cap RecordsOf(nodes, y) = {}
        BY <1>0, <1>4, <2>4, <3>2, HashesOfSubtrees
      <4> QED  BY <2>2, <4>1, <4>2, <4>3, <4>4, LeavesAreTold
    <3> QED  BY <3>1, <3>2
  <2> QED  BY <2>3, <2>4
<1>5. ASSUME NEW e \in 0 .. Depth - 1, NEW x \in Subtrees(nodes, from, e), IsBranch(ParsedNode(nodes, x)),
             <<e + 1, nodes[x].left>> \in good, <<e + 1, nodes[x].right>> \in good
      PROVE  <<e, x>> \in good
  <2>0. e \in 0 .. Depth
    BY <1>0
  <2> SUFFICES ASSUME NEW y \in Subtrees(nodes, to, e), NEW m \in Nat, e + m > Depth
               PROVE  Tells(DiffAt(m, x, y), RecordsOf(nodes, x), RecordsOf(nodes, y))
    BY <1>1, <2>0
  <2>1. PICK p \in Nat : m = p + 1 /\ (e + 1) + p > Depth
    <3>1. m - 1 \in Nat /\ m = (m - 1) + 1 /\ (e + 1) + (m - 1) > Depth
      BY <1>0
    <3> QED  BY <3>1
  <2>2. x \in NodeId /\ y \in NodeId
    BY <1>1, <1>2, <2>0
  <2>3. Told(e + 1, nodes[x].left) /\ Told(e + 1, nodes[x].right)
    BY <1>5
  <2> HIDE DEF good
  <2>4. CASE x = y \/ ParsedNode(nodes, x).hash = ParsedNode(nodes, y).hash
    <3>1. DiffAt(m, x, y) = <<>>
      BY <2>1, <2>2, <2>4, DiffFollows
    <3> QED  BY <1>3, <2>0, <2>4, <3>1
  <2>5. CASE x # y /\ ParsedNode(nodes, x).hash # ParsedNode(nodes, y).hash
    <3>1. CASE ~IsBranch(ParsedNode(nodes, y))
      <4>1. DiffAt(m, x, y) = FromBranch(x, ParsedNode(nodes, y))
        BY <1>5, <2>1, <2>2, <2>5, <3>1, DiffFollows
      <4> QED  BY <1>0, <1>5, <2>0, <3>1, <4>1, BranchIsGone
    <3>2. CASE IsBranch(ParsedNode(nodes, y))
      <4> DEFINE xl == nodes[x].left   xr == nodes[x].right
                 yl == nodes[y].left   yr == nodes[y].right
      <4>1. /\ ParsedNode(nodes, x) = nodes[x]
            /\ Leaves(nodes, x) = Leaves(nodes, xl) \cup Leaves(nodes, xr)
            /\ \A leaf \in Leaves(nodes, xl) : GetBit(nodes[leaf].key, e) = 0
            /\ \A leaf \in Leaves(nodes, xr) : GetBit(nodes[leaf].key, e) = 1
        BY <1>0, <1>5, <2>0, KindsOfSubtrees
      <4>2. /\ ParsedNode(nodes, y) = nodes[y]
            /\ yl \in Subtrees(nodes, to, e + 1) /\ yr \in Subtrees(nodes, to, e + 1)
            /\ Leaves(nodes, y) = Leaves(nodes, yl) \cup Leaves(nodes, yr)
            /\ \A leaf \in Leaves(nodes, yl) : GetBit(nodes[leaf].key, e) = 0
            /\ \A leaf \in Leaves(nodes, yr) : GetBit(nodes[leaf].key, e) = 1
        BY <1>0, <2>0, <3>2, KindsOfSubtrees
      <4>3. DiffAt(m, x, y) = DiffAt(p, xl, yl) \o DiffAt(p, xr, yr)
        BY <1>5, <2>1, <2>2, <2>5, <3>2, <4>1, <4>2, DiffFollows
      <4>4. /\ Tells(DiffAt(p, xl, yl), RecordsOf(nodes, xl), RecordsOf(nodes, yl))
            /\ Tells(DiffAt(p, xr, yr), RecordsOf(nodes, xr), RecordsOf(nodes, yr))
        BY <2>1, <2>3, <4>2
      <4>5. /\ RecordsOf(nodes, x) = RecordsOf(nodes, xl) \cup RecordsOf(nodes, xr)
            /\ RecordsOf(nodes, y) = RecordsOf(nodes, yl) \cup RecordsOf(nodes, yr)
        BY <4>1, <4>2 DEF RecordsOf
      <4>6. /\ \A record \in RecordsOf(nodes, xl) \cup RecordsOf(nodes, yl) : GetBit(record[1], e) = 0
            /\ \A record \in RecordsOf(nodes, xr) \cup RecordsOf(nodes, yr) : GetBit(record[1], e) = 1
        BY <4>1, <4>2 DEF RecordsOf
      <4>7. KeysOfRecords(RecordsOf(nodes, xl) \cup RecordsOf(nodes, yl))
              \cap KeysOfRecords(RecordsOf(nodes, xr) \cup RecordsOf(nodes, yr)) = {}
        BY <4>6 DEF KeysOfRecords
      <4> DEFINE s == DiffAt(p, xl, yl)              t == DiffAt(p, xr, yr)
                 oldLeft == RecordsOf(nodes, xl)     newLeft == RecordsOf(nodes, yl)
                 oldRight == RecordsOf(nodes, xr)    newRight == RecordsOf(nodes, yr)
      <4>8. /\ Tells(s, oldLeft, newLeft) /\ Tells(t, oldRight, newRight)
            /\ KeysOfRecords(oldLeft \cup newLeft) \cap KeysOfRecords(oldRight \cup newRight) = {}
        BY <4>4, <4>7
      <4> HIDE DEF s, t, oldLeft, newLeft, oldRight, newRight
      <4>9. Tells(s \o t, oldLeft \cup oldRight, newLeft \cup newRight)
        BY <4>8, SidesAreToldApart
      <4> QED  BY <4>3, <4>5, <4>9 DEF s, t, oldLeft, newLeft, oldRight, newRight
    <3> QED  BY <3>1, <3>2
  <2> QED  BY <2>4, <2>5
<1>6. <<d, a>> \in good
  <2> HIDE DEF good
  <2> QED  BY <1>0, <1>4, <1>5, SubtreeInduction
<1> QED  BY <1>6

(* What diff() lists, for the whole trees.                                 *)
LEMMA DiffTells ==
  ASSUME TreesOK
  PROVE  Tells(Diff, RecordsOf(nodes, from), RecordsOf(nodes, to))
<1>0. Depth \in Nat /\ 0 \in 0 .. Depth /\ Depth + 1 \in Nat /\ 0 + (Depth + 1) > Depth
  BY DepthAssumption
<1>1. from \in Subtrees(nodes, from, 0) /\ to \in Subtrees(nodes, to, 0)
  BY FirstLevel DEF Subtrees
<1>2. Tells(DiffAt(Depth + 1, from, to), RecordsOf(nodes, from), RecordsOf(nodes, to))
  BY <1>0, <1>1, CallsTell
<1>3. Diff = DiffAt(Depth + 1, from, to)
  <2>1. Empty \in NodeId
    BY DEF NodeId
  <2> QED  BY <1>0, <2>1, DiffFollows DEF DiffAt
<1> QED  BY <1>2, <1>3

(* The difference of any two trees has lines for exactly the keys whose    *)
(* records differ (quadrable.h's diff): a shared node, or one with the same*)
(* hash, hides no change below it, and a record that both sides have is not*)
(* listed where a branch is compared with a leaf.                          *)
THEOREM DiffNamesTheChanges ==
  ASSUME TreesOK
  PROVE  NamesTheChanges
<1> DEFINE old == RecordsOf(nodes, from)
           new == RecordsOf(nodes, to)
<1>1. TreeOK(nodes, from) /\ TreeOK(nodes, to)
  BY DEF TreesOK
<1>2. /\ DOMAIN Old = KeysOf(nodes, from)
      /\ \A k \in DOMAIN Old : <<k, Old[k]>> \in old
      /\ \A record \in old : record[1] \in DOMAIN Old /\ Old[record[1]] = record[2] /\ record = <<record[1], record[2]>>
  BY <1>1, RecordsAndContents DEF Old
<1>3. /\ DOMAIN New = KeysOf(nodes, to)
      /\ \A k \in DOMAIN New : <<k, New[k]>> \in new
      /\ \A record \in new : record[1] \in DOMAIN New /\ New[record[1]] = record[2] /\ record = <<record[1], record[2]>>
  BY <1>1, RecordsAndContents DEF New
<1> HIDE DEF old, new
<1>4. ASSUME NEW k
      PROVE  k \in ChangedKeys(old, new) <=>
               k \in DOMAIN Old \cup DOMAIN New /\ ValueIn(Old, k) # ValueIn(New, k)
  <2>1. k \in ChangedKeys(old, new) <=> \E record \in (old \ new) \cup (new \ old) : record[1] = k
    BY DEF ChangedKeys, KeysOfRecords
  <2>2. CASE k \in DOMAIN Old /\ k \in DOMAIN New
    <3>1. ValueIn(Old, k) = {Old[k]} /\ ValueIn(New, k) = {New[k]}
      BY <2>2 DEF ValueIn
    <3>2. ASSUME NEW record \in (old \ new) \cup (new \ old), record[1] = k
          PROVE  Old[k] # New[k]
      BY <1>2, <1>3, <2>2, <3>2
    <3>3. ASSUME Old[k] # New[k]
          PROVE  <<k, Old[k]>> \in old \ new /\ <<k, Old[k]>>[1] = k
      <4>1. <<k, Old[k]>>[1] = k /\ <<k, Old[k]>>[2] = Old[k]
        OBVIOUS
      <4> QED  BY <1>2, <1>3, <2>2, <3>3, <4>1
    <3> QED  BY <2>1, <2>2, <3>1, <3>2, <3>3
  <2>3. CASE k \in DOMAIN Old /\ k \notin DOMAIN New
    <3>1. ValueIn(Old, k) = {Old[k]} /\ ValueIn(New, k) = {}
      BY <2>3 DEF ValueIn
    <3>2. <<k, Old[k]>> \in old \ new /\ <<k, Old[k]>>[1] = k
      <4>1. <<k, Old[k]>>[1] = k
        OBVIOUS
      <4> QED  BY <1>2, <1>3, <2>3, <4>1
    <3> QED  BY <2>1, <2>3, <3>1, <3>2
  <2>4. CASE k \notin DOMAIN Old /\ k \in DOMAIN New
    <3>1. ValueIn(Old, k) = {} /\ ValueIn(New, k) = {New[k]}
      BY <2>4 DEF ValueIn
    <3>2. <<k, New[k]>> \in new \ old /\ <<k, New[k]>>[1] = k
      <4>1. <<k, New[k]>>[1] = k
        OBVIOUS
      <4> QED  BY <1>2, <1>3, <2>4, <4>1
    <3> QED  BY <2>1, <2>4, <3>1, <3>2
  <2>5. CASE k \notin DOMAIN Old /\ k \notin DOMAIN New
    BY <1>2, <1>3, <2>1, <2>5
  <2> QED  BY <2>2, <2>3, <2>4, <2>5
<1>5. ChangedKeys(old, new) = {k \in DOMAIN Old \cup DOMAIN New : ValueIn(Old, k) # ValueIn(New, k)}
  BY <1>4
<1>6. KeysIn(Diff) = ChangedKeys(old, new)
  BY DiffTells DEF Tells, old, new
<1>7. KeysIn(Diff) = {Diff[i].key : i \in DOMAIN Diff}
  BY DEF KeysIn, LinesOf
<1> QED  BY <1>5, <1>6, <1>7 DEF NamesTheChanges

(* Where no key has lost all its neighbours and changed its value, each    *)
(* deletion carries the value that the record had and each insertion the   *)
(* one that it has, which is what makes a diff reversible.                 *)
THEOREM DiffTellsOldAndNew ==
  ASSUME TreesOK
  PROVE  LinesTellOldAndNew
<1> SUFFICES ASSUME \A k \in DOMAIN Old : ~Collapsed(k), NEW i \in DOMAIN Diff
             PROVE  ValueIn(IF Diff[i].deletion THEN Old ELSE New, Diff[i].key) = {Diff[i].val}
  BY DEF LinesTellOldAndNew
<1> DEFINE line == Diff[i]
<1>1. TreeOK(nodes, from) /\ TreeOK(nodes, to)
  BY DEF TreesOK
<1>2. line \in LinesOf(Diff)
  BY DEF LinesOf
<1>3. Proper(line, RecordsOf(nodes, from), RecordsOf(nodes, to)) \/ Collapsed(line.key)
  BY <1>2, DiffTells DEF Tells
<1>4. ~Collapsed(line.key)
  BY DEF Collapsed
<1> HIDE DEF line
<1>5. <<line.key, line.val>> \in IF line.deletion THEN RecordsOf(nodes, from) ELSE RecordsOf(nodes, to)
  BY <1>3, <1>4 DEF Proper
<1>6. <<line.key, line.val>>[1] = line.key /\ <<line.key, line.val>>[2] = line.val
  OBVIOUS
<1>7. CASE line.deletion
  <2>1. line.key \in DOMAIN Old /\ Old[line.key] = line.val
    BY <1>1, <1>5, <1>6, <1>7, RecordsAndContents DEF Old
  <2> QED  BY <1>7, <2>1 DEF ValueIn, line
<1>8. CASE ~line.deletion
  <2>1. line.key \in DOMAIN New /\ New[line.key] = line.val
    BY <1>1, <1>5, <1>6, <1>8, RecordsAndContents DEF New
  <2> QED  BY <1>8, <2>1 DEF ValueIn, line
<1> QED  BY <1>7, <1>8

---------------------------------------------------------------------------
(* A diff as a patch                                                       *)

(* What apply() needs of the stored nodes: their ids end somewhere, and    *)
(* what they have as values are values.                                    *)
NodesOK(T) ==
  /\ DOMAIN T \in SUBSET Nat /\ Bounded(DOMAIN T) /\ Empty \notin DOMAIN T
  /\ \A id \in DOMAIN T : T[id].val \in Val \cup {EmptyVal}

(* The last line for a key of a list is one that no other comes after.     *)
LEMMA LastLines ==
  ASSUME NEW list \in Seq(Line), NEW k \in KeysIn(list)
  PROVE  LET last == Max({i \in DOMAIN list : list[i].key = k}) IN
         /\ last \in DOMAIN list /\ list[last].key = k
         /\ \A j \in DOMAIN list : list[j].key = k => ~(last < j)
<1> DEFINE lines == {i \in DOMAIN list : list[i].key = k}
<1>1. DOMAIN list = 1 .. Len(list) /\ Len(list) \in Nat
  OBVIOUS
<1>2. lines \in SUBSET Nat /\ Bounded(lines)
  BY <1>1 DEF Bounded
<1>3. lines # {}
  BY DEF KeysIn, LinesOf
<1>4. \A j \in DOMAIN list : list[j].key = k => j \in lines
  OBVIOUS
<1>5. \A i \in lines : i \in DOMAIN list /\ list[i].key = k
  OBVIOUS
<1> HIDE DEF lines
<1>6. Max(lines) \in lines /\ \A x \in lines : x <= Max(lines)
  BY <1>2, <1>3, MaxIsGreatest
<1>7. \A j \in lines : ~(Max(lines) < j)
  <2> DEFINE m == Max(lines)
  <2>1. m \in Nat /\ \A j \in lines : j \in Nat /\ j <= m
    BY <1>2, <1>6
  <2> HIDE DEF m
  <2>2. \A j \in lines : ~(m < j)
    BY <2>1
  <2> QED  BY <2>2 DEF m
<1>8. /\ Max(lines) \in DOMAIN list /\ list[Max(lines)].key = k
      /\ \A j \in DOMAIN list : list[j].key = k => ~(Max(lines) < j)
  BY <1>4, <1>5, <1>6, <1>7
<1> QED  BY <1>8 DEF lines

(* A record that differs is put as it is in the new tree, or deleted.      *)
PutsNew(updates) ==
  /\ DOMAIN updates = {k \in DOMAIN Old \cup DOMAIN New : ValueIn(Old, k) # ValueIn(New, k)}
  /\ \A k \in DOMAIN updates : updates[k] = IF k \in DOMAIN New THEN Put(New[k]) ELSE Delete

(* So the lines of a diff come to, when no key has collapsed: the last one *)
(* for a key is not its deletion if the new tree has it.                   *)
LEMMA LinesPutNew ==
  ASSUME TreesOK, \A k \in DOMAIN Old : ~Collapsed(k)
  PROVE  PutsNew(UpdatesOf(Diff))
<1> DEFINE old     == RecordsOf(nodes, from)
           new     == RecordsOf(nodes, to)
           last(k) == Max({i \in DOMAIN Diff : Diff[i].key = k})
           updates == UpdatesOf(Diff)
<1>1. TreeOK(nodes, from) /\ TreeOK(nodes, to)
  BY DEF TreesOK
<1>2. \A record \in old : record[1] \in DOMAIN Old /\ Old[record[1]] = record[2]
  BY <1>1, RecordsAndContents DEF Old
<1>3. /\ \A k \in DOMAIN New : <<k, New[k]>> \in new
      /\ \A record \in new : record[1] \in DOMAIN New /\ New[record[1]] = record[2]
  BY <1>1, RecordsAndContents DEF New
<1>4. Tells(Diff, old, new)
  BY DiffTells
<1>5. /\ DOMAIN updates = {Diff[i].key : i \in DOMAIN Diff}
      /\ \A k \in DOMAIN updates :
           updates[k] = IF Diff[last(k)].deletion THEN Delete ELSE Put(Diff[last(k)].val)
  BY DEF UpdatesOf
<1>6. \A k \in DOMAIN New : k \in KeysOfRecords(new)
  <2> SUFFICES ASSUME NEW k \in DOMAIN New
               PROVE  k \in KeysOfRecords(new)
    OBVIOUS
  <2>1. <<k, New[k]>>[1] = k
    OBVIOUS
  <2> QED  BY <1>3, <2>1 DEF KeysOfRecords
<1> HIDE DEF old, new, last, updates
<1>7. DOMAIN updates = {k \in DOMAIN Old \cup DOMAIN New : ValueIn(Old, k) # ValueIn(New, k)}
  BY <1>5, DiffNamesTheChanges DEF NamesTheChanges
<1>8. ASSUME NEW k \in DOMAIN updates
      PROVE  updates[k] = IF k \in DOMAIN New THEN Put(New[k]) ELSE Delete
  <2> DEFINE line == Diff[last(k)]
  <2>1. Diff \in Seq(Line) /\ k \in KeysIn(Diff)
    BY <1>4, <1>5 DEF Tells, KeysIn, LinesOf
  <2>2. /\ last(k) \in DOMAIN Diff /\ Diff[last(k)].key = k
        /\ \A j \in DOMAIN Diff : Diff[j].key = k => ~(last(k) < j)
    BY <2>1, LastLines DEF last
  <2>3. line \in LinesOf(Diff) /\ line.key = k
    BY <2>2 DEF LinesOf
  <2>4. Proper(line, old, new)
    BY <1>4, <2>3 DEF Tells, Collapsed
  <2>5. updates[k] = IF line.deletion THEN Delete ELSE Put(line.val)
    BY <1>5
  <2>6. <<line.key, line.val>>[1] = line.key /\ <<line.key, line.val>>[2] = line.val
    OBVIOUS
  <2>7. CASE line.deletion
    <3>1. ASSUME k \in DOMAIN New
          PROVE  FALSE
      <4>1. k \in KeysOfRecords(new)
        BY <1>6, <3>1
      <4>2. PICK j \in DOMAIN Diff : last(k) < j /\ Diff[j].key = k
        BY <1>4, <2>2, <2>7, <4>1 DEF Tells, Followed
      <4> QED  BY <2>2, <4>2
    <3> QED  BY <2>5, <2>7, <3>1
  <2>8. CASE ~line.deletion
    <3>1. <<line.key, line.val>> \in new
      BY <2>4, <2>8 DEF Proper
    <3>2. k \in DOMAIN New /\ New[k] = line.val
      <4> HIDE DEF line
      <4> QED  BY <1>3, <2>3, <2>6, <3>1
    <3> QED  BY <2>5, <2>8, <3>2
  <2> QED  BY <2>7, <2>8
<1>9. PutsNew(updates)
  BY <1>7, <1>8 DEF PutsNew
<1> QED  BY <1>9 DEF updates

(* apply() can be asked for these.                                         *)
LEMMA NewRecordsCanBePut ==
  ASSUME TreesOK, NodesOK(nodes), NEW updates, PutsNew(updates), RoomForLeaves(nodes, updates)
  PROVE  /\ CanPut(nodes, from, updates)
         /\ \A k \in DOMAIN updates : ~Foreign(nodes, k, updates[k])
<1>1. TreeOK(nodes, from) /\ TreeOK(nodes, to)
  BY DEF TreesOK
<1>2. AreContents(nodes, from, Old) /\ AreContents(nodes, to, New)
  BY <1>1, ContentsByLeaf DEF Old, New
<1>3. DOMAIN updates \in SUBSET KeySpace
  BY <1>2 DEF PutsNew, AreContents
<1>4. ASSUME NEW k \in DOMAIN New
      PROVE  New[k] \in Val \cup {EmptyVal}
  <2>1. k \in KeySpace
    BY <1>2 DEF AreContents
  <2>2. PICK x \in Leaves(nodes, to) : New[k] = nodes[x].val
    BY <1>2, <2>1 DEF AreContents, For
  <2>3. x \in DOMAIN nodes
    <3>1. SubOK(nodes, to, 0) /\ 0 \in 0 .. Depth
      BY <1>1, TreesAreSubtrees, DepthAssumption
    <3> QED  BY <3>1, LeavesAreStored DEF StoredLeaf
  <2> QED  BY <2>2, <2>3 DEF NodesOK
<1>5. ASSUME NEW k \in DOMAIN updates
      PROVE  /\ updates[k] \in Update /\ EntryOK(nodes, updates[k], Leaves(nodes, from))
             /\ ~Foreign(nodes, k, updates[k])
  <2>1. CASE k \in DOMAIN New
    <3>1. updates[k] = Put(New[k])
      BY <2>1 DEF PutsNew
    <3>2. New[k] \in Val \cup {EmptyVal}
      BY <1>4, <2>1
    <3> QED  BY <3>1, <3>2 DEF Put, Update, EntryOK, Foreign, Empty
  <2>2. CASE k \notin DOMAIN New
    <3>1. updates[k] = Delete
      BY <2>2 DEF PutsNew
    <3> QED  BY <3>1 DEF Delete, Update, EntryOK, Foreign, Empty
  <2> QED  BY <2>1, <2>2
<1> QED  BY <1>1, <1>3, <1>5 DEF CanPut, NodesOK

(* And the tree that it makes of the old one has the records of the new.   *)
LEMMA PatchedIsNew ==
  ASSUME TreesOK, NEW updates, PutsNew(updates), DOMAIN updates \in SUBSET KeySpace,
         NEW U, Extends(U, nodes), NEW root, NEW output, PutTree(nodes, from, updates, U, root, output)
  PROVE  Contents(U, root) = New
<1> DEFINE now == Contents(U, root)
<1>1. TreeOK(nodes, from) /\ TreeOK(nodes, to) /\ TreeOK(U, root)
  BY DEF TreesOK, PutTree
<1>2. AreContents(nodes, from, Old) /\ AreContents(nodes, to, New) /\ AreContents(U, root, now)
  BY <1>1, ContentsByLeaf DEF Old, New
<1> HIDE DEF now
<1>3. ASSUME NEW k \in KeySpace, k \notin DOMAIN updates
      PROVE  (k \in DOMAIN now <=> k \in DOMAIN New) /\ (k \in DOMAIN now => now[k] = New[k])
  <2>1. For(U, Leaves(U, root), k) = For(nodes, Leaves(nodes, from), k)
    BY <1>3 DEF PutTree
  <2>2. k \in DOMAIN now <=> k \in DOMAIN Old
    BY <1>2, <2>1 DEF AreContents
  <2>3. ASSUME k \in DOMAIN now
        PROVE  now[k] = Old[k]
    <3>1. PICK x \in For(nodes, Leaves(nodes, from), k) : TRUE
      BY <1>2, <2>2, <2>3 DEF AreContents
    <3>2. Old[k] = nodes[x].val /\ now[k] = U[x].val
      BY <1>2, <2>1, <3>1 DEF AreContents
    <3>3. U[x] = nodes[x]
      BY <1>1, <3>1, OldTreesStay DEF For
    <3> QED  BY <3>2, <3>3
  <2>4. (k \in DOMAIN Old <=> k \in DOMAIN New) /\ (k \in DOMAIN Old => Old[k] = New[k])
    <3>1. k \in DOMAIN Old \cup DOMAIN New => ValueIn(Old, k) = ValueIn(New, k)
      BY <1>3 DEF PutsNew
    <3> QED  BY <3>1 DEF ValueIn
  <2> QED  BY <2>2, <2>3, <2>4
<1>4. ASSUME NEW k \in DOMAIN updates
      PROVE  (k \in DOMAIN now <=> k \in DOMAIN New) /\ (k \in DOMAIN now => now[k] = New[k])
  <2>1. k \in KeySpace /\ Settled(nodes, U, Leaves(nodes, from), Leaves(U, root), k, updates[k], Empty, output[k])
    BY DEF PutTree
  <2>2. CASE k \in DOMAIN New
    <3>1. /\ updates[k] # NoEntry /\ ~updates[k].deletion
          /\ updates[k].override = Empty /\ updates[k].val = New[k]
      <4>1. updates[k] = Put(New[k])
        BY <2>2 DEF PutsNew
      <4>2. ~updates[k].deletion /\ updates[k].override = Empty /\ updates[k].val = New[k]
        BY <4>1 DEF Put
      <4>3. NoEntry.override # Empty
        BY DEF NoEntry, Empty
      <4> QED  BY <4>2, <4>3
    <3>2. PICK y \in Leaves(U, root) : For(U, Leaves(U, root), k) = {y} /\ U[y].val = New[k]
      BY <2>1, <3>1 DEF Settled
    <3>3. k \in DOMAIN now /\ now[k] = U[y].val
      BY <1>2, <2>1, <3>2 DEF AreContents
    <3> QED  BY <2>2, <3>2, <3>3
  <2>3. CASE k \notin DOMAIN New
    <3>1. updates[k] # NoEntry /\ updates[k].deletion
      BY <2>3 DEF PutsNew, Delete, NoEntry
    <3>2. For(U, Leaves(U, root), k) = {}
      BY <2>1, <3>1 DEF Settled
    <3> QED  BY <1>2, <2>1, <2>3, <3>2 DEF AreContents
  <2> QED  BY <2>2, <2>3
<1>5. DOMAIN now \subseteq KeySpace /\ DOMAIN New \subseteq KeySpace
  BY <1>2 DEF AreContents
<1>6. DOMAIN now = DOMAIN New /\ \A k \in DOMAIN now : now[k] = New[k]
  BY <1>3, <1>4, <1>5
<1>7. now = [k \in DOMAIN now |-> now[k]] /\ New = [k \in DOMAIN New |-> New[k]]
  BY <1>2 DEF AreContents
<1>8. now = New
  BY <1>6, <1>7
<1> QED  BY <1>8 DEF now

(* A diff, applied as a patch, leads to a tree with the root hash of the   *)
(* new one, for any two trees that have no collapsed key, shared or not.   *)
THEOREM PatchLeads ==
  ASSUME TreesOK, NodesOK(nodes)
  PROVE  PatchLeadsThereUnlessCollapsed
<1> DEFINE updates == UpdatesOf(Diff)
           put     == Patch(from, Diff)
<1> SUFFICES ASSUME RoomForLeaves(nodes, updates), \A k \in DOMAIN Old : ~Collapsed(k)
             PROVE  put.built.hash = ParsedNode(nodes, to).hash
  BY DEF PatchLeadsThereUnlessCollapsed, PatchLeadsThere
<1>1. PutsNew(updates)
  BY LinesPutNew
<1>2. put = PutAll(nodes, from, updates)
  BY DEF Patch
<1> HIDE DEF updates, put
<1>3. CanPut(nodes, from, updates) /\ \A k \in DOMAIN updates : ~Foreign(nodes, k, updates[k])
  BY <1>1, NewRecordsCanBePut
<1>4. HasPut(nodes, from, updates, put)
  BY <1>2, <1>3, PutAllPuts
<1>5. /\ PutTree(nodes, from, updates, put.nodes, put.built.id, put.output)
      /\ put.built = Reuse(put.nodes, put.built.id) /\ Extends(put.nodes, nodes)
  BY <1>3, <1>4 DEF HasPut, PutStored
<1>6. TreeOK(put.nodes, put.built.id) /\ DOMAIN updates \in SUBSET KeySpace
  BY <1>3, <1>5 DEF PutTree, CanPut
<1>7. Contents(put.nodes, put.built.id) = New
  BY <1>1, <1>5, <1>6, PatchedIsNew
<1>8. put.built.hash = ParsedNode(put.nodes, put.built.id).hash
  BY <1>5 DEF Reuse, Built
<1>9. ParsedNode(put.nodes, put.built.id).hash = CanonicalHash(New)
  BY <1>6, <1>7, HashIsCanonical
<1>10. ParsedNode(nodes, to).hash = CanonicalHash(New)
  BY HashIsCanonical DEF TreesOK, New
<1> QED  BY <1>8, <1>9, <1>10

---------------------------------------------------------------------------
(* Trees that are built apart, or forked from one another                  *)

(* The inductive invariant: a set of updates can be put into either tree,  *)
(* and leaves the other what it was.                                       *)
IInv ==
  /\ NodesOK(nodes)
  /\ TreesOK
  /\ applies \in 0 .. MaxApplies

(* Two empty trees.                                                        *)
LEMMA NothingStored == Init => IInv
<1> SUFFICES ASSUME Init
             PROVE  IInv
  OBVIOUS
<1>1. nodes = NoTable /\ DOMAIN nodes = {} /\ from = Empty /\ to = Empty /\ applies = 0
  BY DEF Init, NoTable
<1>2. NodesOK(nodes)
  BY <1>1 DEF NodesOK, Bounded
<1>3. TreeOK(nodes, Empty)
  BY TreesAreSubtrees, EmptyIsATree
<1>4. applies \in 0 .. MaxApplies
  BY <1>1, MaxAppliesAssumption
<1> QED  BY <1>1, <1>2, <1>3, <1>4 DEF IInv, TreesOK

(* The updates that are enumerated can be put.                             *)
LEMMA UpdatesCanBePut ==
  ASSUME NodesOK(nodes), NEW root, TreeOK(nodes, root), NEW updates \in UpdateSets, RoomForLeaves(nodes, updates)
  PROVE  /\ CanPut(nodes, root, updates)
         /\ \A k \in DOMAIN updates : ~Foreign(nodes, k, updates[k])
<1> DEFINE update == {Delete} \cup {Put(v) : v \in Val}
<1>1. PICK S \in SUBSET Key : updates \in [S -> update]
  BY DEF UpdateSets
<1>2. ASSUME NEW k \in DOMAIN updates
      PROVE  /\ updates[k] \in Update /\ EntryOK(nodes, updates[k], Leaves(nodes, root))
             /\ ~Foreign(nodes, k, updates[k])
  <2>1. updates[k] = Delete \/ \E v \in Val : updates[k] = Put(v)
    BY <1>1
  <2>2. CASE updates[k] = Delete
    BY <2>2 DEF Delete, Update, EntryOK, Foreign, Empty
  <2>3. CASE \E v \in Val : updates[k] = Put(v)
    BY <2>3 DEF Put, Update, EntryOK, Foreign, Empty
  <2> QED  BY <2>1, <2>2, <2>3
<1>3. DOMAIN updates \in SUBSET KeySpace
  BY <1>1, KeyAssumption
<1> QED  BY <1>2, <1>3 DEF CanPut, NodesOK

(* What is written has values as values.                                   *)
LEMMA NodesStayOK ==
  ASSUME NEW T, NodesOK(T), NEW updates, \A k \in DOMAIN updates : updates[k] \in Update,
         NEW U, PutStored(T, updates, U)
  PROVE  NodesOK(U)
<1>1. /\ Extends(U, T) /\ DOMAIN U \in SUBSET Nat /\ Bounded(DOMAIN U) /\ Empty \notin DOMAIN U
      /\ \A x \in DOMAIN U \ DOMAIN T : NewNode(U, x, updates)
  BY DEF PutStored
<1>2. ASSUME NEW x \in DOMAIN U
      PROVE  U[x].val \in Val \cup {EmptyVal}
  <2>1. CASE x \in DOMAIN T
    BY <1>1, <2>1 DEF Extends, NodesOK
  <2>2. CASE NewLeafOf(x, updates, U[x])
    <3>1. PICK k \in DOMAIN updates : U[x] = LeafNode(k, updates[k].val)
      BY <2>2 DEF NewLeafOf
    <3>2. U[x].val = updates[k].val
      BY <3>1 DEF LeafNode, EmptyNode
    <3> QED  BY <3>2 DEF Update
  <2>3. CASE BranchWritten(DOMAIN U, x, U[x])
    <3>1. PICK l, r : U[x] = BranchNode(l, r)
      BY <2>3 DEF BranchWritten
    <3>2. U[x].val = EmptyVal
      BY <3>1 DEF BranchNode, EmptyNode
    <3> QED  BY <3>2
  <2> QED  BY <1>1, <2>1, <2>2, <2>3 DEF NewNode
<1> QED  BY <1>1, <1>2 DEF NodesOK

(* apply() to one of two trees makes a tree of it, and the other stays.    *)
LEMMA ApplyKeeps ==
  ASSUME IInv, NEW root \in {from, to}, NEW updates \in UpdateSets, Apply(root, updates)
  PROVE  IInv'
<1> DEFINE put == PutAll(nodes, root, updates)
<1>1. NodesOK(nodes) /\ TreeOK(nodes, from) /\ TreeOK(nodes, to) /\ TreeOK(nodes, root)
  BY DEF IInv, TreesOK
<1>2. /\ nodes' = put.nodes /\ RoomForLeaves(nodes, updates)
      /\ applies < MaxApplies /\ applies' = applies + 1
      /\ (from' = put.built.id /\ to' = to) \/ (from' = from /\ to' = put.built.id)
  BY DEF Apply
<1>3. CanPut(nodes, root, updates) /\ \A k \in DOMAIN updates : ~Foreign(nodes, k, updates[k])
  BY <1>1, <1>2, UpdatesCanBePut
<1>4. HasPut(nodes, root, updates, put)
  BY <1>3, PutAllPuts
<1> HIDE DEF put
<1>5. PutStored(nodes, updates, nodes') /\ TreeOK(nodes', put.built.id)
  BY <1>2, <1>3, <1>4 DEF HasPut, PutTree
<1>6. NodesOK(nodes')
  BY <1>1, <1>3, <1>5, NodesStayOK DEF CanPut
<1>7. TreeOK(nodes', from) /\ TreeOK(nodes', to)
  <2>1. Extends(nodes', nodes)
    BY <1>5 DEF PutStored
  <2> QED  BY <1>1, <2>1, OldTreesStay
<1>8. TreeOK(nodes', from') /\ TreeOK(nodes', to')
  BY <1>2, <1>5, <1>7
<1>9. applies' \in 0 .. MaxApplies
  BY <1>2, MaxAppliesAssumption DEF IInv
<1> QED  BY <1>6, <1>8, <1>9 DEF IInv, TreesOK

(* In all states there are two trees, and nodes that the next updates can  *)
(* be put among.                                                           *)
LEMMA AlwaysTrees == Spec => []IInv
<1>1. ASSUME IInv, [Next]_vars
      PROVE  IInv'
  <2>1. CASE \E updates \in UpdateSets, root \in {from, to} : Apply(root, updates)
    BY <1>1, <2>1, ApplyKeeps
  <2>2. CASE Fork
    BY <1>1, <2>2 DEF Fork, IInv, TreesOK
  <2>3. CASE UNCHANGED vars
    BY <1>1, <2>3 DEF vars, IInv, TreesOK
  <2> QED  BY <1>1, <2>1, <2>2, <2>3 DEF Next
<1> QED  BY <1>1, NothingStored, PTL DEF Spec

(* Whatever is applied to two versions, and whichever is forked from the   *)
(* other, both stay whole trees: apply() writes new nodes and changes none *)
(* that the other version shares.                                          *)
THEOREM TreesStayWhole == Spec => []TypeOK
  <1>1. IInv => TypeOK
    BY DEF IInv, TypeOK
  <1> QED  BY <1>1, AlwaysTrees, PTL

(* At any time diff() has lines for the keys whose records differ, and for *)
(* no others.                                                              *)
THEOREM DiffsNameTheChanges == Spec => []NamesTheChanges
  <1>1. IInv => NamesTheChanges
    BY DiffNamesTheChanges DEF IInv
  <1> QED  BY <1>1, AlwaysTrees, PTL

(* And its lines carry the old values and the new ones, but where a record *)
(* has collapsed.                                                          *)
THEOREM DiffsTellOldAndNew == Spec => []LinesTellOldAndNew
  <1>1. IInv => LinesTellOldAndNew
    BY DiffTellsOldAndNew DEF IInv
  <1> QED  BY <1>1, AlwaysTrees, PTL

(* Then quadb patch, given the diff, makes of the old version one with the *)
(* root hash of the new.                                                   *)
THEOREM PatchesLeadThere == Spec => []PatchLeadsThereUnlessCollapsed
  <1>1. IInv => PatchLeadsThereUnlessCollapsed
    BY PatchLeads DEF IInv
  <1> QED  BY <1>1, AlwaysTrees, PTL
=============================================================================

--------------------------- MODULE IteratorProofs ---------------------------
(***************************************************************************)
(* Iterators are right in well-formed trees of any depth: on the way from  *)
(* the target to the end they skip nothing, they end early only beside an  *)
(* empty child, and a saved place is found again.                          *)
(*                                                                         *)
(* The stack of an iterator is a path of the tree, and the order of two    *)
(* leaves shows at the branch where their paths part (TreeProofs).    *)
(***************************************************************************)
EXTENDS Iterator, TreeProofs

(* Whether an iterator meets key k before key l.                           *)
Comes(k, l, reverse) == IF reverse THEN k > l ELSE k < l

(* The current node of an iterator is the one its path ends in.            *)
LEMMA CurrentNode ==
  /\ \A id : NodeAt(id) = ParsedNode(nodes, id)
  /\ \A p : Current(p) = ParsedNode(nodes, End(p))
  /\ EmptyNode.left = Empty /\ EmptyNode.right = Empty
  /\ ~IsBranch(ParsedNode(nodes, Empty)) /\ ~IsLeaf(ParsedNode(nodes, Empty))
  BY DEF NodeAt, Current, Last, End, EmptyNode, ParsedNode, IsBranch, IsLeaf

(* A branch has a child, and is entered by one.                            *)
LEMMA BranchesAreEntered ==
  ASSUME WellFormed(nodes, head), NEW p \in Paths(nodes, head), IsBranch(Current(p)),
         NEW reverse \in BOOLEAN
  PROVE  /\ Entry(Current(p), reverse) \in Sides(nodes, End(p))
         /\ Entry(Current(p), reverse) # Empty
         /\ Current(p) = nodes[End(p)] /\ nodes[End(p)].left # nodes[End(p)].right
<1>0. p[1] = head /\ Depth \in Nat
  BY DepthAssumption DEF Paths
<1>1. /\ p[1] = head /\ Len(p) \in 1 .. Depth + 1 /\ Len(p) - 1 \in 0 .. Depth
      /\ 1 \in 1 .. Len(p) /\ Len(p) \in 1 .. Len(p)
  <2>1. Len(p) \in 1 .. Depth + 1
    BY PathsAreShort
  <2> QED  BY <1>0, <2>1
<1>2. End(p) # Empty /\ Current(p) = ParsedNode(nodes, End(p))
  BY CurrentNode
<1>3. End(p) \in AtDepth(nodes, head, Len(p) - 1)
  BY <1>1, <1>2, PathsGoDown DEF End
<1>4. Current(p) = nodes[End(p)] /\ ~IsLeaf(nodes[End(p)])
  BY <1>2 DEF ParsedNode, IsLeaf, IsBranch
<1>5. nodes[End(p)].left # nodes[End(p)].right
  BY <1>1, <1>3, <1>4 DEF WellFormed
<1> QED  BY <1>2, <1>4, <1>5 DEF Entry, Far, Sides

---------------------------------------------------------------------------
(* Entering a subtree                                                      *)

(* The paths that lead on from s, by the child to enter each branch by.    *)
Descents(s, reverse) ==
  {e \in Paths(nodes, head) :
     /\ Len(s) <= Len(e)
     /\ \A i \in 1 .. Len(s) : e[i] = s[i]
     /\ \A i \in Len(s) .. Len(e) - 1 : e[i + 1] = Entry(NodeAt(e[i]), reverse)
     /\ End(s) # Empty => End(e) # Empty
     /\ ~IsBranch(Current(s)) => e = s}

(* One step of a descent leads on to a path that is longer by one node,    *)
(* until it comes to a leaf.                                               *)
LEMMA DescentsGoOn ==
  ASSUME WellFormed(nodes, head), NEW s \in Paths(nodes, head), NEW reverse \in BOOLEAN,
         NEW e \in Descents(s, reverse)
  PROVE  /\ Down(e, reverse) \in Descents(s, reverse)
         /\ IsBranch(Current(e)) => Len(Down(e, reverse)) = Len(e) + 1 /\ Len(e) < Depth + 1
<1>1. CASE ~IsBranch(Current(e))
  BY <1>1 DEF Down
<1>2. CASE IsBranch(Current(e))
  <2> DEFINE c == Entry(Current(e), reverse)
             f == Append(e, c)
  <2>1. e \in Paths(nodes, head) /\ Len(e) \in Nat /\ Len(s) \in Nat /\ e \in Seq(DOMAIN nodes \cup {Empty})
    BY DEF Descents, Paths
  <2>2. c \in Sides(nodes, End(e)) /\ c # Empty /\ IsBranch(ParsedNode(nodes, End(e)))
    BY <1>2, <2>1, BranchesAreEntered, CurrentNode
  <2>3. f \in Paths(nodes, head) /\ Len(f) <= Depth + 1
    BY <2>1, <2>2, PathsGoOn
  <2>4. /\ Len(f) = Len(e) + 1 /\ f[Len(e) + 1] = c /\ \A i \in 1 .. Len(e) : f[i] = e[i]
    BY <2>1
  <2>5. Down(e, reverse) = f
    BY <1>2 DEF Down
  <2> HIDE DEF f
  <2>6. End(f) # Empty
    BY <2>2, <2>4 DEF End
  <2>7. \A i \in 1 .. Len(s) : f[i] = s[i]
    BY <2>1, <2>4 DEF Descents
  <2>8. ASSUME NEW i \in Len(s) .. Len(f) - 1
        PROVE  f[i + 1] = Entry(NodeAt(f[i]), reverse)
    <3>0. Len(s) >= 1
      BY DEF Paths
    <3>1. CASE i = Len(e)
      <4>1. f[i] = End(e) /\ f[i + 1] = c
        BY <2>1, <2>4, <3>0, <3>1 DEF End
      <4> QED  BY <4>1, CurrentNode
    <3>2. CASE i # Len(e)
      <4>1. i \in Len(s) .. Len(e) - 1 /\ f[i] = e[i] /\ f[i + 1] = e[i + 1]
        BY <2>1, <2>4, <3>0, <3>2
      <4> QED  BY <4>1 DEF Descents
    <3> QED  BY <3>1, <3>2
  <2>9. IsBranch(Current(s))
    BY <1>2 DEF Descents
  <2>10. Len(s) <= Len(f) /\ Len(e) < Depth + 1
    BY <2>1, <2>3, <2>4, DepthAssumption DEF Descents
  <2>11. f \in Descents(s, reverse)
    BY <2>3, <2>6, <2>7, <2>8, <2>9, <2>10 DEF Descents
  <2> QED  BY <1>2, <2>4, <2>5, <2>10, <2>11
<1> QED  BY <1>1, <1>2

Entering == INSTANCE Recursion WITH First <- LAMBDA p : p[1],
                                    Step  <- LAMBDA p, n, x : Down(x, p[2])

(* Enter goes down until it is at a leaf, or at once stops at an empty     *)
(* child.                                                                  *)
LEMMA EnterGoesDown ==
  ASSUME WellFormed(nodes, head), NEW s \in Paths(nodes, head), NEW reverse \in BOOLEAN
  PROVE  Enter(s, reverse) \in Descents(s, reverse) /\ ~IsBranch(Current(Enter(s, reverse)))
<1> DEFINE S       == Descents(s, reverse)
           entered == Entering!Recursive(<<s, reverse>>)
<1>1. s \in S
  BY DEF Descents, Paths
<1>2. entered[0] = s /\ \A n \in Nat : entered[n + 1] = Down(entered[n], reverse)
  BY Entering!RecursionFollows
<1>3. Enter(s, reverse) = entered[Depth]
  BY DEF Enter, Entering!Recursive
<1> HIDE DEF entered
<1> DEFINE T == {n \in Nat : /\ entered[n] \in S
                             /\ IsBranch(Current(entered[n])) => Len(entered[n]) >= n + 1}
<1>4. 0 \in T
  <2>1. entered[0] = s /\ Len(s) >= 1
    BY <1>2 DEF Paths
  <2> QED  BY <1>1, <2>1
<1>5. ASSUME NEW n \in T
      PROVE  n + 1 \in T
  <2>1. entered[n + 1] = Down(entered[n], reverse)
    BY <1>2
  <2>2. entered[n + 1] \in S
    BY <2>1, DescentsGoOn
  <2>3. CASE IsBranch(Current(entered[n]))
    BY <2>1, <2>2, <2>3, DescentsGoOn
  <2>4. CASE ~IsBranch(Current(entered[n]))
    <3>1. entered[n + 1] = entered[n]
      BY <2>1, <2>4 DEF Down
    <3> QED  BY <2>2, <2>4, <3>1
  <2> QED  BY <2>3, <2>4
<1>6. T = Nat
  <2>1. T \in SUBSET Nat
    OBVIOUS
  <2> HIDE DEF T
  <2> QED  BY <1>4, <1>5, <2>1, AllNumbers
<1>7. entered[Depth] \in S /\ (IsBranch(Current(entered[Depth])) => Len(entered[Depth]) >= Depth + 1)
  BY <1>6, DepthAssumption
<1>8. IsBranch(Current(entered[Depth])) => Len(entered[Depth]) < Depth + 1
  BY <1>7, DescentsGoOn
<1>9. Len(entered[Depth]) \in Nat
  BY <1>7 DEF Descents, Paths
<1> QED  BY <1>3, <1>7, <1>8, <1>9, DepthAssumption

---------------------------------------------------------------------------
(* Order                                                                   *)

(* Where two paths part, they take the two children of a branch.           *)
LEMMA PathsPartAtBranches ==
  ASSUME WellFormed(nodes, head),
         NEW p \in LeafPaths(nodes, head), NEW q \in LeafPaths(nodes, head), NEW d \in Nat,
         d \in 1 .. Len(p) - 1, d \in 1 .. Len(q) - 1,
         \A i \in 1 .. d : p[i] = q[i], p[d + 1] # q[d + 1]
  PROVE  /\ NodeAt(p[d]) = nodes[p[d]] /\ nodes[p[d]].left # nodes[p[d]].right
         /\ p[d + 1] # Empty /\ q[d + 1] # Empty
         /\ p[d + 1] \in {nodes[p[d]].left, nodes[p[d]].right}
         /\ q[d + 1] \in {nodes[p[d]].left, nodes[p[d]].right}
<1>1. /\ p \in Paths(nodes, head) /\ q \in Paths(nodes, head) /\ Len(p) \in Nat /\ Len(q) \in Nat
      /\ p[d] = q[d]
  BY DEF LeafPaths, Paths
<1>2. p[d] # Empty /\ p[d + 1] \in {nodes[p[d]].left, nodes[p[d]].right}
  BY <1>1, PathsAreShort
<1>3. NodeAt(p[d]) = nodes[p[d]]
  BY <1>2 DEF NodeAt, ParsedNode
<1>4. q[d + 1] \in {nodes[p[d]].left, nodes[p[d]].right}
  BY <1>1, PathsAreShort
<1>5. nodes[p[d]].left # nodes[p[d]].right
  BY <1>1, BranchesOfPaths
<1>6. ASSUME NEW r \in LeafPaths(nodes, head), d \in 1 .. Len(r) - 1
      PROVE  r[d + 1] # Empty
  <2>1. r \in Paths(nodes, head) /\ Len(r) \in Nat
    BY DEF LeafPaths, Paths
  <2>2. CASE d + 1 = Len(r)
    BY <2>2, CurrentNode DEF LeafPaths, End
  <2>3. CASE d + 1 # Len(r)
    <3>1. d + 1 \in 1 .. Len(r) - 1
      BY <1>6, <2>1, <2>3
    <3> QED  BY <2>1, <3>1, PathsAreShort
  <2> QED  BY <2>2, <2>3
<1> QED  BY <1>2, <1>3, <1>4, <1>5, <1>6

(* The one that takes the near child leads to the key that the iterator    *)
(* meets first.                                                            *)
LEMMA NearComesFirst ==
  ASSUME WellFormed(nodes, head), NEW reverse \in BOOLEAN,
         NEW p \in LeafPaths(nodes, head), NEW q \in LeafPaths(nodes, head), NEW d \in Nat,
         d \in 1 .. Len(p) - 1, d \in 1 .. Len(q) - 1,
         \A i \in 1 .. d : p[i] = q[i], p[d + 1] # q[d + 1]
  PROVE  IF p[d + 1] = Far(NodeAt(p[d]), ~reverse)
         THEN Comes(KeyOf(nodes, p), KeyOf(nodes, q), reverse)
         ELSE Comes(KeyOf(nodes, q), KeyOf(nodes, p), reverse)
<1>1. /\ NodeAt(p[d]) = nodes[p[d]] /\ nodes[p[d]].left # nodes[p[d]].right
      /\ p[d + 1] \in {nodes[p[d]].left, nodes[p[d]].right}
      /\ q[d + 1] \in {nodes[p[d]].left, nodes[p[d]].right}
  BY PathsPartAtBranches
<1>2. p[d + 1] = nodes[p[d]].left => KeyOf(nodes, p) < KeyOf(nodes, q)
  BY LeftComesFirst
<1>3. q[d + 1] = nodes[p[d]].left => KeyOf(nodes, q) < KeyOf(nodes, p)
  <2>1. p[d] = q[d] /\ \A i \in 1 .. d : q[i] = p[i]
    OBVIOUS
  <2> QED  BY <2>1, LeftComesFirst
<1> QED  BY <1>1, <1>2, <1>3 DEF Comes, Far

(* The keys that the leaves of the tree have are keys.                     *)
LEMMA KeysOfPaths ==
  ASSUME WellFormed(nodes, head)
  PROVE  \A p \in LeafPaths(nodes, head) : KeyOf(nodes, p) \in KeySpace /\ KeyOf(nodes, p) \in Nat
  BY LeavesAreWhereTheirKeysLead, KeysAreNumbers

(* Of all leaves below the end of s, the one that Enter goes to is met     *)
(* first.                                                                  *)
LEMMA FirstOfASubtree ==
  ASSUME WellFormed(nodes, head), NEW reverse \in BOOLEAN,
         NEW s \in Paths(nodes, head), End(s) # Empty
  PROVE  LET e == Enter(s, reverse) IN
         /\ e \in LeafPaths(nodes, head) /\ Len(s) <= Len(e) /\ \A i \in 1 .. Len(s) : e[i] = s[i]
         /\ \A q \in LeafPaths(nodes, head) :
              Len(s) <= Len(q) /\ (\A i \in 1 .. Len(s) : q[i] = s[i]) =>
                q = e \/ Comes(KeyOf(nodes, e), KeyOf(nodes, q), reverse)
<1> DEFINE e == Enter(s, reverse)
<1>1. e \in Descents(s, reverse) /\ ~IsBranch(Current(e))
  BY EnterGoesDown
<1> HIDE DEF e
<1>2. e \in Paths(nodes, head) /\ End(e) # Empty /\ Len(s) <= Len(e) /\ \A i \in 1 .. Len(s) : e[i] = s[i]
  BY <1>1 DEF Descents
<1>3. e \in LeafPaths(nodes, head)
  BY <1>1, <1>2, EndsOfPaths, CurrentNode DEF LeafPaths
<1>4. ASSUME NEW q \in LeafPaths(nodes, head), Len(s) <= Len(q), \A i \in 1 .. Len(s) : q[i] = s[i],
             q # e
      PROVE  Comes(KeyOf(nodes, e), KeyOf(nodes, q), reverse)
  <2>1. PICK d \in Nat : /\ d \in 1 .. Len(e) - 1 /\ d \in 1 .. Len(q) - 1
                         /\ \A i \in 1 .. d : e[i] = q[i]
                         /\ e[d + 1] # q[d + 1]
    <3>1. e # q /\ q \in LeafPaths(nodes, head)
      BY <1>4
    <3> HIDE <1>4
    <3> QED  BY <1>3, <3>1, PathsPart
  <2>2. Len(s) \in Nat /\ Len(s) >= 1 /\ Len(e) \in Nat /\ Len(q) \in Nat
    BY <1>2 DEF Paths, LeafPaths
  <2>3. d >= Len(s)
    <3> SUFFICES ASSUME d < Len(s)
                 PROVE  FALSE
      BY <2>2
    <3>1. d + 1 \in 1 .. Len(s)
      BY <2>2
    <3> QED  BY <1>2, <1>4, <2>1, <3>1
  <2>4. e[d + 1] = Entry(NodeAt(e[d]), reverse)
    BY <1>1, <2>1, <2>2, <2>3 DEF Descents
  <2>5. /\ NodeAt(e[d]) = nodes[e[d]] /\ e[d + 1] # Empty /\ q[d + 1] # Empty
        /\ e[d + 1] \in {nodes[e[d]].left, nodes[e[d]].right}
        /\ q[d + 1] \in {nodes[e[d]].left, nodes[e[d]].right}
    BY <1>3, <2>1, PathsPartAtBranches
  <2>6. e[d + 1] = Far(NodeAt(e[d]), ~reverse)
    BY <2>1, <2>4, <2>5 DEF Entry, Far
  <2> QED  BY <1>3, <2>1, <2>6, NearComesFirst
<1> QED  BY <1>2, <1>3, <1>4 DEF e

---------------------------------------------------------------------------
(* Moving on                                                               *)

(* What is left of the stack when next() has climbed up.                   *)
LEMMA Climbing ==
  ASSUME NEW p \in Paths(nodes, head), NEW reverse \in BOOLEAN
  PROVE  \E m \in Nat :
           /\ m < Len(p)
           /\ PopDone(p, reverse) = SubSeq(p, 1, m)
           /\ m # 0 => ~LeftByFarChild(p, m, reverse)
           /\ \A i \in m + 1 .. Len(p) - 1 : LeftByFarChild(p, i, reverse)
<1> DEFINE open == {0} \cup {i \in 1 .. Len(p) - 1 : ~LeftByFarChild(p, i, reverse)}
           dist == {Len(p) - i : i \in open}
<1>1. Len(p) \in Nat /\ Len(p) >= 1
  BY DEF Paths
<1>2. dist \in SUBSET Nat /\ dist # {}
  BY <1>1
<1>3. PICK x \in dist : \A y \in dist : x <= y
  <2> HIDE DEF dist
  <2> QED  BY <1>2, LeastElement
<1>4. PICK m \in open : x = Len(p) - m
  OBVIOUS
<1>5. \A i \in open : i <= m
  <2> SUFFICES ASSUME NEW i \in open
               PROVE  i <= m
    OBVIOUS
  <2>1. Len(p) - m <= Len(p) - i
    BY <1>3, <1>4
  <2> QED  BY <1>1, <2>1
<1>6. Max(open) = m
  <2>1. \A i \in open : i \in Nat
    BY <1>1
  <2> HIDE DEF open
  <2>2. m \in open /\ \A i \in open : m >= i
    BY <1>5, <2>1
  <2>3. \A x2 \in open : (\A i \in open : x2 >= i) => x2 = m
    BY <2>1, <2>2
  <2> QED  BY <2>2, <2>3 DEF Max
<1>7. PopDone(p, reverse) = SubSeq(p, 1, m)
  BY <1>6 DEF PopDone
<1>8. m \in Nat /\ m < Len(p) /\ (m # 0 => ~LeftByFarChild(p, m, reverse))
  BY <1>1
<1>9. \A i \in m + 1 .. Len(p) - 1 : LeftByFarChild(p, i, reverse)
  BY <1>1, <1>5, <1>8
<1> QED  BY <1>7, <1>8, <1>9

(* What is left of a path when next() has popped nodes off it is a path.   *)
LEMMA PathsHavePrefixes ==
  ASSUME NEW p \in Paths(nodes, head), NEW m \in Nat, 1 <= m, m <= Len(p)
  PROVE  /\ SubSeq(p, 1, m) \in Paths(nodes, head)
         /\ Len(SubSeq(p, 1, m)) = m /\ End(SubSeq(p, 1, m)) = p[m]
         /\ \A i \in 1 .. m : SubSeq(p, 1, m)[i] = p[i]
<1>1. p \in Seq(DOMAIN nodes \cup {Empty}) /\ Len(p) \in Nat /\ p[1] = head
  BY DEF Paths
<1> DEFINE q == SubSeq(p, 1, m)
<1>2. /\ q \in Seq(DOMAIN nodes \cup {Empty}) /\ Len(q) = m
      /\ \A i \in 1 .. m : q[i] = p[i]
  BY <1>1
<1> HIDE DEF q
<1>3. q # <<>> /\ q[1] = head
  BY <1>1, <1>2
<1>4. ASSUME NEW i \in 1 .. Len(q) - 1
      PROVE  IsBranch(ParsedNode(nodes, q[i])) /\ q[i + 1] \in Sides(nodes, q[i])
  <2>1. i \in 1 .. Len(p) - 1 /\ q[i] = p[i] /\ q[i + 1] = p[i + 1]
    BY <1>1, <1>2
  <2> QED  BY <2>1 DEF Paths
<1>5. q \in Paths(nodes, head)
  BY <1>2, <1>3, <1>4 DEF Paths
<1>6. End(q) = p[m]
  BY <1>2 DEF End
<1> QED  BY <1>2, <1>5, <1>6 DEF q

(* What next() comes to from a leaf: nothing, when no leaf is left ahead;  *)
(* an empty child; or of all leaves ahead the first.                       *)
NothingAhead(p, reverse) ==
  \A q \in LeafPaths(nodes, head) : q = p \/ Comes(KeyOf(nodes, q), KeyOf(nodes, p), reverse)

NextAhead(p, r, reverse) ==
  /\ r \in LeafPaths(nodes, head)
  /\ Comes(KeyOf(nodes, p), KeyOf(nodes, r), reverse)
  /\ \A q \in LeafPaths(nodes, head) :
       \/ q = p \/ Comes(KeyOf(nodes, q), KeyOf(nodes, p), reverse)
       \/ q = r \/ Comes(KeyOf(nodes, r), KeyOf(nodes, q), reverse)

AtAGap(r, reverse) ==
  /\ r \in Paths(nodes, head) /\ End(r) = Empty /\ Len(r) > 1
  /\ Far(NodeAt(r[Len(r) - 1]), reverse) = Empty

(* next() goes to the next leaf in the direction of travel, to the end     *)
(* when there is none, or to a child that is missing.                      *)
LEMMA AdvanceGoesToTheNext ==
  ASSUME WellFormed(nodes, head), NEW reverse \in BOOLEAN, NEW p \in LeafPaths(nodes, head)
  PROVE  LET r == Advance(p, reverse) IN
         \/ r = <<>> /\ NothingAhead(p, reverse)
         \/ NextAhead(p, r, reverse)
         \/ AtAGap(r, reverse)
<1>0. p \in Paths(nodes, head) /\ Len(p) \in Nat /\ p \in Seq(DOMAIN nodes \cup {Empty})
  BY DEF LeafPaths, Paths
<1>1. PICK m \in Nat :
        /\ m < Len(p)
        /\ PopDone(p, reverse) = SubSeq(p, 1, m)
        /\ m # 0 => ~LeftByFarChild(p, m, reverse)
        /\ \A i \in m + 1 .. Len(p) - 1 : LeftByFarChild(p, i, reverse)
  BY <1>0, Climbing
(* A path that parts from p below its m-th node comes before it.           *)
<1>2. ASSUME NEW q \in LeafPaths(nodes, head), NEW d \in Nat,
             d \in 1 .. Len(p) - 1, d \in 1 .. Len(q) - 1,
             \A i \in 1 .. d : p[i] = q[i], p[d + 1] # q[d + 1], d > m
      PROVE  Comes(KeyOf(nodes, q), KeyOf(nodes, p), reverse)
  <2>1. LeftByFarChild(p, d, reverse)
    BY <1>0, <1>1, <1>2
  <2>2. NodeAt(p[d]).left # NodeAt(p[d]).right
    BY <1>2, PathsPartAtBranches
  <2>3. p[d + 1] # Far(NodeAt(p[d]), ~reverse)
    BY <2>1, <2>2 DEF LeftByFarChild, Far
  <2> QED  BY <1>2, <2>3, NearComesFirst
<1>3. CASE m = 0
  <2>1. PopDone(p, reverse) = <<>>
    BY <1>0, <1>1, <1>3
  <2>2. Advance(p, reverse) = <<>>
    BY <2>1 DEF Advance
  <2>3. ASSUME NEW q \in LeafPaths(nodes, head), p # q
        PROVE  Comes(KeyOf(nodes, q), KeyOf(nodes, p), reverse)
    <3>1. PICK d \in Nat : /\ d \in 1 .. Len(p) - 1 /\ d \in 1 .. Len(q) - 1
                           /\ \A i \in 1 .. d : p[i] = q[i]
                           /\ p[d + 1] # q[d + 1]
      BY <2>3, PathsPart
    <3> QED  BY <1>2, <1>3, <3>1
  <2> QED  BY <2>2, <2>3 DEF NothingAhead
<1>4. CASE m # 0
  <2> DEFINE rest == SubSeq(p, 1, m)
             c    == Far(NodeAt(p[m]), reverse)
             s    == Append(rest, c)
  <2>1. /\ rest \in Paths(nodes, head) /\ Len(rest) = m /\ End(rest) = p[m]
        /\ \A i \in 1 .. m : rest[i] = p[i]
    <3>1. 1 <= m /\ m <= Len(p)
      BY <1>0, <1>1, <1>4
    <3> QED  BY <1>0, <3>1, PathsHavePrefixes
  <2>2. m \in 1 .. Len(p) - 1 /\ m \in Nat
    BY <1>0, <1>1, <1>4
  <2>3. IsBranch(ParsedNode(nodes, p[m])) /\ p[m + 1] \in Sides(nodes, p[m])
    BY <1>0, <2>2 DEF Paths
  <2>4. /\ rest # <<>> /\ Current(rest) = NodeAt(p[m]) /\ NodeAt(p[m]) = ParsedNode(nodes, p[m])
        /\ rest \in Seq(DOMAIN nodes \cup {Empty})
    BY <2>1, CurrentNode DEF Paths
  <2>5. Advance(p, reverse) = Enter(s, reverse)
    BY <1>1, <2>4 DEF Advance
  <2>6. c \in Sides(nodes, End(rest)) /\ IsBranch(ParsedNode(nodes, End(rest)))
    BY <2>1, <2>3, <2>4 DEF Far, Sides
  <2> HIDE DEF rest
  <2>7. s \in Paths(nodes, head)
    BY <2>1, <2>6, PathsGoOn
  <2>8. /\ Len(s) = m + 1 /\ s[m + 1] = c /\ End(s) = c
        /\ \A i \in 1 .. m : s[i] = p[i]
    BY <2>1, <2>2, <2>4 DEF End
  <2> HIDE DEF s
  <2>9. CASE c = Empty
    <3>1. ~IsBranch(Current(s))
      BY <2>8, <2>9, CurrentNode
    <3>2. Enter(s, reverse) = s
      BY <2>7, <3>1, EnterGoesDown DEF Descents
    <3>3. Len(s) - 1 = m /\ s[m] = p[m] /\ Len(s) > 1
      BY <2>2, <2>8
    <3>4. AtAGap(s, reverse)
      BY <2>7, <2>8, <2>9, <3>3 DEF AtAGap
    <3> QED  BY <2>5, <3>2, <3>4
  <2>10. CASE c # Empty
    <3> DEFINE r == Enter(s, reverse)
    <3>1. /\ r \in LeafPaths(nodes, head) /\ Len(s) <= Len(r) /\ \A i \in 1 .. Len(s) : r[i] = s[i]
          /\ \A q \in LeafPaths(nodes, head) :
               Len(s) <= Len(q) /\ (\A i \in 1 .. Len(s) : q[i] = s[i]) =>
                 q = r \/ Comes(KeyOf(nodes, r), KeyOf(nodes, q), reverse)
      BY <2>7, <2>8, <2>10, FirstOfASubtree
    <3> HIDE DEF r
    <3>2. /\ Len(r) \in Nat /\ m \in 1 .. Len(r) - 1 /\ r[m + 1] = c
          /\ \A i \in 1 .. m : r[i] = p[i]
      BY <2>2, <2>8, <3>1 DEF LeafPaths, Paths
    <3>3. p[m + 1] # c
      BY <1>1, <1>4, <2>10 DEF LeftByFarChild
    <3>4. p[m + 1] = Far(NodeAt(p[m]), ~reverse)
      BY <2>3, <2>4, <3>3 DEF Far, Sides
    <3>5. Comes(KeyOf(nodes, p), KeyOf(nodes, r), reverse)
      BY <2>2, <3>1, <3>2, <3>3, <3>4, NearComesFirst
    <3>6. ASSUME NEW q \in LeafPaths(nodes, head), p # q
          PROVE  \/ Comes(KeyOf(nodes, q), KeyOf(nodes, p), reverse)
                 \/ q = r \/ Comes(KeyOf(nodes, r), KeyOf(nodes, q), reverse)
      <4>1. PICK d \in Nat : /\ d \in 1 .. Len(p) - 1 /\ d \in 1 .. Len(q) - 1
                             /\ \A i \in 1 .. d : p[i] = q[i]
                             /\ p[d + 1] # q[d + 1]
        BY <3>6, PathsPart
      <4>2. CASE d > m
        BY <1>2, <4>1, <4>2
      <4>3. CASE d = m
        <5>1. q[m + 1] = c
          <6>1. /\ p[d + 1] \in {NodeAt(p[d]).left, NodeAt(p[d]).right}
                /\ q[d + 1] \in {NodeAt(p[d]).left, NodeAt(p[d]).right}
            BY <4>1, PathsPartAtBranches
          <6> QED  BY <3>3, <4>1, <4>3, <6>1 DEF Far
        <5>2. Len(q) \in Nat /\ Len(s) <= Len(q)
          BY <2>2, <2>8, <4>1, <4>3 DEF LeafPaths, Paths
        <5>3. \A i \in 1 .. Len(s) : q[i] = s[i]
          BY <2>2, <2>8, <4>1, <4>3, <5>1
        <5> QED  BY <3>1, <5>2, <5>3
      <4>4. CASE d < m
        <5>1. /\ d \in 1 .. Len(r) - 1 /\ \A i \in 1 .. d : r[i] = p[i]
              /\ d + 1 \in 1 .. m /\ r[d + 1] = p[d + 1]
          BY <2>2, <3>2, <4>1, <4>4
        <5>2. r[d] = p[d] /\ \A i \in 1 .. d : r[i] = q[i]
          BY <4>1, <5>1
        <5>3. CASE p[d + 1] = Far(NodeAt(p[d]), ~reverse)
          BY <3>1, <4>1, <5>1, <5>2, <5>3, NearComesFirst
        <5>4. CASE p[d + 1] # Far(NodeAt(p[d]), ~reverse)
          BY <4>1, <5>4, NearComesFirst
        <5> QED  BY <5>3, <5>4
      <4> QED  BY <2>2, <4>2, <4>3, <4>4
    <3>7. NextAhead(p, r, reverse)
      BY <3>1, <3>5, <3>6 DEF NextAhead
    <3> QED  BY <2>5, <3>7 DEF r
  <2> QED  BY <2>9, <2>10
<1> QED  BY <1>3, <1>4

---------------------------------------------------------------------------
(* Seeking                                                                 *)

(* The paths along the bits of a key.                                      *)
Ways(target) ==
  {p \in Paths(nodes, head) :
     /\ \A i \in 1 .. Len(p) - 1 : p[i + 1] = Toward(nodes, p[i], target, i - 1)
     /\ head # Empty => End(p) # Empty}

(* One step of the constructor goes on along the bits of the target.       *)
LEMMA WaysGoOn ==
  ASSUME WellFormed(nodes, head), NEW target \in KeySpace, NEW p \in Ways(target)
  PROVE  /\ Turn(p, target) \in Ways(target)
         /\ Turn(p, target) # p => Len(Turn(p, target)) = Len(p) + 1 /\ Len(p) < Depth + 1
<1>1. CASE Turn(p, target) = p
  BY <1>1
<1>2. CASE Turn(p, target) # p
  <2> DEFINE c == ChildToward(p, target)
             f == Append(p, c)
  <2>1. p \in Paths(nodes, head) /\ Len(p) \in Nat /\ Len(p) >= 1 /\ p \in Seq(DOMAIN nodes \cup {Empty})
    BY DEF Ways, Paths
  <2>2. IsBranch(Current(p)) /\ c # Empty /\ Turn(p, target) = f
    BY <1>2 DEF Turn
  <2>3. Current(p) = ParsedNode(nodes, End(p)) /\ Current(p) = nodes[End(p)]
    BY <2>1, <2>2, BranchesAreEntered, CurrentNode
  <2>4. c = Toward(nodes, End(p), target, Len(p) - 1) /\ c \in Sides(nodes, End(p))
    BY <2>3 DEF ChildToward, Toward, Sides
  <2>5. f \in Paths(nodes, head) /\ Len(f) <= Depth + 1
    BY <2>1, <2>2, <2>3, <2>4, PathsGoOn
  <2>6. Len(f) = Len(p) + 1 /\ f[Len(p) + 1] = c /\ \A i \in 1 .. Len(p) : f[i] = p[i]
    BY <2>1
  <2> HIDE DEF f
  <2>7. ASSUME NEW i \in 1 .. Len(f) - 1
        PROVE  f[i + 1] = Toward(nodes, f[i], target, i - 1)
    <3>1. CASE i = Len(p)
      <4>1. f[i] = End(p) /\ f[i + 1] = c
        BY <2>1, <2>6, <3>1 DEF End
      <4> QED  BY <2>4, <3>1, <4>1
    <3>2. CASE i # Len(p)
      <4>1. i \in 1 .. Len(p) - 1 /\ f[i] = p[i] /\ f[i + 1] = p[i + 1]
        BY <2>1, <2>6, <3>2
      <4> QED  BY <4>1 DEF Ways
    <3> QED  BY <3>1, <3>2
  <2>8. End(f) # Empty
    BY <2>2, <2>6 DEF End
  <2>9. f \in Ways(target)
    BY <2>5, <2>7, <2>8 DEF Ways
  <2>10. Len(p) < Depth + 1
    BY <2>1, <2>5, <2>6, DepthAssumption
  <2> QED  BY <2>2, <2>6, <2>9, <2>10
<1> QED  BY <1>1, <1>2

Turning == INSTANCE Recursion WITH First <- LAMBDA p : <<head>>,
                                   Step  <- LAMBDA p, n, x : Turn(x, p)

(* The bits of the target are followed to the end: a leaf, the empty tree, *)
(* or a branch without a child on that side.                               *)
LEMMA TurnedFollowsTheBits ==
  ASSUME WellFormed(nodes, head), NEW target \in KeySpace
  PROVE  Turned(target) \in Ways(target) /\ Turn(Turned(target), target) = Turned(target)
<1> DEFINE S      == Ways(target)
           turned == Turning!Recursive(target)
<1>1. <<head>> \in S
  BY RootIsAPath DEF Ways, End
<1>2. turned[0] = <<head>> /\ \A n \in Nat : turned[n + 1] = Turn(turned[n], target)
  BY Turning!RecursionFollows
<1>3. Turned(target) = turned[Depth]
  BY DEF Turned, Turning!Recursive
<1> HIDE DEF turned
<1> DEFINE T == {n \in Nat : /\ turned[n] \in S
                             /\ Turn(turned[n], target) # turned[n] => Len(turned[n]) >= n + 1}
<1>4. 0 \in T
  <2>1. turned[0] = <<head>>
    BY <1>2
  <2>2. turned[0] \in S /\ Len(turned[0]) >= 0 + 1
    BY <1>1, <2>1
  <2> HIDE DEF S
  <2> QED  BY <2>2
<1>5. ASSUME NEW n \in T
      PROVE  n + 1 \in T
  <2>1. turned[n + 1] = Turn(turned[n], target)
    BY <1>2
  <2>2. turned[n + 1] \in S
    BY <2>1, WaysGoOn
  <2>3. CASE Turn(turned[n], target) # turned[n]
    <3>1. Len(turned[n + 1]) = Len(turned[n]) + 1
      BY <2>1, <2>3, WaysGoOn
    <3>2. Len(turned[n]) \in Nat
      BY DEF Ways, Paths
    <3> HIDE DEF S
    <3> QED  BY <2>2, <2>3, <3>1, <3>2
  <2>4. CASE Turn(turned[n], target) = turned[n]
    BY <2>1, <2>2, <2>4
  <2> QED  BY <2>3, <2>4
<1>6. T = Nat
  <2>1. T \in SUBSET Nat
    OBVIOUS
  <2> HIDE DEF T
  <2> QED  BY <1>4, <1>5, <2>1, AllNumbers
<1>7. /\ turned[Depth] \in S
      /\ Turn(turned[Depth], target) # turned[Depth] => Len(turned[Depth]) >= Depth + 1
  BY <1>6, DepthAssumption
<1> DEFINE end == turned[Depth]
<1>8. Len(end) \in Nat
  BY <1>7 DEF Ways, Paths
<1> HIDE DEF end
<1>9. Turn(end, target) # end => Len(end) < Depth + 1
  <2>1. end \in Ways(target)
    BY <1>7 DEF end
  <2> QED  BY <2>1, WaysGoOn
<1>10. Turn(end, target) = end
  <2>1. Turn(end, target) # end => Len(end) >= Depth + 1
    BY <1>7 DEF end
  <2> QED  BY <1>8, <1>9, <2>1, DepthAssumption
<1> QED  BY <1>3, <1>7, <1>10 DEF end

(* The leaf that the constructor comes to first: every other leaf is on    *)
(* the same side of it as of the target.                                   *)
SameSideAs(s, target) ==
  \A q \in LeafPaths(nodes, head) :
    \/ q = s
    \/ KeyOf(nodes, q) < KeyOf(nodes, s) /\ KeyOf(nodes, q) < target
    \/ KeyOf(nodes, q) > KeyOf(nodes, s) /\ KeyOf(nodes, q) > target

(* The constructor comes to a leaf with none between it and the target.    *)
LEMMA SeekComesNextToTheTarget ==
  ASSUME WellFormed(nodes, head), NEW target \in KeySpace
  PROVE  LET s == Seek(target) IN
         \/ head = Empty /\ s = <<Empty>>
         \/ s \in LeafPaths(nodes, head) /\ SameSideAs(s, target)
<1> DEFINE u == Turned(target)
           m == Len(u)
           s == Seek(target)
<1>1. u \in Ways(target) /\ Turn(u, target) = u
  BY TurnedFollowsTheBits
<1> HIDE DEF u
<1>2. /\ u \in Paths(nodes, head) /\ m \in Nat /\ m >= 1 /\ u \in Seq(DOMAIN nodes \cup {Empty})
      /\ \A i \in 1 .. m - 1 : u[i + 1] = Toward(nodes, u[i], target, i - 1)
      /\ Current(u) = ParsedNode(nodes, End(u)) /\ u[m] = End(u)
  BY <1>1, CurrentNode DEF Ways, Paths, End
(* Above the end of u, what parts from it is on one side of all that does  *)
(* not.                                                                    *)
<1>3. ASSUME NEW p \in LeafPaths(nodes, head), NEW q \in LeafPaths(nodes, head), NEW d \in Nat,
             Len(p) >= m, \A i \in 1 .. m : p[i] = u[i],
             d \in 1 .. Len(p) - 1, d \in 1 .. Len(q) - 1,
             \A i \in 1 .. d : p[i] = q[i], p[d + 1] # q[d + 1], d < m
      PROVE  \/ KeyOf(nodes, q) < KeyOf(nodes, p) /\ KeyOf(nodes, q) < target
             \/ KeyOf(nodes, q) > KeyOf(nodes, p) /\ KeyOf(nodes, q) > target
  <2>1. \A i \in 1 .. d : q[i] = u[i] /\ p[i] = u[i]
    BY <1>2, <1>3
  <2>2. ASSUME NEW i \in 1 .. d - 1
        PROVE  q[i + 1] = Toward(nodes, q[i], target, i - 1)
    <3>1. i \in 1 .. m - 1 /\ i \in 1 .. d /\ i + 1 \in 1 .. d
      BY <1>2, <1>3
    <3> QED  BY <1>2, <2>1, <3>1
  <2>3. q[d + 1] # Toward(nodes, q[d], target, d - 1)
    <3>1. d \in 1 .. m - 1 /\ d \in 1 .. d /\ d + 1 \in 1 .. m
      BY <1>2, <1>3
    <3>2. p[d + 1] = u[d + 1] /\ u[d + 1] = Toward(nodes, u[d], target, d - 1) /\ q[d] = u[d]
      BY <1>2, <1>3, <2>1, <3>1
    <3> QED  BY <1>3, <3>2
  <2>4. IF q[d + 1] = nodes[q[d]].left THEN KeyOf(nodes, q) < target ELSE target < KeyOf(nodes, q)
    BY <1>3, <2>2, <2>3, OffTheWay
  <2>5. /\ nodes[p[d]].left # nodes[p[d]].right /\ NodeAt(p[d]) = nodes[p[d]] /\ p[d] = q[d]
        /\ p[d + 1] \in {nodes[p[d]].left, nodes[p[d]].right}
        /\ q[d + 1] \in {nodes[p[d]].left, nodes[p[d]].right}
    BY <1>3, PathsPartAtBranches
  <2>6. IF p[d + 1] = Far(NodeAt(p[d]), ~FALSE) THEN Comes(KeyOf(nodes, p), KeyOf(nodes, q), FALSE)
        ELSE Comes(KeyOf(nodes, q), KeyOf(nodes, p), FALSE)
    BY <1>3, NearComesFirst
  <2>7. /\ KeyOf(nodes, p) \in Nat /\ KeyOf(nodes, q) \in Nat /\ target \in Nat
    BY KeysOfPaths, KeysAreNumbers
  <2> QED  BY <1>3, <2>4, <2>5, <2>6, <2>7 DEF Far, Comes
<1>4. CASE ~IsBranch(Current(u))
  <2>1. s = u
    BY <1>4 DEF Seek, u
  <2>2. CASE head = Empty
    <3>1. m = 1
      <4>0. m \in Nat /\ m >= 1 /\ Len(u) = m
        BY <1>2
      <4> HIDE DEF m
      <4>1. CASE m # 1
        <5>1. 1 \in 1 .. Len(u) - 1
          BY <4>0, <4>1
        <5>2. u \in Paths(nodes, head)
          BY <1>2
        <5>3. \A i \in 1 .. Len(u) - 1 : u[i] # Empty
          BY <5>2, PathsAreShort
        <5>4. u[1] # Empty
          BY <5>1, <5>3
        <5>5. u[1] = head
          BY <5>2 DEF Paths
        <5> QED  BY <2>2, <5>4, <5>5
      <4> QED  BY <4>1
    <3>2. u = <<Empty>>
      BY <1>2, <2>2, <3>1 DEF Paths
    <3> QED  BY <2>1, <2>2, <3>2
  <2>3. CASE head # Empty
    <3>1. End(u) # Empty
      BY <1>1, <2>3 DEF Ways
    <3>2. u \in LeafPaths(nodes, head)
      BY <1>2, <1>4, <3>1, EndsOfPaths DEF LeafPaths
    <3>3. ASSUME NEW q \in LeafPaths(nodes, head), u # q
          PROVE  \/ KeyOf(nodes, q) < KeyOf(nodes, u) /\ KeyOf(nodes, q) < target
                 \/ KeyOf(nodes, q) > KeyOf(nodes, u) /\ KeyOf(nodes, q) > target
      <4>1. PICK d \in Nat : /\ d \in 1 .. Len(u) - 1 /\ d \in 1 .. Len(q) - 1
                             /\ \A i \in 1 .. d : u[i] = q[i]
                             /\ u[d + 1] # q[d + 1]
        BY <3>2, <3>3, PathsPart
      <4>2. d < m /\ Len(u) >= m
        BY <1>2, <4>1
      <4> QED  BY <1>3, <3>2, <4>1, <4>2
    <3>4. SameSideAs(u, target)
      BY <3>3 DEF SameSideAs
    <3> QED  BY <2>1, <3>2, <3>4
  <2> QED  BY <2>2, <2>3
<1>5. CASE IsBranch(Current(u))
  <2> DEFINE node == nodes[End(u)]
  <2>1. /\ Current(u) = node /\ node.left # node.right /\ IsBranch(ParsedNode(nodes, End(u)))
        /\ Sides(nodes, End(u)) = {node.left, node.right}
    BY <1>2, <1>5, BranchesAreEntered DEF Sides
  <2>2. Toward(nodes, End(u), target, m - 1) = Empty
    <3>1. ChildToward(u, target) = Toward(nodes, End(u), target, m - 1)
      BY <2>1 DEF ChildToward, Toward
    <3>2. ChildToward(u, target) = Empty
      <4> SUFFICES ASSUME ChildToward(u, target) # Empty
                   PROVE  FALSE
        OBVIOUS
      <4>1. Turn(u, target) = Append(u, ChildToward(u, target))
        BY <1>5 DEF Turn
      <4>2. Append(u, ChildToward(u, target)) # u
        BY <1>2
      <4> QED  BY <1>1, <4>1, <4>2
    <3> QED  BY <3>1, <3>2
  <2> DEFINE fromLeft == node.left # Empty
             c        == IF fromLeft THEN node.left ELSE node.right
             v        == Append(u, c)
  <2>3. s = Enter(v, fromLeft)
    BY <1>5, <2>1 DEF Seek, u
  <2>4. c # Empty /\ c \in Sides(nodes, End(u))
    BY <2>1
  <2>5. {node.left, node.right} = {c, Empty} /\ (fromLeft <=> c = node.left)
    BY <2>1, <2>2, <2>4 DEF Toward
  <2> HIDE DEF c, s
  <2>6. v \in Paths(nodes, head)
    BY <1>2, <2>1, <2>4, PathsGoOn
  <2>7. Len(v) = m + 1 /\ v[m + 1] = c /\ End(v) = c /\ \A i \in 1 .. m : v[i] = u[i]
    BY <1>2 DEF End
  <2> HIDE DEF v
  <2>8. /\ s \in LeafPaths(nodes, head) /\ Len(v) <= Len(s) /\ \A i \in 1 .. Len(v) : s[i] = v[i]
        /\ \A q \in LeafPaths(nodes, head) :
             Len(v) <= Len(q) /\ (\A i \in 1 .. Len(v) : q[i] = v[i]) =>
               q = s \/ Comes(KeyOf(nodes, s), KeyOf(nodes, q), fromLeft)
    <3>1. fromLeft \in BOOLEAN /\ End(v) # Empty
      BY <2>4, <2>7
    <3> HIDE DEF fromLeft
    <3> QED  BY <2>3, <2>6, <3>1, FirstOfASubtree
  <2>9. Len(s) \in Nat /\ Len(s) >= m + 1 /\ \A i \in 1 .. m : s[i] = u[i]
    BY <1>2, <2>7, <2>8 DEF LeafPaths, Paths
  <2>10. ASSUME NEW q \in LeafPaths(nodes, head), s # q
         PROVE  \/ KeyOf(nodes, q) < KeyOf(nodes, s) /\ KeyOf(nodes, q) < target
                \/ KeyOf(nodes, q) > KeyOf(nodes, s) /\ KeyOf(nodes, q) > target
    <3>1. PICK d \in Nat : /\ d \in 1 .. Len(s) - 1 /\ d \in 1 .. Len(q) - 1
                           /\ \A i \in 1 .. d : s[i] = q[i]
                           /\ s[d + 1] # q[d + 1]
      BY <2>8, <2>10, PathsPart
    <3>2. CASE d < m
      <4>1. Len(s) >= m
        BY <1>2, <2>9
      <4> QED  BY <1>3, <2>8, <2>9, <3>1, <3>2, <4>1
    <3>3. CASE d >= m
      <4>0. Len(q) \in Nat /\ q \in Paths(nodes, head)
        BY DEF LeafPaths, Paths
      <4>1. m \in 1 .. Len(q) - 1 /\ \A i \in 1 .. m : q[i] = u[i]
        BY <1>2, <2>9, <3>1, <3>3, <4>0
      <4>2. q[m + 1] = c
        <5>1. q[m + 1] \in {node.left, node.right}
          BY <1>2, <4>0, <4>1, PathsAreShort
        <5>2. q[m + 1] # Empty
          <6>1. CASE m + 1 = Len(q)
            BY <6>1, CurrentNode DEF LeafPaths, End
          <6>2. CASE m + 1 # Len(q)
            <7>1. m + 1 \in 1 .. Len(q) - 1
              BY <1>2, <4>0, <4>1, <6>2
            <7> QED  BY <4>0, <7>1, PathsAreShort
          <6> QED  BY <6>1, <6>2
        <5> QED  BY <2>5, <5>1, <5>2
      <4>3. Len(v) <= Len(q) /\ \A i \in 1 .. Len(v) : q[i] = v[i]
        BY <1>2, <2>7, <4>0, <4>1, <4>2
      <4>4. Comes(KeyOf(nodes, s), KeyOf(nodes, q), fromLeft)
        BY <2>8, <2>10, <4>3
      <4>5. IF q[m + 1] = nodes[q[m]].left THEN KeyOf(nodes, q) < target ELSE target < KeyOf(nodes, q)
        <5>1. q[m] = End(u) /\ q[m + 1] # Toward(nodes, q[m], target, m - 1)
          BY <1>2, <2>2, <2>4, <4>1, <4>2
        <5>2. ASSUME NEW i \in 1 .. m - 1
              PROVE  q[i + 1] = Toward(nodes, q[i], target, i - 1)
          <6>1. i \in 1 .. m /\ i + 1 \in 1 .. m
            BY <1>2
          <6> QED  BY <1>2, <4>1, <6>1
        <5> QED  BY <1>2, <4>1, <5>1, <5>2, OffTheWay
      <4>6. q[m] = End(u) /\ (q[m + 1] = nodes[q[m]].left <=> fromLeft)
        BY <1>2, <2>5, <4>1, <4>2
      <4>7. /\ KeyOf(nodes, s) \in Nat /\ KeyOf(nodes, q) \in Nat /\ target \in Nat
        BY <2>8, KeysOfPaths, KeysAreNumbers
      <4> QED  BY <4>4, <4>5, <4>6, <4>7 DEF Comes
    <3> QED  BY <1>2, <3>1, <3>2, <3>3
  <2>11. SameSideAs(s, target)
    BY <2>10 DEF SameSideAs
  <2> QED  BY <2>8, <2>11 DEF s
<1> QED  BY <1>4, <1>5

---------------------------------------------------------------------------
(* Starting                                                                *)

(* On the way of an iterator that has this target and direction.           *)
Within(k, target, reverse) == IF reverse THEN k <= target ELSE k >= target

(* The order in which keys are met is total, and what is met after a key   *)
(* on the way is on the way too.                                           *)
LEMMA KeysAreInOrder ==
  ASSUME NEW k \in Nat, NEW l \in Nat, NEW m \in Nat, NEW reverse \in BOOLEAN
  PROVE  /\ Comes(k, l, reverse) \/ k = l \/ Comes(l, k, reverse)
         /\ ~Comes(k, k, reverse) /\ (Comes(k, l, reverse) => ~Comes(l, k, reverse))
         /\ Comes(k, l, reverse) /\ Comes(l, m, reverse) => Comes(k, m, reverse)
         /\ Within(k, m, reverse) /\ Comes(k, l, reverse) => Within(l, m, reverse)
  BY DEF Comes, Within

(* Where an iterator can start: at the first leaf on its way, past the     *)
(* last one when there is none, or beside an empty child.                  *)
FirstWithin(r, target, reverse) ==
  /\ r \in LeafPaths(nodes, head) /\ Within(KeyOf(nodes, r), target, reverse)
  /\ \A q \in LeafPaths(nodes, head) :
       Within(KeyOf(nodes, q), target, reverse) => q = r \/ Comes(KeyOf(nodes, r), KeyOf(nodes, q), reverse)

NoneWithin(target, reverse) ==
  \A q \in LeafPaths(nodes, head) : ~Within(KeyOf(nodes, q), target, reverse)

(* A new iterator is at the first leaf on its way, past the last one, or   *)
(* beside a child that is missing.                                         *)
LEMMA StartStackIsTheFirst ==
  ASSUME WellFormed(nodes, head), NEW target \in KeySpace, NEW reverse \in BOOLEAN
  PROVE  LET r == StartStack(target, reverse) IN
         \/ r \in {<<>>, <<Empty>>} /\ NoneWithin(target, reverse) /\ (r = <<Empty>> => head = Empty)
         \/ FirstWithin(r, target, reverse)
         \/ AtAGap(r, reverse)
<1> DEFINE s    == Seek(target)
           miss == IF reverse THEN KeyOf(nodes, s) > target ELSE KeyOf(nodes, s) < target
           r    == StartStack(target, reverse)
<1>1. r = IF IsLeaf(Current(s)) /\ miss THEN Advance(s, reverse) ELSE s
  BY CurrentNode DEF StartStack, KeyOf
<1>2. \/ head = Empty /\ s = <<Empty>>
      \/ s \in LeafPaths(nodes, head) /\ SameSideAs(s, target)
  BY SeekComesNextToTheTarget
<1>3. target \in Nat /\ \A q \in LeafPaths(nodes, head) : KeyOf(nodes, q) \in Nat
  BY KeysOfPaths, KeysAreNumbers
<1> HIDE DEF s
<1>4. CASE head = Empty /\ s = <<Empty>>
  <2>1. ~IsLeaf(Current(s))
    BY <1>4, CurrentNode DEF End
  <2>2. ASSUME NEW q \in LeafPaths(nodes, head)
        PROVE  FALSE
    <3>1. q \in Paths(nodes, head) /\ Len(q) \in Nat /\ Len(q) >= 1 /\ q[1] = Empty
      BY <1>4 DEF LeafPaths, Paths
    <3>2. CASE Len(q) = 1
      BY <3>1, <3>2, CurrentNode DEF LeafPaths, End
    <3>3. CASE Len(q) # 1
      <4>1. 1 \in 1 .. Len(q) - 1
        BY <3>1, <3>3
      <4> QED  BY <3>1, <4>1, PathsAreShort
    <3> QED  BY <3>2, <3>3
  <2> QED  BY <1>1, <1>4, <2>1, <2>2 DEF NoneWithin
<1>5. CASE s \in LeafPaths(nodes, head) /\ SameSideAs(s, target)
  <2>1. IsLeaf(Current(s)) /\ KeyOf(nodes, s) \in Nat
    BY <1>3, <1>5, CurrentNode DEF LeafPaths
  <2>2. CASE miss
    <3>1. r = Advance(s, reverse)
      BY <1>1, <2>1, <2>2
    <3> HIDE DEF r
    <3>2. \/ r = <<>> /\ NothingAhead(s, reverse)
          \/ NextAhead(s, r, reverse)
          \/ AtAGap(r, reverse)
      BY <1>5, <3>1, AdvanceGoesToTheNext
    <3>3. CASE r = <<>> /\ NothingAhead(s, reverse)
      <4>1. NoneWithin(target, reverse)
        BY <1>3, <1>5, <2>1, <2>2, <3>3 DEF NoneWithin, NothingAhead, Within, Comes, SameSideAs
      <4> QED  BY <3>3, <4>1 DEF r
    <3>4. CASE NextAhead(s, r, reverse)
      <4>1. FirstWithin(r, target, reverse)
        BY <1>3, <1>5, <2>1, <2>2, <3>4 DEF FirstWithin, NextAhead, Within, Comes, SameSideAs
      <4> QED  BY <4>1 DEF r
    <3>5. CASE AtAGap(r, reverse)
      BY <3>5 DEF r
    <3> QED  BY <3>2, <3>3, <3>4, <3>5
  <2>3. CASE ~miss
    <3>1. r = s
      BY <1>1, <2>3
    <3>2. FirstWithin(s, target, reverse)
      BY <1>3, <1>5, <2>1, <2>3 DEF FirstWithin, Within, Comes, SameSideAs
    <3> QED  BY <3>1, <3>2
  <2> QED  BY <2>2, <2>3
<1> QED  BY <1>2, <1>4, <1>5

---------------------------------------------------------------------------
(* The invariant                                                           *)

OnTheWay(target, reverse) ==
  {k \in DOMAIN Contents(nodes, head) : Within(k, target, reverse)}

UpTo(here, target, reverse) == {k \in OnTheWay(target, reverse) : ~Comes(here, k, reverse)}

(* An iterator in use: at a leaf on its way, all before it yielded; past   *)
(* the last with everything yielded; or beside an empty child.             *)
IsPlace(i) ==
  /\ i \in [target : KeySpace, reverse : BOOLEAN, nodeStack : Paths(nodes, head) \cup {<<>>},
            seen : SUBSET KeySpace]
  /\ \/ /\ i.nodeStack \in LeafPaths(nodes, head)
        /\ Within(KeyOf(nodes, i.nodeStack), i.target, i.reverse)
        /\ i.seen = UpTo(KeyOf(nodes, i.nodeStack), i.target, i.reverse)
     \/ /\ i.nodeStack = <<>> \/ (i.nodeStack = <<Empty>> /\ head = Empty)
        /\ i.seen = OnTheWay(i.target, i.reverse)
     \/ AtAGap(i.nodeStack, i.reverse)

IInv == WellFormed(nodes, head) /\ (it = NoIterator \/ IsPlace(it))

(* The records are the keys of leaves.                                     *)
LEMMA RecordsOnTheWay ==
  ASSUME WellFormed(nodes, head), NEW target \in KeySpace, NEW reverse \in BOOLEAN
  PROVE  /\ OnTheWay(target, reverse) =
              {k \in {KeyOf(nodes, p) : p \in LeafPaths(nodes, head)} : Within(k, target, reverse)}
         /\ OnTheWay(target, reverse) \subseteq KeySpace
<1>1. DOMAIN Contents(nodes, head) = {KeyOf(nodes, p) : p \in LeafPaths(nodes, head)}
  BY RecordsAreAtTheEndsOfPaths
<1>2. \A p \in LeafPaths(nodes, head) : KeyOf(nodes, p) \in KeySpace
  BY KeysOfPaths
<1> QED  BY <1>1, <1>2 DEF OnTheWay

(* An iterator yields the key of the leaf it is at, and nothing at its     *)
(* end.                                                                    *)
LEMMA LeavesAreYielded ==
  /\ \A p \in LeafPaths(nodes, head) :
       p \in Paths(nodes, head) /\ ~AtEnd(p) /\ Current(p).key = KeyOf(nodes, p) /\ Yield(p) = {KeyOf(nodes, p)}
  /\ AtEnd(<<>>) /\ \A reverse : \A r : AtAGap(r, reverse) => AtEnd(r)
  /\ AtEnd(<<Empty>>)
<1>1. \A p : Last(p) = End(p)
  BY DEF Last, End
<1>2. AtEnd(<<Empty>>)
  BY DEF AtEnd, Last
<1>3. \A reverse : \A r : AtAGap(r, reverse) => AtEnd(r)
  BY <1>1 DEF AtAGap, AtEnd
<1>4. ASSUME NEW p \in LeafPaths(nodes, head)
      PROVE  /\ p \in Paths(nodes, head) /\ ~AtEnd(p)
             /\ Current(p).key = KeyOf(nodes, p) /\ Yield(p) = {KeyOf(nodes, p)}
  <2>1. p \in Paths(nodes, head) /\ p # <<>> /\ IsLeaf(ParsedNode(nodes, End(p)))
    BY DEF LeafPaths, Paths
  <2>2. End(p) # Empty
    BY <2>1, CurrentNode
  <2>3. Current(p) = ParsedNode(nodes, End(p))
    BY CurrentNode
  <2>4. ~AtEnd(p)
    BY <1>1, <2>1, <2>2 DEF AtEnd
  <2> QED  BY <2>1, <2>3, <2>4 DEF Yield, KeyOf
<1> QED  BY <1>2, <1>3, <1>4 DEF AtEnd

(* A new iterator has yielded what the invariant says.                     *)
LEMMA StartIsAPlace ==
  ASSUME WellFormed(nodes, head), NEW target \in KeySpace, NEW reverse \in BOOLEAN
  PROVE  LET r == StartStack(target, reverse) IN
         IsPlace(AnIterator(target, reverse, r, Yield(r)))
<1> DEFINE r == StartStack(target, reverse)
           i == AnIterator(target, reverse, r, Yield(r))
           K == {KeyOf(nodes, p) : p \in LeafPaths(nodes, head)}
<1>1. \/ r \in {<<>>, <<Empty>>} /\ NoneWithin(target, reverse) /\ (r = <<Empty>> => head = Empty)
      \/ FirstWithin(r, target, reverse)
      \/ AtAGap(r, reverse)
  BY StartStackIsTheFirst
<1> HIDE DEF r
<1>2. /\ i.target = target /\ i.reverse = reverse /\ i.nodeStack = r /\ i.seen = Yield(r)
      /\ r \in Paths(nodes, head) \cup {<<>>} /\ Yield(r) \in SUBSET KeySpace =>
           i \in [target : KeySpace, reverse : BOOLEAN, nodeStack : Paths(nodes, head) \cup {<<>>},
                  seen : SUBSET KeySpace]
  BY DEF AnIterator
<1> HIDE DEF i
<1>3. OnTheWay(target, reverse) = {k \in K : Within(k, target, reverse)}
  BY RecordsOnTheWay
<1>4. <<head>> \in Paths(nodes, head)
  BY RootIsAPath
<1>5. CASE r \in {<<>>, <<Empty>>} /\ NoneWithin(target, reverse) /\ (r = <<Empty>> => head = Empty)
  <2>1. OnTheWay(target, reverse) = {}
    BY <1>3, <1>5 DEF NoneWithin
  <2>2. Yield(r) = {} /\ r \in Paths(nodes, head) \cup {<<>>}
    BY <1>4, <1>5, LeavesAreYielded DEF Yield
  <2> QED  BY <1>2, <1>5, <2>1, <2>2 DEF IsPlace, i, r
<1>6. CASE FirstWithin(r, target, reverse)
  <2>1. /\ r \in LeafPaths(nodes, head) /\ r \in Paths(nodes, head)
        /\ Yield(r) = {KeyOf(nodes, r)} /\ KeyOf(nodes, r) \in KeySpace
    BY <1>6, LeavesAreYielded, KeysOfPaths DEF FirstWithin
  <2>2. UpTo(KeyOf(nodes, r), target, reverse) = {KeyOf(nodes, r)}
    <3>1. \A k \in OnTheWay(target, reverse) : k = KeyOf(nodes, r) \/ Comes(KeyOf(nodes, r), k, reverse)
      BY <1>3, <1>6 DEF FirstWithin
    <3>2. KeyOf(nodes, r) \in OnTheWay(target, reverse)
      BY <1>3, <1>6, <2>1 DEF FirstWithin
    <3>3. ~Comes(KeyOf(nodes, r), KeyOf(nodes, r), reverse)
      BY <2>1, KeysOfPaths, KeysAreInOrder
    <3> QED  BY <3>1, <3>2, <3>3 DEF UpTo
  <2>3. Within(KeyOf(nodes, r), target, reverse)
    BY <1>6 DEF FirstWithin
  <2> QED  BY <1>2, <2>1, <2>2, <2>3 DEF IsPlace, i, r
<1>7. CASE AtAGap(r, reverse)
  <2>1. r \in Paths(nodes, head) /\ Yield(r) = {}
    BY <1>7, LeavesAreYielded DEF AtAGap, Yield
  <2> QED  BY <1>2, <1>7, <2>1 DEF IsPlace, i, r
<1> QED  BY <1>1, <1>5, <1>6, <1>7

(* So has one that next() has moved.                                       *)
LEMMA NextIsAPlace ==
  ASSUME WellFormed(nodes, head), NEW i, IsPlace(i), ~AtEnd(i.nodeStack)
  PROVE  LET r == Advance(i.nodeStack, i.reverse) IN
         IsPlace([i EXCEPT !.nodeStack = r, !.seen = @ \cup Yield(r)])
<1> DEFINE p == i.nodeStack
           r == Advance(p, i.reverse)
           j == [i EXCEPT !.nodeStack = r, !.seen = @ \cup Yield(r)]
<1>1. /\ i \in [target : KeySpace, reverse : BOOLEAN, nodeStack : Paths(nodes, head) \cup {<<>>},
                seen : SUBSET KeySpace]
      /\ p \in LeafPaths(nodes, head) /\ Within(KeyOf(nodes, p), i.target, i.reverse)
      /\ i.seen = UpTo(KeyOf(nodes, p), i.target, i.reverse)
  BY LeavesAreYielded DEF IsPlace
<1> DEFINE target  == i.target
           reverse == i.reverse
           K       == {KeyOf(nodes, q) : q \in LeafPaths(nodes, head)}
<1>2. target \in KeySpace /\ reverse \in BOOLEAN
  BY <1>1
<1>3. \/ r = <<>> /\ NothingAhead(p, reverse)
      \/ NextAhead(p, r, reverse)
      \/ AtAGap(r, reverse)
  BY <1>1, <1>2, AdvanceGoesToTheNext
<1> HIDE DEF r
<1>4. /\ j.target = target /\ j.reverse = reverse /\ j.nodeStack = r /\ j.seen = i.seen \cup Yield(r)
      /\ r \in Paths(nodes, head) \cup {<<>>} /\ Yield(r) \in SUBSET KeySpace =>
           j \in [target : KeySpace, reverse : BOOLEAN, nodeStack : Paths(nodes, head) \cup {<<>>},
                  seen : SUBSET KeySpace]
  BY <1>1
<1> HIDE DEF j
<1>5. OnTheWay(target, reverse) = {k \in K : Within(k, target, reverse)} /\ target \in Nat
      /\ K \subseteq Nat /\ KeyOf(nodes, p) \in K
  BY <1>1, <1>2, RecordsOnTheWay, KeysOfPaths, KeysAreNumbers
<1>6. CASE r = <<>> /\ NothingAhead(p, reverse)
  <2>1. \A k \in K : ~Comes(KeyOf(nodes, p), k, reverse)
    <3>1. \A k \in K : k = KeyOf(nodes, p) \/ Comes(k, KeyOf(nodes, p), reverse)
      BY <1>6 DEF NothingAhead
    <3> HIDE DEF K
    <3> SUFFICES ASSUME NEW k \in K
                 PROVE  ~Comes(KeyOf(nodes, p), k, reverse)
      OBVIOUS
    <3>2. k \in Nat /\ KeyOf(nodes, p) \in Nat
      BY <1>5
    <3> QED  BY <1>2, <3>1, <3>2, KeysAreInOrder
  <2>2. i.seen = OnTheWay(target, reverse)
    BY <1>1, <1>5, <2>1 DEF UpTo
  <2>3. Yield(r) = {}
    BY <1>6, LeavesAreYielded DEF Yield
  <2> QED  BY <1>4, <1>6, <2>2, <2>3 DEF IsPlace, j, r
<1>7. CASE NextAhead(p, r, reverse)
  <2>1. /\ r \in LeafPaths(nodes, head) /\ r \in Paths(nodes, head) /\ KeyOf(nodes, r) \in K
        /\ Yield(r) = {KeyOf(nodes, r)} /\ KeyOf(nodes, r) \in KeySpace
    BY <1>7, LeavesAreYielded, KeysOfPaths DEF NextAhead
  <2>2. /\ Comes(KeyOf(nodes, p), KeyOf(nodes, r), reverse)
        /\ \A k \in K : \/ k = KeyOf(nodes, p) \/ Comes(k, KeyOf(nodes, p), reverse)
                        \/ k = KeyOf(nodes, r) \/ Comes(KeyOf(nodes, r), k, reverse)
    BY <1>7 DEF NextAhead
  <2> HIDE DEF K
  <2>3. Within(KeyOf(nodes, r), target, reverse)
    <3>1. KeyOf(nodes, p) \in Nat /\ KeyOf(nodes, r) \in Nat /\ target \in Nat
      BY <1>5, <2>1
    <3>2. Within(KeyOf(nodes, p), target, reverse) /\ Comes(KeyOf(nodes, p), KeyOf(nodes, r), reverse)
      BY <1>1, <2>2
    <3> QED  BY <1>2, <3>1, <3>2, KeysAreInOrder
  <2>4. \A k \in K : ~Comes(KeyOf(nodes, r), k, reverse) <=>
                       k = KeyOf(nodes, r) \/ ~Comes(KeyOf(nodes, p), k, reverse)
    <3> SUFFICES ASSUME NEW k \in K
                 PROVE  ~Comes(KeyOf(nodes, r), k, reverse) <=>
                          k = KeyOf(nodes, r) \/ ~Comes(KeyOf(nodes, p), k, reverse)
      OBVIOUS
    <3>1. k \in Nat /\ KeyOf(nodes, p) \in Nat /\ KeyOf(nodes, r) \in Nat
      BY <1>5, <2>1
    <3>2. \/ k = KeyOf(nodes, p) \/ Comes(k, KeyOf(nodes, p), reverse)
          \/ k = KeyOf(nodes, r) \/ Comes(KeyOf(nodes, r), k, reverse)
      BY <2>2
    <3> QED  BY <1>2, <2>2, <3>1, <3>2, KeysAreInOrder
  <2>5. i.seen \cup Yield(r) = UpTo(KeyOf(nodes, r), target, reverse)
    BY <1>1, <1>5, <2>1, <2>3, <2>4 DEF UpTo
  <2> QED  BY <1>4, <2>1, <2>3, <2>5 DEF IsPlace, j, r
<1>8. CASE AtAGap(r, reverse)
  <2>1. r \in Paths(nodes, head) /\ Yield(r) = {}
    BY <1>8, LeavesAreYielded DEF AtAGap, Yield
  <2> QED  BY <1>4, <1>8, <2>1 DEF IsPlace, j, r
<1> QED  BY <1>3, <1>6, <1>7, <1>8

(* A new database has a well-formed tree, an empty one.                    *)
LEMMA EmptyTreeIsWellFormed == WellFormed([id \in {} |-> id], Empty)
<1> DEFINE none == [id \in {} |-> id]
           T    == {n \in Nat : AtDepth(none, Empty, n) = {}}
<1>1. 0 \in T
  BY FirstLevel, LevelAfter
<1>2. ASSUME NEW n \in T
      PROVE  n + 1 \in T
  <2>1. AtDepth(none, Empty, n + 1) = Children(none, AtDepth(none, Empty, n))
    BY FirstLevel, LevelAfter
  <2> QED  BY <2>1 DEF Children
<1>3. T = Nat
  <2>1. T \in SUBSET Nat
    OBVIOUS
  <2> HIDE DEF T
  <2> QED  BY <1>1, <1>2, <2>1, AllNumbers
<1>4. \A d \in 0 .. Depth : AtDepth(none, Empty, d) = {}
  BY <1>3, DepthAssumption
<1> QED  BY <1>4 DEF WellFormed

(* Writes leave a well-formed tree and no iterator; iterators that are     *)
(* made or moved are where the invariant says.                             *)
LEMMA InvariantIsInductive == Spec => []IInv
<1>1. Init => IInv
  BY EmptyTreeIsWellFormed DEF Init, IInv
<1>2. IInv /\ [Next]_vars => IInv'
  <2> SUFFICES ASSUME IInv, [Next]_vars
               PROVE  IInv'
    OBVIOUS
  <2>1. ASSUME UNCHANGED <<nodes, head>>, it' = NoIterator \/ IsPlace(it')
        PROVE  IInv'
    <3>1. IsPlace(it') => IsPlace(it)'
      BY <2>1 DEF IsPlace, OnTheWay, UpTo, AtAGap, NodeAt
    <3> QED  BY <2>1, <3>1 DEF IInv
  <2>2. ASSUME NEW tree \in Trees, Write(tree)
        PROVE  IInv'
    BY <2>2, TreesAssumption DEF Write, IInv
  <2>3. ASSUME NEW target \in KeySpace, NEW reverse \in BOOLEAN, Iterate(target, reverse)
        PROVE  IInv'
    <3>1. IsPlace(it')
      BY <2>3, StartIsAPlace DEF Iterate, IInv
    <3> QED  BY <2>1, <2>3, <3>1 DEF Iterate
  <2>4. ASSUME NextLeaf
        PROVE  IInv'
    <3>1. IsPlace(it)
      BY <2>4, LeavesAreYielded DEF NextLeaf, IInv, NoIterator, AnIterator
    <3>2. IsPlace(it')
      BY <2>4, <3>1, NextIsAPlace DEF NextLeaf, IInv
    <3> QED  BY <2>1, <2>4, <3>2 DEF NextLeaf
  <2>5. CASE UNCHANGED vars
    BY <2>1, <2>5 DEF vars, IInv
  <2> QED  BY <2>2, <2>3, <2>4, <2>5 DEF Next
<1> QED  BY <1>1, <1>2, PTL DEF Spec

---------------------------------------------------------------------------
(* The properties                                                          *)

(* What the invariant says of an iterator that is not at its end is that   *)
(* it skipped nothing.                                                     *)
LEMMA NothingIsSkipped == IInv => NothingSkipped
<1> SUFFICES ASSUME IInv, ~AtEnd(it.nodeStack)
             PROVE  it.seen = {k \in Ahead : IF it.reverse THEN k >= Current(it.nodeStack).key
                                             ELSE k <= Current(it.nodeStack).key}
  BY DEF NothingSkipped
<1>1. /\ IsPlace(it) /\ it.nodeStack \in LeafPaths(nodes, head) /\ it.target \in KeySpace
      /\ it.reverse \in BOOLEAN
      /\ it.seen = UpTo(KeyOf(nodes, it.nodeStack), it.target, it.reverse)
  BY LeavesAreYielded DEF IInv, NoIterator, AnIterator, IsPlace
<1>2. Current(it.nodeStack).key = KeyOf(nodes, it.nodeStack) /\ KeyOf(nodes, it.nodeStack) \in Nat
  BY <1>1, LeavesAreYielded, KeysOfPaths DEF IInv
<1>3. Ahead = OnTheWay(it.target, it.reverse)
  BY DEF Ahead, OnTheWay, Within
<1>4. \A k \in Ahead : k \in Nat
  BY <1>1, <1>3, RecordsOnTheWay, KeysAreNumbers DEF IInv
<1>5. ASSUME NEW k \in Ahead
      PROVE  ~Comes(KeyOf(nodes, it.nodeStack), k, it.reverse) <=>
               IF it.reverse THEN k >= KeyOf(nodes, it.nodeStack) ELSE k <= KeyOf(nodes, it.nodeStack)
  <2>1. k \in Nat
    BY <1>4
  <2>2. CASE it.reverse
    BY <1>2, <2>1, <2>2 DEF Comes
  <2>3. CASE ~it.reverse
    BY <1>2, <2>1, <2>3 DEF Comes
  <2> QED  BY <2>2, <2>3
<1> QED  BY <1>1, <1>2, <1>3, <1>5 DEF UpTo

(* At its end it has yielded everything, or it is beside a child that is   *)
(* missing.                                                                *)
LEMMA OnlyAGapEndsEarly == IInv => EndsEarlyOnlyAtAGap
<1> SUFFICES ASSUME IInv, it # NoIterator, AtEnd(it.nodeStack), ~AtAGap(it.nodeStack, it.reverse)
             PROVE  it.seen = Ahead
  BY DEF EndsEarlyOnlyAtAGap, AtAGap
<1>1. it.seen = OnTheWay(it.target, it.reverse)
  BY LeavesAreYielded DEF IInv, IsPlace
<1> QED  BY <1>1 DEF Ahead, OnTheWay, Within

(* The turns of a path lead along it again.                                *)
LEMMA TurnsLeadBack ==
  ASSUME WellFormed(nodes, head), NEW p \in Paths(nodes, head)
  PROVE  Restored(Saved(p)) = p
<1> DEFINE turns    == Saved(p)
           step(f)  == [n \in 0 .. Len(turns) |->
                          IF n = 0 THEN <<head>> ELSE Follow(f[n - 1], turns[n])]
           followed == CHOOSE f : f = step(f)
           along    == [n \in 0 .. Len(turns) |-> SubSeq(p, 1, n + 1)]
<1>1. Len(p) \in Nat /\ Len(p) >= 1 /\ p[1] = head /\ p \in Seq(DOMAIN nodes \cup {Empty})
  BY DEF Paths
<1>2. Len(turns) = Len(p) - 1 /\ \A i \in 1 .. Len(p) - 1 : turns[i] = (NodeAt(p[i]).right = p[i + 1])
  BY <1>1 DEF Saved
<1> HIDE DEF turns
<1>3. ASSUME NEW n \in 1 .. Len(p) - 1
      PROVE  Follow(SubSeq(p, 1, n), turns[n]) = SubSeq(p, 1, n + 1)
  <2> DEFINE q == SubSeq(p, 1, n)
  <2>1. q \in Paths(nodes, head) /\ End(q) = p[n] /\ Len(q) = n
    BY <1>1, PathsHavePrefixes
  <2>2. IsBranch(ParsedNode(nodes, p[n])) /\ p[n + 1] \in Sides(nodes, p[n])
    BY <1>1 DEF Paths
  <2>3. q # <<>> /\ Current(q) = ParsedNode(nodes, p[n]) /\ NodeAt(p[n]) = ParsedNode(nodes, p[n])
    BY <2>1, CurrentNode DEF Paths
  <2>4. SubSeq(p, 1, n + 1) = Append(q, p[n + 1])
    BY <1>1
  <2> HIDE DEF q
  <2>5. (IF turns[n] THEN Current(q).right ELSE Current(q).left) = p[n + 1]
    BY <1>2, <2>2, <2>3 DEF Sides
  <2> QED  BY <2>2, <2>3, <2>4, <2>5 DEF Follow, q
<1>4. SubSeq(p, 1, 1) = <<head>>
  <2> DEFINE q == SubSeq(p, 1, 1)
  <2>1. q \in Paths(nodes, head) /\ Len(q) = 1
    BY <1>1, PathsHavePrefixes
  <2> HIDE DEF q
  <2>2. q \in Seq(DOMAIN nodes \cup {Empty}) /\ Len(q) = 1 /\ q[1] = head
    BY <2>1 DEF Paths
  <2>3. q = <<head>>
    BY <2>2
  <2> QED  BY <2>3 DEF q
<1>5. along = step(along)
  <2> SUFFICES ASSUME NEW n \in 0 .. Len(turns)
               PROVE  along[n] = IF n = 0 THEN <<head>> ELSE Follow(along[n - 1], turns[n])
    OBVIOUS
  <2>1. CASE n = 0
    BY <1>4, <2>1
  <2>2. CASE n # 0
    <3>1. n \in 1 .. Len(p) - 1 /\ n - 1 \in 0 .. Len(turns) /\ (n - 1) + 1 = n
      BY <1>1, <1>2, <2>2
    <3>2. along[n - 1] = SubSeq(p, 1, n)
      BY <3>1
    <3> QED  BY <1>3, <2>2, <3>1, <3>2
  <2> QED  BY <2>1, <2>2
<1>6. followed = step(followed)
  BY <1>5
<1> HIDE DEF followed
<1> DEFINE T == {n \in Nat : n <= Len(turns) => followed[n] = SubSeq(p, 1, n + 1)}
<1>7. 0 \in T
  <2>1. 0 \in 0 .. Len(turns)
    BY <1>1, <1>2
  <2>2. followed[0] = <<head>>
    BY <1>6, <2>1
  <2>3. SubSeq(p, 1, 0 + 1) = <<head>>
    BY <1>4
  <2> QED  BY <2>2, <2>3
<1>8. ASSUME NEW n \in T
      PROVE  n + 1 \in T
  <2> SUFFICES ASSUME n + 1 <= Len(turns)
               PROVE  followed[n + 1] = SubSeq(p, 1, (n + 1) + 1)
    OBVIOUS
  <2>1. PICK m \in Nat : m = n + 1
    OBVIOUS
  <2>2. m \in 1 .. Len(p) - 1 /\ m \in 0 .. Len(turns) /\ m # 0 /\ m - 1 = n
    BY <1>1, <1>2, <2>1
  <2>3. followed[n] = SubSeq(p, 1, m)
    BY <1>1, <1>2, <2>1
  <2>4. followed[m] = Follow(followed[m - 1], turns[m])
    BY <1>6, <2>2
  <2>5. followed[m] = SubSeq(p, 1, m + 1)
    BY <1>3, <2>2, <2>3, <2>4
  <2> QED  BY <2>1, <2>5
<1>9. T = Nat
  <2>1. T \in SUBSET Nat
    OBVIOUS
  <2> HIDE DEF T
  <2> QED  BY <1>7, <1>8, <2>1, AllNumbers
<1>10. followed[Len(turns)] = SubSeq(p, 1, Len(p))
  <2>1. PICK n \in Nat : n = Len(turns)
    BY <1>1, <1>2
  <2>2. n \in T /\ n <= Len(turns) /\ n + 1 = Len(p)
    BY <1>1, <1>2, <1>9, <2>1
  <2>3. followed[n] = SubSeq(p, 1, n + 1)
    BY <2>2
  <2> QED  BY <2>1, <2>2, <2>3
<1>11. SubSeq(p, 1, Len(p)) = p
  BY <1>1
<1>12. Restored(turns) = followed[Len(turns)]
  BY DEF Restored, followed
<1> QED  BY <1>10, <1>11, <1>12 DEF turns

(* The path of an iterator is saved as its turns, which lead along it      *)
(* again.                                                                  *)
LEMMA SavedPlacesAreFound == IInv => SavedPlaceIsFound
<1> SUFFICES ASSUME IInv, it.nodeStack # <<>>
             PROVE  Restored(Saved(it.nodeStack)) = it.nodeStack
  BY DEF SavedPlaceIsFound
<1>1. it.nodeStack \in Paths(nodes, head)
  BY DEF IInv, NoIterator, AnIterator, IsPlace
<1> QED  BY <1>1, TurnsLeadBack DEF IInv

(* In a well-formed tree of any depth and with any records, an iterator    *)
(* that is not at its end has yielded exactly the records from its target  *)
(* to where it is: none is skipped, in either direction.                   *)
THEOREM SkipsNothing == Spec => []NothingSkipped
  BY InvariantIsInductive, NothingIsSkipped, PTL

(* It ends early, with records still ahead, only beside a branch that has  *)
(* no child on the far side.                                               *)
THEOREM EndsEarlyOnlyBesideAGap == Spec => []EndsEarlyOnlyAtAGap
  BY InvariantIsInductive, OnlyAGapEndsEarly, PTL

(* save() and restore() lead back to the node the iterator was at.         *)
THEOREM SaveAndRestore == Spec => []SavedPlaceIsFound
  BY InvariantIsInductive, SavedPlacesAreFound, PTL
=============================================================================

----------------------------- MODULE TreeProofs -----------------------------
(***************************************************************************)
(* Facts about trees of any depth, and about their updates.                *)
(*                                                                         *)
(* The bits of two keys tell which comes first, and the levels of a tree   *)
(* follow from each other.  What putAux does to a tree, for any updates,   *)
(* is shown by induction over the depth of its frames, from the leaves up: *)
(* each call returns a subtree that is a tree again, and that has the      *)
(* records of the one it was given, changed by the updates of its window.  *)
(* Lookups are followed from the root down.                                *)
(***************************************************************************)
EXTENDS UpdateSet, Lookup, Sequences, FiniteSetTheorems, TLAPS

Power == INSTANCE Recursion WITH First <- LAMBDA p : 1, Step <- LAMBDA p, n, x : 2 * x

(* A set of natural numbers that is not empty has a least element.         *)
LEMMA LeastElement ==
  ASSUME NEW T \in SUBSET Nat, T # {}
  PROVE  \E x \in T : \A y \in T : x <= y
BY Power!ALeastNumber

(* A set that has 0 and with each number the next one has all of them.     *)
LEMMA AllNumbers ==
  ASSUME NEW T \in SUBSET Nat, 0 \in T, \A n \in T : n + 1 \in T
  PROVE  T = Nat
BY Power!EveryNumber

(* The powers of two.                                                      *)
LEMMA PowersOfTwo ==
  /\ TwoTo(0) = 1
  /\ \A n \in Nat : TwoTo(n) \in Nat /\ TwoTo(n + 1) = 2 * TwoTo(n)
<1>1. \A n : TwoTo(n) = Power!Recursive(0)[n]
  BY DEF TwoTo, Power!Recursive
<1>2. TwoTo(0) = 1 /\ \A n \in Nat : TwoTo(n + 1) = 2 * TwoTo(n)
  BY <1>1, Power!RecursionFollows
<1> DEFINE T == {n \in Nat : TwoTo(n) \in Nat}
<1>3. T = Nat
  <2>1. 0 \in T /\ \A n \in T : n + 1 \in T
    BY <1>2
  <2>2. T \in SUBSET Nat
    OBVIOUS
  <2> HIDE DEF T
  <2> QED  BY <2>1, <2>2, AllNumbers
<1> QED  BY <1>2, <1>3

Shift == INSTANCE Recursion WITH First <- LAMBDA p : p, Step <- LAMBDA p, n, x : x \div 2

(* A shift by one more bit halves the number.                              *)
LEMMA Shifts ==
  ASSUME NEW key \in Nat
  PROVE  /\ ShiftRight(key, 0) = key
         /\ \A n \in Nat : /\ ShiftRight(key, n) \in Nat
                           /\ ShiftRight(key, n + 1) = ShiftRight(key, n) \div 2
<1>1. \A n : ShiftRight(key, n) = Shift!Recursive(key)[n]
  BY DEF ShiftRight, Shift!Recursive
<1>2. ShiftRight(key, 0) = key /\ \A n \in Nat : ShiftRight(key, n + 1) = ShiftRight(key, n) \div 2
  BY <1>1, Shift!RecursionFollows
<1> DEFINE T == {n \in Nat : ShiftRight(key, n) \in Nat}
<1>3. T = Nat
  <2>1. 0 \in T /\ \A n \in T : n + 1 \in T
    BY <1>2
  <2>2. T \in SUBSET Nat
    OBVIOUS
  <2> HIDE DEF T
  <2> QED  BY <2>1, <2>2, AllNumbers
<1> QED  BY <1>2, <1>3

---------------------------------------------------------------------------
(* Keys                                                                    *)

(* Keys are compared, and shifted, as natural numbers.                     *)
LEMMA KeysAreNumbers == KeySpace \subseteq Nat
  BY DEF KeySpace

(* A key has nothing above its Depth bits.                                 *)
LEMMA NothingAboveTheKey ==
  ASSUME NEW key \in KeySpace
  PROVE  ShiftRight(key, Depth) = 0
<1> DEFINE T == {n \in Nat : n <= Depth => ShiftRight(key, n) < TwoTo(Depth - n)}
<1>1. key \in Nat /\ key < TwoTo(Depth) /\ Depth \in Nat
  BY PowersOfTwo, DepthAssumption DEF KeySpace
<1>2. 0 \in T
  BY <1>1, Shifts
<1>3. ASSUME NEW n \in T
      PROVE  n + 1 \in T
  <2> SUFFICES ASSUME n + 1 <= Depth
               PROVE  ShiftRight(key, n + 1) < TwoTo(Depth - (n + 1))
    OBVIOUS
  <2>1. Depth - (n + 1) \in Nat /\ (Depth - (n + 1)) + 1 = Depth - n /\ n <= Depth
    BY <1>1
  <2>2. TwoTo(Depth - n) = 2 * TwoTo(Depth - (n + 1)) /\ TwoTo(Depth - (n + 1)) \in Nat
    BY <2>1, PowersOfTwo
  <2>3. ShiftRight(key, n) < TwoTo(Depth - n)
    BY <2>1
  <2>4. ShiftRight(key, n) \in Nat /\ ShiftRight(key, n + 1) = ShiftRight(key, n) \div 2
    BY <1>1, Shifts
  <2> QED  BY <2>2, <2>3, <2>4
<1>4. T = Nat
  <2>1. T \in SUBSET Nat
    OBVIOUS
  <2> HIDE DEF T
  <2> QED  BY <1>2, <1>3, <2>1, AllNumbers
<1>5. ShiftRight(key, Depth) < TwoTo(Depth - Depth)
  BY <1>1, <1>4
<1>6. Depth - Depth = 0 /\ ShiftRight(key, Depth) \in Nat
  BY <1>1, Shifts
<1> QED  BY <1>5, <1>6, PowersOfTwo

(* What GetBit reads: Key::getBit counts the bits from the top.            *)
LEMMA BitOfKey ==
  ASSUME NEW key \in KeySpace, NEW n \in 0 .. Depth - 1
  PROVE  /\ GetBit(key, n) = ShiftRight(key, Depth - 1 - n) % 2
         /\ GetBit(key, n) \in {0, 1}
<1>1. GetBit(key, n) = ShiftRight(key, Depth - 1 - n) % 2
  BY DEF GetBit, KeyBits
<1>2. ShiftRight(key, Depth - 1 - n) \in Nat
  <2>1. key \in Nat /\ Depth - 1 - n \in Nat
    BY KeysAreNumbers, DepthAssumption
  <2> QED  BY <2>1, Shifts
<1> QED  BY <1>1, <1>2

(* Keys that agree on their first bits are the same above the others.      *)
LEMMA SamePrefix ==
  ASSUME NEW k \in KeySpace, NEW l \in KeySpace, NEW d \in 0 .. Depth,
         \A n \in 0 .. d - 1 : GetBit(k, n) = GetBit(l, n)
  PROVE  ShiftRight(k, Depth - d) = ShiftRight(l, Depth - d)
<1> DEFINE T == {e \in Nat : e <= d => ShiftRight(k, Depth - e) = ShiftRight(l, Depth - e)}
<1>1. k \in Nat /\ l \in Nat /\ Depth \in Nat
  BY KeysAreNumbers, DepthAssumption
<1>2. 0 \in T
  <2>1. Depth - 0 = Depth
    BY <1>1
  <2> QED  BY <2>1, NothingAboveTheKey
<1>3. ASSUME NEW e \in T
      PROVE  e + 1 \in T
  <2> SUFFICES ASSUME e + 1 <= d
               PROVE  ShiftRight(k, Depth - (e + 1)) = ShiftRight(l, Depth - (e + 1))
    OBVIOUS
  <2>1. /\ e \in 0 .. d - 1 /\ e \in 0 .. Depth - 1 /\ e <= d
        /\ Depth - (e + 1) = Depth - 1 - e /\ Depth - (e + 1) \in Nat
        /\ (Depth - (e + 1)) + 1 = Depth - e
    BY <1>1
  <2>2. ShiftRight(k, Depth - (e + 1)) % 2 = ShiftRight(l, Depth - (e + 1)) % 2
    BY <2>1, BitOfKey
  <2>3. ShiftRight(k, Depth - (e + 1)) \div 2 = ShiftRight(l, Depth - (e + 1)) \div 2
    <3>1. ShiftRight(k, Depth - e) = ShiftRight(l, Depth - e)
      BY <2>1
    <3> QED  BY <1>1, <2>1, <3>1, Shifts
  <2>4. ShiftRight(k, Depth - (e + 1)) \in Nat /\ ShiftRight(l, Depth - (e + 1)) \in Nat
    BY <1>1, <2>1, Shifts
  <2> QED  BY <2>2, <2>3, <2>4
<1>4. T = Nat
  <2>1. T \in SUBSET Nat
    OBVIOUS
  <2> HIDE DEF T
  <2> QED  BY <1>2, <1>3, <2>1, AllNumbers
<1> QED  BY <1>4

(* Shifting never turns the order of two numbers round.                    *)
LEMMA ShiftsKeepOrder ==
  ASSUME NEW k \in Nat, NEW l \in Nat, NEW n \in Nat, ShiftRight(k, n) < ShiftRight(l, n)
  PROVE  k < l
<1> DEFINE T == {m \in Nat : ShiftRight(k, m) < ShiftRight(l, m) => k < l}
<1>1. 0 \in T
  BY Shifts
<1>2. ASSUME NEW m \in T
      PROVE  m + 1 \in T
  <2> SUFFICES ASSUME ShiftRight(k, m + 1) < ShiftRight(l, m + 1)
               PROVE  k < l
    OBVIOUS
  <2>1. /\ ShiftRight(k, m) \in Nat /\ ShiftRight(k, m + 1) = ShiftRight(k, m) \div 2
        /\ ShiftRight(l, m) \in Nat /\ ShiftRight(l, m + 1) = ShiftRight(l, m) \div 2
    BY Shifts
  <2>2. ShiftRight(k, m) < ShiftRight(l, m)
    BY <2>1
  <2> QED  BY <2>2
<1>3. T = Nat
  <2>1. T \in SUBSET Nat
    OBVIOUS
  <2> HIDE DEF T
  <2> QED  BY <1>1, <1>2, <2>1, AllNumbers
<1> QED  BY <1>3

(* The first bit in which two keys differ tells which comes first, as the  *)
(* comparison of their bytes does (Key.h, operator <).                     *)
LEMMA FirstBitDecides ==
  ASSUME NEW k \in KeySpace, NEW l \in KeySpace, NEW d \in 0 .. Depth - 1,
         \A n \in 0 .. d - 1 : GetBit(k, n) = GetBit(l, n),
         GetBit(k, d) = 0, GetBit(l, d) = 1
  PROVE  k < l
<1>1. k \in Nat /\ l \in Nat /\ Depth \in Nat
  BY KeysAreNumbers, DepthAssumption
<1>2. PICK m \in Nat : m = Depth - 1 - d
  BY <1>1
<1>3. m + 1 = Depth - d /\ d \in 0 .. Depth
  BY <1>1, <1>2
<1>4. ShiftRight(k, m + 1) = ShiftRight(l, m + 1)
  BY <1>3, SamePrefix
<1>5. ShiftRight(k, m) % 2 = 0 /\ ShiftRight(l, m) % 2 = 1
  BY <1>2, BitOfKey
<1>6. /\ ShiftRight(k, m) \in Nat /\ ShiftRight(l, m) \in Nat
      /\ ShiftRight(k, m) \div 2 = ShiftRight(l, m) \div 2
  <2>1. ShiftRight(k, m) \in Nat /\ ShiftRight(k, m + 1) = ShiftRight(k, m) \div 2
    BY <1>1, Shifts
  <2>2. ShiftRight(l, m) \in Nat /\ ShiftRight(l, m + 1) = ShiftRight(l, m) \div 2
    BY <1>1, Shifts
  <2> QED  BY <1>4, <2>1, <2>2
<1>7. ShiftRight(k, m) < ShiftRight(l, m)
  BY <1>5, <1>6
<1> QED  BY <1>1, <1>7, ShiftsKeepOrder

---------------------------------------------------------------------------
(* Levels of a tree                                                        *)

Level == INSTANCE Recursion WITH First <- LAMBDA p : {p[2]} \ {Empty},
                                 Step  <- LAMBDA p, n, x : Children(p[1], x)

(* AtDepth descends from the node itself by one generation at a time.      *)
LEMMA LevelsFollow ==
  ASSUME NEW nodes, NEW id, NEW k \in Nat
  PROVE  /\ AtDepth(nodes, id, 0) = {id} \ {Empty}
         /\ AtDepth(nodes, id, k + 1) = Children(nodes, AtDepth(nodes, id, k))
<1>1. \A n : AtDepth(nodes, id, n) = Level!Recursive(<<nodes, id>>)[n]
  BY DEF AtDepth, Level!Recursive
<1>2. /\ Level!Recursive(<<nodes, id>>)[0] = {id} \ {Empty}
      /\ Level!Recursive(<<nodes, id>>)[k + 1] = Children(nodes, Level!Recursive(<<nodes, id>>)[k])
  BY Level!RecursionFollows
<1> QED  BY <1>1, <1>2

(* At the top there is the node itself.                                    *)
LEMMA FirstLevel ==
  ASSUME NEW nodes, NEW id
  PROVE  AtDepth(nodes, id, 0) = {id} \ {Empty}
BY LevelsFollow

(* Each level has the children of the one above.                           *)
LEMMA LevelAfter ==
  ASSUME NEW nodes, NEW id, NEW n \in Nat, NEW m \in Nat, m = n + 1
  PROVE  AtDepth(nodes, id, m) = Children(nodes, AtDepth(nodes, id, n))
<1>1. AtDepth(nodes, id, n + 1) = Children(nodes, AtDepth(nodes, id, n))
  BY LevelsFollow
<1> QED  BY <1>1

(* The same, from below.                                                   *)
LEMMA NextLevel ==
  ASSUME NEW nodes, NEW id, NEW n \in Nat, n # 0
  PROVE  AtDepth(nodes, id, n) = Children(nodes, AtDepth(nodes, id, n - 1))
<1>1. n - 1 \in Nat /\ n = (n - 1) + 1
  OBVIOUS
<1> QED  BY <1>1, LevelAfter

(* An empty child is no node of any level.                                 *)
LEMMA LevelsHaveNodes ==
  ASSUME NEW nodes, NEW id, NEW n \in Nat
  PROVE  Empty \notin AtDepth(nodes, id, n)
<1>1. CASE n = 0
  BY <1>1, FirstLevel, LevelAfter
<1>2. CASE n # 0
  <2>1. AtDepth(nodes, id, n) = Children(nodes, AtDepth(nodes, id, n - 1))
    BY <1>2, NextLevel
  <2>2. Empty \notin Children(nodes, AtDepth(nodes, id, n - 1))
    BY DEF Children
  <2> QED  BY <2>1, <2>2
<1> QED  BY <1>1, <1>2

---------------------------------------------------------------------------
(* Paths from the root, as the stack of an iterator holds them; the last   *)
(* node may be Empty.                                                      *)

Sides(nodes, id) == {ParsedNode(nodes, id).left, ParsedNode(nodes, id).right}

Paths(nodes, root) ==
  {p \in Seq(DOMAIN nodes \cup {Empty}) :
     /\ p # <<>> /\ p[1] = root
     /\ \A i \in 1 .. Len(p) - 1 :
          IsBranch(ParsedNode(nodes, p[i])) /\ p[i + 1] \in Sides(nodes, p[i])}

End(p) == p[Len(p)]

LeafPaths(nodes, root) == {p \in Paths(nodes, root) : IsLeaf(ParsedNode(nodes, End(p)))}

KeyOf(nodes, p) == ParsedNode(nodes, End(p)).key

(* A path goes down one level with each node.                              *)
LEMMA PathsGoDown ==
  ASSUME NEW nodes, NEW root, NEW p \in Paths(nodes, root),
         NEW s \in 1 .. Len(p), NEW j \in s .. Len(p), p[j] # Empty
  PROVE  p[j] \in AtDepth(nodes, p[s], j - s)
<1>0. Len(p) \in Nat
  BY DEF Paths
<1> DEFINE T == {i \in Nat : s + i <= Len(p) /\ p[s + i] # Empty => p[s + i] \in AtDepth(nodes, p[s], i)}
<1>1. 0 \in T
  <2>1. s + 0 = s
    OBVIOUS
  <2> QED  BY <2>1, FirstLevel, LevelAfter
<1>2. ASSUME NEW i \in T
      PROVE  i + 1 \in T
  <2> SUFFICES ASSUME s + (i + 1) <= Len(p), p[s + (i + 1)] # Empty
               PROVE  p[s + (i + 1)] \in AtDepth(nodes, p[s], i + 1)
    OBVIOUS
  <2>1. s + i \in 1 .. Len(p) - 1 /\ (s + i) + 1 = s + (i + 1) /\ s + i <= Len(p)
    BY <1>0
  <2>2. IsBranch(ParsedNode(nodes, p[s + i])) /\ p[s + (i + 1)] \in Sides(nodes, p[s + i])
    BY <2>1 DEF Paths
  <2>3. p[s + i] # Empty
    BY <2>2 DEF IsBranch, ParsedNode, EmptyNode
  <2>4. p[s + i] \in AtDepth(nodes, p[s], i)
    BY <2>1, <2>3
  <2>5. p[s + (i + 1)] \in Children(nodes, AtDepth(nodes, p[s], i))
    BY <2>2, <2>3, <2>4 DEF Children, Sides, ParsedNode
  <2> QED  BY <2>5, FirstLevel, LevelAfter
<1>3. T = Nat
  <2>1. T \in SUBSET Nat
    OBVIOUS
  <2> HIDE DEF T
  <2> QED  BY <1>1, <1>2, <2>1, AllNumbers
<1>4. j - s \in T /\ s + (j - s) = j
  BY <1>0, <1>3
<1> QED  BY <1>0, <1>4

(* A path has one node per level, the branches above level Depth.          *)
LEMMA PathsAreShort ==
  ASSUME NEW nodes, NEW root, WellFormed(nodes, root), NEW p \in Paths(nodes, root)
  PROVE  /\ Len(p) \in 1 .. Depth + 1
         /\ \A i \in 1 .. Len(p) - 1 :
              /\ p[i] # Empty /\ p[i] \in AtDepth(nodes, root, i - 1)
              /\ IsBranch(nodes[p[i]]) /\ p[i + 1] \in {nodes[p[i]].left, nodes[p[i]].right}
<1>0. Len(p) \in Nat /\ Len(p) >= 1 /\ p[1] = root /\ Depth \in Nat
  BY DepthAssumption DEF Paths
<1>1. ASSUME NEW i \in 1 .. Len(p) - 1
      PROVE  /\ p[i] # Empty /\ p[i] \in AtDepth(nodes, root, i - 1)
             /\ IsBranch(nodes[p[i]]) /\ p[i + 1] \in {nodes[p[i]].left, nodes[p[i]].right}
  <2>1. IsBranch(ParsedNode(nodes, p[i])) /\ p[i + 1] \in Sides(nodes, p[i])
    BY DEF Paths
  <2>2. p[i] # Empty
    BY <2>1 DEF IsBranch, ParsedNode, EmptyNode
  <2>3. 1 \in 1 .. Len(p) /\ i \in 1 .. Len(p)
    BY <1>0
  <2>4. p[i] \in AtDepth(nodes, root, i - 1)
    BY <1>0, <2>2, <2>3, PathsGoDown
  <2> QED  BY <2>1, <2>2, <2>4 DEF ParsedNode, Sides
<1>2. ASSUME Len(p) > Depth + 1
      PROVE  FALSE
  <2>1. Depth + 1 \in 1 .. Len(p) - 1 /\ (Depth + 1) - 1 = Depth /\ Depth \in 0 .. Depth
    BY <1>0, <1>2
  <2>2. p[Depth + 1] \in AtDepth(nodes, root, Depth) /\ IsBranch(nodes[p[Depth + 1]])
    BY <1>1, <2>1
  <2>3. IsLeaf(nodes[p[Depth + 1]]) \/ Depth < Depth
    BY <2>1, <2>2 DEF WellFormed
  <2> QED  BY <1>0, <2>2, <2>3 DEF IsLeaf, IsBranch
<1> QED  BY <1>0, <1>1, <1>2

(* What is known of a branch of a tree, by its place on a path.            *)
LEMMA BranchesOfPaths ==
  ASSUME NEW nodes, NEW root, WellFormed(nodes, root), NEW p \in Paths(nodes, root),
         NEW i \in 1 .. Len(p) - 1
  PROVE  /\ i - 1 \in 0 .. Depth - 1
         /\ nodes[p[i]].left # nodes[p[i]].right
         /\ \A leaf \in Leaves(nodes, nodes[p[i]].left)  : GetBit(nodes[leaf].key, i - 1) = 0
         /\ \A leaf \in Leaves(nodes, nodes[p[i]].right) : GetBit(nodes[leaf].key, i - 1) = 1
<1>1. Len(p) \in 1 .. Depth + 1 /\ p[i] \in AtDepth(nodes, root, i - 1) /\ IsBranch(nodes[p[i]])
  BY PathsAreShort
<1>2. i - 1 \in 0 .. Depth /\ i - 1 \in 0 .. Depth - 1
  BY <1>1, DepthAssumption
<1>3. ~IsLeaf(nodes[p[i]])
  BY <1>1 DEF IsLeaf, IsBranch
<1> QED  BY <1>1, <1>2, <1>3 DEF WellFormed

(* The turns of the path to a leaf are the bits of its key.                *)
LEMMA LeavesAreWhereTheirKeysLead ==
  ASSUME NEW nodes, NEW root, WellFormed(nodes, root), NEW p \in LeafPaths(nodes, root)
  PROVE  /\ KeyOf(nodes, p) \in KeySpace
         /\ \A i \in 1 .. Len(p) - 1 :
              GetBit(KeyOf(nodes, p), i - 1) = IF p[i + 1] = nodes[p[i]].left THEN 0 ELSE 1
<1>1. p \in Paths(nodes, root) /\ Len(p) \in 1 .. Depth + 1 /\ Len(p) \in Nat
  BY PathsAreShort, DepthAssumption DEF LeafPaths
<1>2. /\ p[Len(p)] # Empty /\ ParsedNode(nodes, p[Len(p)]) = nodes[p[Len(p)]]
      /\ IsLeaf(nodes[p[Len(p)]]) /\ KeyOf(nodes, p) = nodes[p[Len(p)]].key
  BY DEF LeafPaths, IsLeaf, ParsedNode, EmptyNode, End, KeyOf
<1>3. KeyOf(nodes, p) \in KeySpace
  <2>1. p[1] = root /\ 1 \in 1 .. Len(p) /\ Len(p) \in 1 .. Len(p) /\ Len(p) - 1 \in 0 .. Depth
    BY <1>1, DepthAssumption DEF Paths
  <2>2. p[Len(p)] \in AtDepth(nodes, root, Len(p) - 1)
    BY <1>1, <1>2, <2>1, PathsGoDown
  <2> QED  BY <1>2, <2>1, <2>2 DEF WellFormed
<1>4. ASSUME NEW i \in 1 .. Len(p) - 1
      PROVE  GetBit(KeyOf(nodes, p), i - 1) = IF p[i + 1] = nodes[p[i]].left THEN 0 ELSE 1
  <2>1. /\ i + 1 \in 1 .. Len(p) /\ Len(p) \in i + 1 .. Len(p)
        /\ Len(p) - (i + 1) \in 0 .. Depth
    BY <1>1, DepthAssumption
  <2>2. p[Len(p)] \in AtDepth(nodes, p[i + 1], Len(p) - (i + 1))
    BY <1>1, <1>2, <2>1, PathsGoDown
  <2>3. p[Len(p)] \in Leaves(nodes, p[i + 1])
    BY <1>2, <2>1, <2>2 DEF Leaves, Walk
  <2>4. p[i + 1] \in {nodes[p[i]].left, nodes[p[i]].right}
    BY <1>1, PathsAreShort
  <2> QED  BY <1>1, <1>2, <2>3, <2>4, BranchesOfPaths
<1> QED  BY <1>3, <1>4

(* What a path can end in.                                                 *)
LEMMA EndsOfPaths ==
  ASSUME NEW nodes, NEW root, WellFormed(nodes, root), NEW p \in Paths(nodes, root)
  PROVE  \/ End(p) = Empty
         \/ End(p) # Empty /\ IsLeaf(ParsedNode(nodes, End(p))) /\ ~IsBranch(ParsedNode(nodes, End(p)))
         \/ End(p) # Empty /\ IsBranch(ParsedNode(nodes, End(p))) /\ ~IsLeaf(ParsedNode(nodes, End(p)))
<1> SUFFICES ASSUME End(p) # Empty
             PROVE  IsLeaf(nodes[End(p)]) \/ IsBranch(nodes[End(p)])
  BY DEF ParsedNode, IsLeaf, IsBranch, EmptyNode
<1>0. p[1] = root /\ Depth \in Nat
  BY DepthAssumption DEF Paths
<1>1. /\ p[1] = root /\ Len(p) \in 1 .. Depth + 1 /\ Len(p) - 1 \in 0 .. Depth
      /\ 1 \in 1 .. Len(p) /\ Len(p) \in 1 .. Len(p)
  <2>1. Len(p) \in 1 .. Depth + 1
    BY PathsAreShort
  <2> QED  BY <1>0, <2>1
<1>2. End(p) \in AtDepth(nodes, root, Len(p) - 1)
  BY <1>1, PathsGoDown DEF End
<1> QED  BY <1>1, <1>2 DEF WellFormed

(* The stack of an iterator that has just been made: the head alone.       *)
LEMMA RootIsAPath ==
  ASSUME NEW nodes, NEW root, WellFormed(nodes, root)
  PROVE  <<root>> \in Paths(nodes, root)
<1>1. root \in DOMAIN nodes \cup {Empty}
  <2>1. root # Empty => root \in AtDepth(nodes, root, 0)
    BY FirstLevel, LevelAfter
  <2>2. 0 \in 0 .. Depth
    BY DepthAssumption
  <2> QED  BY <2>1, <2>2 DEF WellFormed
<1> QED  BY <1>1 DEF Paths

(* A path that ends in a branch is continued by each child.                *)
LEMMA PathsGoOn ==
  ASSUME NEW nodes, NEW root, WellFormed(nodes, root), NEW p \in Paths(nodes, root),
         IsBranch(ParsedNode(nodes, End(p))), NEW c \in Sides(nodes, End(p))
  PROVE  Append(p, c) \in Paths(nodes, root) /\ Len(Append(p, c)) <= Depth + 1
<1>1. /\ Len(p) \in 1 .. Depth + 1 /\ p[1] = root /\ p \in Seq(DOMAIN nodes \cup {Empty})
      /\ p # <<>> /\ Depth \in Nat
  BY PathsAreShort, DepthAssumption DEF Paths
<1>2. p[Len(p)] # Empty /\ ParsedNode(nodes, p[Len(p)]) = nodes[p[Len(p)]]
  BY DEF IsBranch, ParsedNode, EmptyNode, End
<1>3. p[Len(p)] \in AtDepth(nodes, root, Len(p) - 1) /\ Len(p) - 1 \in 0 .. Depth
  <2>1. 1 \in 1 .. Len(p) /\ Len(p) \in 1 .. Len(p)
    BY <1>1
  <2> QED  BY <1>1, <1>2, <2>1, PathsGoDown
<1>4. Len(p) - 1 < Depth /\ ~IsLeaf(nodes[p[Len(p)]])
  BY <1>2, <1>3 DEF WellFormed, IsLeaf, IsBranch, End
<1>5. c \in DOMAIN nodes \cup {Empty}
  <2> SUFFICES ASSUME c # Empty
               PROVE  c \in DOMAIN nodes
    OBVIOUS
  <2>1. c \in Children(nodes, AtDepth(nodes, root, Len(p) - 1))
    BY <1>2, <1>3 DEF Children, Sides, End
  <2>2. Len(p) \in Nat /\ Len(p) # 0 /\ Len(p) \in 0 .. Depth
    BY <1>1, <1>4
  <2>3. c \in AtDepth(nodes, root, Len(p))
    BY <2>1, <2>2, NextLevel
  <2> QED  BY <2>2, <2>3 DEF WellFormed
<1> DEFINE q == Append(p, c)
<1>6. q \in Seq(DOMAIN nodes \cup {Empty}) /\ Len(q) = Len(p) + 1 /\ q # <<>> /\ q[1] = root
  BY <1>1, <1>5
<1>7. ASSUME NEW i \in 1 .. Len(q) - 1
      PROVE  IsBranch(ParsedNode(nodes, q[i])) /\ q[i + 1] \in Sides(nodes, q[i])
  <2>1. CASE i = Len(p)
    <3>1. q[i] = p[Len(p)] /\ q[i + 1] = c
      BY <1>1, <2>1
    <3> HIDE DEF q
    <3> QED  BY <3>1 DEF End
  <2>2. CASE i # Len(p)
    <3>1. i \in 1 .. Len(p) - 1 /\ q[i] = p[i] /\ q[i + 1] = p[i + 1]
      BY <1>1, <1>6, <2>2
    <3> HIDE DEF q
    <3> QED  BY <3>1 DEF Paths
  <2> QED  BY <2>1, <2>2
<1> HIDE DEF q
<1>8. q \in Paths(nodes, root)
  BY <1>6, <1>7 DEF Paths
<1>9. Len(q) <= Depth + 1
  BY <1>1, <1>4, <1>6
<1> QED  BY <1>8, <1>9 DEF q

(* Every node of the tree is at the end of a path.                         *)
LEMMA EveryNodeHasAPath ==
  ASSUME NEW nodes, NEW root, WellFormed(nodes, root),
         NEW n \in 0 .. Depth, NEW id \in AtDepth(nodes, root, n)
  PROVE  \E p \in Paths(nodes, root) : End(p) = id
<1> DEFINE T == {m \in Nat : m <= Depth =>
                   \A x \in AtDepth(nodes, root, m) : \E p \in Paths(nodes, root) : End(p) = x}
<1>1. 0 \in T
  <2>1. \A x \in AtDepth(nodes, root, 0) : x = root
    BY FirstLevel, LevelAfter
  <2>2. <<root>> \in Paths(nodes, root) /\ End(<<root>>) = root
    BY RootIsAPath DEF End
  <2> QED  BY <2>1, <2>2
<1>2. ASSUME NEW m \in T
      PROVE  m + 1 \in T
  <2> SUFFICES ASSUME m + 1 <= Depth, NEW x \in AtDepth(nodes, root, m + 1)
               PROVE  \E p \in Paths(nodes, root) : End(p) = x
    OBVIOUS
  <2>1. m \in 0 .. Depth /\ m <= Depth
    BY DepthAssumption
  <2>2. PICK y \in AtDepth(nodes, root, m) : x \in {nodes[y].left, nodes[y].right} /\ x # Empty
    <3>1. x \in Children(nodes, AtDepth(nodes, root, m))
      BY FirstLevel, LevelAfter
    <3> QED  BY <3>1 DEF Children
  <2>3. PICK p \in Paths(nodes, root) : End(p) = y
    BY <2>1
  <2>4. y # Empty
    BY LevelsHaveNodes
  <2>5. IsBranch(nodes[y])
    <3>1. IsLeaf(nodes[y]) => Children(nodes, {y}) = {}
      BY <2>1 DEF WellFormed
    <3>2. x \in Children(nodes, {y})
      BY <2>2 DEF Children
    <3> QED  BY <2>1, <3>1, <3>2 DEF WellFormed
  <2>6. IsBranch(ParsedNode(nodes, End(p))) /\ x \in Sides(nodes, End(p))
    BY <2>2, <2>3, <2>4, <2>5 DEF ParsedNode, Sides
  <2>7. Append(p, x) \in Paths(nodes, root)
    BY <2>6, PathsGoOn
  <2>8. End(Append(p, x)) = x
    BY DEF End, Paths
  <2> QED  BY <2>7, <2>8
<1>3. T = Nat
  <2>1. T \in SUBSET Nat
    OBVIOUS
  <2> HIDE DEF T
  <2> QED  BY <1>1, <1>2, <2>1, AllNumbers
<1> QED  BY <1>3

(* The records of a tree are what its paths to leaves lead to.             *)
LEMMA RecordsAreAtTheEndsOfPaths ==
  ASSUME NEW nodes, NEW root, WellFormed(nodes, root)
  PROVE  DOMAIN Contents(nodes, root) = {KeyOf(nodes, p) : p \in LeafPaths(nodes, root)}
<1>1. DOMAIN Contents(nodes, root) = {nodes[id].key : id \in Leaves(nodes, root)}
  BY DEF Contents
<1>2. ASSUME NEW id \in Leaves(nodes, root)
      PROVE  \E p \in LeafPaths(nodes, root) : KeyOf(nodes, p) = nodes[id].key
  <2>1. PICK n \in 0 .. Depth : id \in AtDepth(nodes, root, n)
    BY DEF Leaves, Walk
  <2>2. PICK p \in Paths(nodes, root) : End(p) = id
    BY <2>1, EveryNodeHasAPath
  <2>3. id # Empty
    BY <2>1, LevelsHaveNodes
  <2> QED  BY <2>2, <2>3 DEF LeafPaths, KeyOf, ParsedNode, Leaves
<1>3. ASSUME NEW p \in LeafPaths(nodes, root)
      PROVE  End(p) \in Leaves(nodes, root) /\ KeyOf(nodes, p) = nodes[End(p)].key
  <2>1. End(p) # Empty
    BY DEF LeafPaths, IsLeaf, ParsedNode, EmptyNode
  <2>2. /\ p \in Paths(nodes, root) /\ Len(p) \in 1 .. Depth + 1 /\ Len(p) - 1 \in 0 .. Depth
        /\ p[1] = root /\ 1 \in 1 .. Len(p) /\ Len(p) \in 1 .. Len(p)
    BY PathsAreShort, DepthAssumption DEF LeafPaths, Paths
  <2>3. End(p) \in AtDepth(nodes, root, Len(p) - 1)
    BY <2>1, <2>2, PathsGoDown DEF End
  <2> QED  BY <2>1, <2>2, <2>3 DEF LeafPaths, Leaves, Walk, ParsedNode, KeyOf
<1> QED  BY <1>1, <1>2, <1>3

(* Two paths to leaves part at some branch, above both ends.               *)
LEMMA PathsPart ==
  ASSUME NEW nodes, NEW root, NEW p \in LeafPaths(nodes, root), NEW q \in LeafPaths(nodes, root),
         p # q
  PROVE  \E d \in Nat : /\ d \in 1 .. Len(p) - 1 /\ d \in 1 .. Len(q) - 1
                        /\ \A i \in 1 .. d : p[i] = q[i]
                        /\ p[d + 1] # q[d + 1]
<1> DEFINE D == {i \in Nat : i \in 1 .. Len(p) /\ i \in 1 .. Len(q) /\ p[i] # q[i]}
<1>1. /\ p \in Seq(DOMAIN nodes \cup {Empty}) /\ q \in Seq(DOMAIN nodes \cup {Empty})
      /\ p # <<>> /\ q # <<>> /\ p[1] = q[1]
      /\ Len(p) \in Nat /\ Len(q) \in Nat /\ Len(p) >= 1 /\ Len(q) >= 1
  BY DEF LeafPaths, Paths
<1>2. CASE D = {}
  <2>1. CASE Len(p) = Len(q)
    <3>1. \A i \in 1 .. Len(p) : p[i] = q[i]
      BY <1>1, <1>2, <2>1
    <3>2. p = q
      BY <1>1, <2>1, <3>1
    <3> QED  BY <3>2
  <2>2. CASE Len(p) < Len(q)
    <3>1. Len(p) \in 1 .. Len(q) - 1 /\ Len(p) \in 1 .. Len(p) /\ Len(p) \in 1 .. Len(q)
      BY <1>1, <2>2
    <3>2. p[Len(p)] = q[Len(p)]
      BY <1>2, <3>1
    <3>3. IsBranch(ParsedNode(nodes, q[Len(p)])) /\ IsLeaf(ParsedNode(nodes, p[Len(p)]))
      BY <3>1 DEF LeafPaths, Paths, End
    <3> QED  BY <3>2, <3>3 DEF IsBranch, IsLeaf
  <2>3. CASE Len(q) < Len(p)
    <3>1. Len(q) \in 1 .. Len(p) - 1 /\ Len(q) \in 1 .. Len(p) /\ Len(q) \in 1 .. Len(q)
      BY <1>1, <2>3
    <3>2. p[Len(q)] = q[Len(q)]
      BY <1>2, <3>1
    <3>3. IsBranch(ParsedNode(nodes, p[Len(q)])) /\ IsLeaf(ParsedNode(nodes, q[Len(q)]))
      BY <3>1 DEF LeafPaths, Paths, End
    <3> QED  BY <3>2, <3>3 DEF IsBranch, IsLeaf
  <2> QED  BY <1>1, <2>1, <2>2, <2>3
<1>3. CASE D # {}
  <2>1. D \in SUBSET Nat
    OBVIOUS
  <2>2. PICK x \in D : \A y \in D : x <= y
    <3> HIDE DEF D
    <3> QED  BY <1>3, <2>1, LeastElement
  <2>3. x # 1 /\ x \in Nat /\ x - 1 \in Nat /\ (x - 1) + 1 = x
    BY <1>1, <2>2
  <2>4. x - 1 \in 1 .. Len(p) - 1 /\ x - 1 \in 1 .. Len(q) - 1
    BY <1>1, <2>2, <2>3
  <2>5. ASSUME NEW i \in 1 .. x - 1
        PROVE  p[i] = q[i]
    <3>1. i \in Nat /\ i \in 1 .. Len(p) /\ i \in 1 .. Len(q) /\ ~(x <= i)
      BY <1>1, <2>4
    <3> QED  BY <2>2, <3>1
  <2>6. p[(x - 1) + 1] # q[(x - 1) + 1]
    BY <2>2, <2>3
  <2> QED  BY <2>3, <2>4, <2>5, <2>6
<1> QED  BY <1>2, <1>3

(* Where two paths part, the one that goes left leads to the lesser key.   *)
LEMMA LeftComesFirst ==
  ASSUME NEW nodes, NEW root, WellFormed(nodes, root),
         NEW p \in LeafPaths(nodes, root), NEW q \in LeafPaths(nodes, root), NEW d \in Nat,
         d \in 1 .. Len(p) - 1, d \in 1 .. Len(q) - 1,
         \A i \in 1 .. d : p[i] = q[i],
         p[d + 1] = nodes[p[d]].left, q[d + 1] # p[d + 1]
  PROVE  KeyOf(nodes, p) < KeyOf(nodes, q)
<1>1. p \in Paths(nodes, root) /\ q \in Paths(nodes, root) /\ Len(p) \in Nat /\ Len(q) \in Nat
  BY DEF LeafPaths, Paths
<1>2. KeyOf(nodes, p) \in KeySpace /\ KeyOf(nodes, q) \in KeySpace
  BY LeavesAreWhereTheirKeysLead
<1>3. d - 1 \in 0 .. Depth - 1
  BY <1>1, BranchesOfPaths
<1>4. p[d] = q[d]
  OBVIOUS
<1>5. GetBit(KeyOf(nodes, p), d - 1) = 0
  BY LeavesAreWhereTheirKeysLead
<1>6. GetBit(KeyOf(nodes, q), d - 1) = 1
  <2>1. q[d + 1] # nodes[q[d]].left
    BY <1>4
  <2> QED  BY <2>1, LeavesAreWhereTheirKeysLead
<1>7. ASSUME NEW n \in 0 .. d - 1 - 1
      PROVE  GetBit(KeyOf(nodes, p), n) = GetBit(KeyOf(nodes, q), n)
  <2>1. PICK i \in Nat : i = n + 1
    OBVIOUS
  <2>2. /\ i \in 1 .. Len(p) - 1 /\ i \in 1 .. Len(q) - 1 /\ i - 1 = n
        /\ i \in 1 .. d /\ i + 1 \in 1 .. d
    BY <1>1, <2>1
  <2>3. p[i] = q[i] /\ p[i + 1] = q[i + 1]
    BY <2>2
  <2>4. GetBit(KeyOf(nodes, p), i - 1) = IF p[i + 1] = nodes[p[i]].left THEN 0 ELSE 1
    BY <2>2, LeavesAreWhereTheirKeysLead
  <2>5. GetBit(KeyOf(nodes, q), i - 1) = IF q[i + 1] = nodes[q[i]].left THEN 0 ELSE 1
    BY <2>2, LeavesAreWhereTheirKeysLead
  <2> QED  BY <2>2, <2>3, <2>4, <2>5
<1> QED  BY <1>2, <1>3, <1>5, <1>6, <1>7, FirstBitDecides

(* The child of a branch that the bits of a key lead to.                   *)
Toward(nodes, id, key, depth) ==
  IF GetBit(key, depth) = 0 THEN nodes[id].left ELSE nodes[id].right

(* Where a path leaves the way of a key, it does so toward lesser keys or  *)
(* greater ones.                                                           *)
LEMMA OffTheWay ==
  ASSUME NEW nodes, NEW root, WellFormed(nodes, root),
         NEW q \in LeafPaths(nodes, root), NEW key \in KeySpace, NEW d \in Nat,
         d \in 1 .. Len(q) - 1,
         \A i \in 1 .. d - 1 : q[i + 1] = Toward(nodes, q[i], key, i - 1),
         q[d + 1] # Toward(nodes, q[d], key, d - 1)
  PROVE  IF q[d + 1] = nodes[q[d]].left THEN KeyOf(nodes, q) < key ELSE key < KeyOf(nodes, q)
<1>1. q \in Paths(nodes, root) /\ Len(q) \in Nat
  BY DEF LeafPaths, Paths
<1>2. KeyOf(nodes, q) \in KeySpace /\ d - 1 \in 0 .. Depth - 1
  BY <1>1, LeavesAreWhereTheirKeysLead, BranchesOfPaths
<1>3. /\ GetBit(key, d - 1) \in {0, 1}
      /\ q[d + 1] \in {nodes[q[d]].left, nodes[q[d]].right}
      /\ nodes[q[d]].left # nodes[q[d]].right
  BY <1>1, <1>2, BitOfKey, PathsAreShort, BranchesOfPaths
<1>4. GetBit(KeyOf(nodes, q), d - 1) = IF q[d + 1] = nodes[q[d]].left THEN 0 ELSE 1
  BY LeavesAreWhereTheirKeysLead
<1>5. ASSUME NEW n \in 0 .. d - 1 - 1
      PROVE  GetBit(KeyOf(nodes, q), n) = GetBit(key, n)
  <2>1. PICK i \in Nat : i = n + 1
    OBVIOUS
  <2>2. i \in 1 .. Len(q) - 1 /\ i - 1 = n /\ i \in 1 .. d - 1 /\ n \in 0 .. Depth - 1
    BY <1>1, <1>2, <2>1, DepthAssumption
  <2>3. GetBit(KeyOf(nodes, q), i - 1) = IF q[i + 1] = nodes[q[i]].left THEN 0 ELSE 1
    BY <2>2, LeavesAreWhereTheirKeysLead
  <2>4. q[i + 1] = Toward(nodes, q[i], key, i - 1) /\ nodes[q[i]].left # nodes[q[i]].right
    BY <1>1, <2>2, BranchesOfPaths
  <2>5. GetBit(key, n) \in {0, 1}
    BY <2>2, BitOfKey
  <2> QED  BY <2>2, <2>3, <2>4, <2>5 DEF Toward
<1>6. CASE q[d + 1] = nodes[q[d]].left
  <2>1. GetBit(KeyOf(nodes, q), d - 1) = 0 /\ GetBit(key, d - 1) = 1
    BY <1>3, <1>4, <1>6 DEF Toward
  <2>2. KeyOf(nodes, q) < key
    BY <1>2, <1>5, <2>1, FirstBitDecides
  <2> QED  BY <1>6, <2>2
<1>7. CASE q[d + 1] # nodes[q[d]].left
  <2>1. GetBit(KeyOf(nodes, q), d - 1) = 1 /\ GetBit(key, d - 1) = 0
    BY <1>3, <1>4, <1>7 DEF Toward
  <2>2. \A n \in 0 .. d - 1 - 1 : GetBit(key, n) = GetBit(KeyOf(nodes, q), n)
    BY <1>5
  <2>3. key < KeyOf(nodes, q)
    BY <1>2, <2>1, <2>2, FirstBitDecides
  <2> QED  BY <1>7, <2>3
<1> QED  BY <1>6, <1>7

---------------------------------------------------------------------------
(* The shape of subtrees                                                   *)

(* What is below a node of the tree is at the levels below its own.        *)
LEMMA LevelsBelow ==
  ASSUME NEW nodes, NEW root, NEW d \in Nat, NEW id \in AtDepth(nodes, root, d), NEW n \in Nat
  PROVE  AtDepth(nodes, id, n) \subseteq AtDepth(nodes, root, d + n)
<1> DEFINE T == {m \in Nat : AtDepth(nodes, id, m) \subseteq AtDepth(nodes, root, d + m)}
<1>1. 0 \in T
  <2>1. d + 0 = d
    OBVIOUS
  <2> QED  BY <2>1, FirstLevel, LevelAfter
<1>2. ASSUME NEW m \in T
      PROVE  m + 1 \in T
  <2>1. PICK e \in Nat : e = d + m
    OBVIOUS
  <2>2. AtDepth(nodes, root, e + 1) = Children(nodes, AtDepth(nodes, root, e))
    BY FirstLevel, LevelAfter
  <2>3. AtDepth(nodes, id, m + 1) = Children(nodes, AtDepth(nodes, id, m))
    BY FirstLevel, LevelAfter
  <2>4. AtDepth(nodes, id, m) \subseteq AtDepth(nodes, root, e) /\ d + (m + 1) = e + 1
    BY <2>1
  <2> QED  BY <2>2, <2>3, <2>4 DEF Children
<1>3. T = Nat
  <2>1. T \in SUBSET Nat
    OBVIOUS
  <2> HIDE DEF T
  <2> QED  BY <1>1, <1>2, <2>1, AllNumbers
<1> QED  BY <1>3

(* The first step down a branch, and then the others.                      *)
LEMMA FirstStepDown ==
  ASSUME NEW nodes, NEW id, id # Empty, NEW n \in Nat
  PROVE  AtDepth(nodes, id, n + 1) =
           AtDepth(nodes, nodes[id].left, n) \cup AtDepth(nodes, nodes[id].right, n)
<1> DEFINE Left(m)  == AtDepth(nodes, nodes[id].left, m)
           Right(m) == AtDepth(nodes, nodes[id].right, m)
           T == {m \in Nat : AtDepth(nodes, id, m + 1) = Left(m) \cup Right(m)}
<1>1. 0 \in T
  <2>1. AtDepth(nodes, id, 0) = {id}
    BY FirstLevel, LevelAfter
  <2>2. AtDepth(nodes, id, 0 + 1) = ({nodes[id].left, nodes[id].right}) \ {Empty}
    <3>1. AtDepth(nodes, id, 0 + 1) = Children(nodes, {id})
      BY <2>1, LevelAfter
    <3> QED  BY <3>1 DEF Children
  <2>3. Left(0) = {nodes[id].left} \ {Empty} /\ Right(0) = {nodes[id].right} \ {Empty}
    BY FirstLevel, LevelAfter
  <2> QED  BY <2>2, <2>3
<1>2. ASSUME NEW m \in T
      PROVE  m + 1 \in T
  <2>1. Left(m + 1) = Children(nodes, Left(m)) /\ Right(m + 1) = Children(nodes, Right(m))
    BY FirstLevel, LevelAfter
  <2>2. AtDepth(nodes, id, (m + 1) + 1) = Children(nodes, AtDepth(nodes, id, m + 1))
    BY FirstLevel, LevelAfter
  <2>3. AtDepth(nodes, id, m + 1) = Left(m) \cup Right(m)
    OBVIOUS
  <2> HIDE DEF Left, Right
  <2>4. Children(nodes, Left(m) \cup Right(m)) = Children(nodes, Left(m)) \cup Children(nodes, Right(m))
    BY DEF Children
  <2>5. AtDepth(nodes, id, (m + 1) + 1) = Left(m + 1) \cup Right(m + 1)
    BY <2>1, <2>2, <2>3, <2>4
  <2>6. m + 1 \in Nat
    OBVIOUS
  <2> QED  BY <2>5, <2>6
<1>3. T = Nat
  <2>1. T \in SUBSET Nat
    OBVIOUS
  <2> HIDE DEF T
  <2> QED  BY <1>1, <1>2, <2>1, AllNumbers
<1> QED  BY <1>3

(* Below level Depth there is nothing.                                     *)
LEMMA NothingDeeper ==
  ASSUME NEW nodes, NEW root, WellFormed(nodes, root), NEW n \in Nat
  PROVE  AtDepth(nodes, root, Depth + 1 + n) = {}
<1> DEFINE T == {m \in Nat : AtDepth(nodes, root, Depth + 1 + m) = {}}
<1>0. Depth \in Nat
  BY DepthAssumption
<1>1. 0 \in T
  <2>1. ASSUME NEW id \in AtDepth(nodes, root, Depth)
        PROVE  Children(nodes, {id}) = {}
    <3>1. Depth \in 0 .. Depth /\ ~(Depth < Depth)
      BY <1>0
    <3> QED  BY <3>1 DEF WellFormed
  <2>2. Children(nodes, AtDepth(nodes, root, Depth)) = {}
    BY <2>1 DEF Children
  <2>3. AtDepth(nodes, root, Depth + 1) = {} /\ Depth + 1 + 0 = Depth + 1
    BY <1>0, <2>2, FirstLevel, LevelAfter
  <2> QED  BY <2>3
<1>2. ASSUME NEW m \in T
      PROVE  m + 1 \in T
  <2>1. PICK e \in Nat : e = Depth + 1 + m
    BY <1>0
  <2>2. AtDepth(nodes, root, e + 1) = Children(nodes, {})
    BY <2>1, FirstLevel, LevelAfter
  <2>3. Depth + 1 + (m + 1) = e + 1
    BY <1>0, <2>1
  <2> QED  BY <2>2, <2>3 DEF Children
<1>3. T = Nat
  <2>1. T \in SUBSET Nat
    OBVIOUS
  <2> HIDE DEF T
  <2> QED  BY <1>1, <1>2, <2>1, AllNumbers
<1> QED  BY <1>3

(* The subtrees at a level, with those that are empty.                     *)
Subtrees(nodes, root, d) == AtDepth(nodes, root, d) \cup {Empty}

(* They are among the stored nodes.                                        *)
LEMMA SubtreesAreStored ==
  ASSUME NEW nodes, NEW root, WellFormed(nodes, root), NEW d \in 0 .. Depth,
         NEW id \in Subtrees(nodes, root, d)
  PROVE  id \in DOMAIN nodes \cup {Empty}
<1>1. CASE id = Empty
  BY <1>1
<1>2. CASE id # Empty
  <2>1. id \in AtDepth(nodes, root, d)
    BY <1>2 DEF Subtrees
  <2>2. id \in DOMAIN nodes
    BY <2>1 DEF WellFormed
  <2> QED  BY <2>2
<1> QED  BY <1>1, <1>2

(* What a subtree can be: empty, a leaf, or a branch whose leaves are      *)
(* divided by the bit of its level.                                        *)
LEMMA KindsOfSubtrees ==
  ASSUME NEW nodes, NEW root, WellFormed(nodes, root), NEW d \in 0 .. Depth,
         NEW id \in Subtrees(nodes, root, d)
  PROVE  \/ /\ id = Empty /\ ParsedNode(nodes, id) = EmptyNode /\ Leaves(nodes, id) = {}
            /\ ~IsLeaf(ParsedNode(nodes, id)) /\ ~IsBranch(ParsedNode(nodes, id))
         \/ /\ id # Empty /\ ParsedNode(nodes, id) = nodes[id]
            /\ IsLeaf(nodes[id]) /\ ~IsBranch(nodes[id])
            /\ Leaves(nodes, id) = {id} /\ nodes[id].key \in KeySpace
         \/ /\ id # Empty /\ ParsedNode(nodes, id) = nodes[id]
            /\ ~IsLeaf(nodes[id]) /\ IsBranch(nodes[id])
            /\ d \in 0 .. Depth - 1
            /\ nodes[id].left \in Subtrees(nodes, root, d + 1)
            /\ nodes[id].right \in Subtrees(nodes, root, d + 1)
            /\ Leaves(nodes, id) = Leaves(nodes, nodes[id].left) \cup Leaves(nodes, nodes[id].right)
            /\ \A leaf \in Leaves(nodes, nodes[id].left)  : GetBit(nodes[leaf].key, d) = 0
            /\ \A leaf \in Leaves(nodes, nodes[id].right) : GetBit(nodes[leaf].key, d) = 1
<1>0. Depth \in Nat /\ d \in Nat /\ d + 1 \in Nat
  BY DepthAssumption
<1>1. CASE id = Empty
  <2> DEFINE T == {m \in Nat : AtDepth(nodes, id, m) = {}}
  <2>1. 0 \in T
    BY <1>1, FirstLevel, LevelAfter
  <2>2. ASSUME NEW m \in T
        PROVE  m + 1 \in T
    BY FirstLevel, LevelAfter DEF Children
  <2>3. T = Nat
    <3>1. T \in SUBSET Nat
      OBVIOUS
    <3> HIDE DEF T
    <3> QED  BY <2>1, <2>2, <3>1, AllNumbers
  <2>4. Walk(nodes, id) = {}
    BY <1>0, <2>3 DEF Walk
  <2> QED  BY <1>1, <2>4 DEF Leaves, ParsedNode, EmptyNode, IsLeaf, IsBranch
<1>2. CASE id # Empty /\ IsLeaf(nodes[id])
  <2>1. id \in AtDepth(nodes, root, d)
    BY <1>2 DEF Subtrees
  <2>2. nodes[id].key \in KeySpace /\ Children(nodes, {id}) = {}
    BY <1>2, <2>1 DEF WellFormed
  <2> DEFINE T == {m \in Nat : AtDepth(nodes, id, m + 1) = {}}
  <2>3. 0 \in T
    <3>1. AtDepth(nodes, id, 0) = {id}
      BY <1>2, FirstLevel
    <3>2. AtDepth(nodes, id, 0 + 1) = Children(nodes, {id})
      BY <3>1, LevelAfter
    <3> QED  BY <2>2, <3>2
  <2>4. ASSUME NEW m \in T
        PROVE  m + 1 \in T
    BY FirstLevel, LevelAfter DEF Children
  <2>5. T = Nat
    <3>1. T \in SUBSET Nat
      OBVIOUS
    <3> HIDE DEF T
    <3> QED  BY <2>3, <2>4, <3>1, AllNumbers
  <2>6. ASSUME NEW n \in 0 .. Depth, n # 0
        PROVE  AtDepth(nodes, id, n) = {}
    <3>1. PICK m \in Nat : m + 1 = n
      BY <1>0, <2>6
    <3> QED  BY <2>5, <3>1
  <2>7. AtDepth(nodes, id, 0) = {id} /\ 0 \in 0 .. Depth
    BY <1>0, <1>2, FirstLevel, LevelAfter
  <2>8. Walk(nodes, id) = {id}
    BY <2>6, <2>7 DEF Walk
  <2> QED  BY <1>2, <2>2, <2>8 DEF Leaves, ParsedNode, IsLeaf, IsBranch
<1>3. CASE id # Empty /\ ~IsLeaf(nodes[id])
  <2>1. id \in AtDepth(nodes, root, d)
    BY <1>3 DEF Subtrees
  <2>2. /\ IsBranch(nodes[id]) /\ d < Depth
        /\ \A leaf \in Leaves(nodes, nodes[id].left)  : GetBit(nodes[leaf].key, d) = 0
        /\ \A leaf \in Leaves(nodes, nodes[id].right) : GetBit(nodes[leaf].key, d) = 1
    BY <1>3, <2>1 DEF WellFormed
  <2>3. /\ nodes[id].left \in Subtrees(nodes, root, d + 1)
        /\ nodes[id].right \in Subtrees(nodes, root, d + 1)
    BY <1>0, <2>1, FirstLevel, LevelAfter DEF Subtrees, Children
  <2>4. ASSUME NEW leaf \in Leaves(nodes, id)
        PROVE  leaf \in Leaves(nodes, nodes[id].left) \cup Leaves(nodes, nodes[id].right)
    <3>1. PICK n \in 0 .. Depth : leaf \in AtDepth(nodes, id, n)
      BY DEF Leaves, Walk
    <3>2. n # 0
      <4>1. AtDepth(nodes, id, 0) \subseteq {id} /\ IsLeaf(nodes[leaf])
        BY FirstLevel, LevelAfter DEF Leaves
      <4> QED  BY <1>3, <3>1, <4>1
    <3>3. PICK m \in 0 .. Depth : m + 1 = n
      BY <1>0, <3>2
    <3>4. leaf \in AtDepth(nodes, nodes[id].left, m) \cup AtDepth(nodes, nodes[id].right, m)
      BY <1>0, <1>3, <3>1, <3>3, FirstStepDown
    <3> QED  BY <3>4 DEF Leaves, Walk
  <2>5. ASSUME NEW leaf \in Leaves(nodes, nodes[id].left) \cup Leaves(nodes, nodes[id].right)
        PROVE  leaf \in Leaves(nodes, id)
    <3>1. PICK n \in 0 .. Depth : leaf \in AtDepth(nodes, nodes[id].left, n) \cup AtDepth(nodes, nodes[id].right, n)
      BY DEF Leaves, Walk
    <3>2. leaf \in AtDepth(nodes, id, n + 1)
      BY <1>0, <1>3, <3>1, FirstStepDown
    <3>3. leaf \in AtDepth(nodes, root, d + (n + 1))
      BY <1>0, <2>1, <3>2, LevelsBelow
    <3>4. n + 1 \in 0 .. Depth
      <4> SUFFICES ASSUME n = Depth
                   PROVE  FALSE
        BY <1>0
      <4>1. d + (n + 1) = Depth + 1 + d
        BY <1>0
      <4> QED  BY <1>0, <3>3, <4>1, NothingDeeper
    <3> QED  BY <3>2, <3>4 DEF Leaves, Walk
  <2>6. Leaves(nodes, id) = Leaves(nodes, nodes[id].left) \cup Leaves(nodes, nodes[id].right)
    BY <2>4, <2>5
  <2> QED  BY <1>0, <1>3, <2>2, <2>3, <2>6 DEF ParsedNode
<1> QED  BY <1>1, <1>2, <1>3

(* What holds for empty subtrees and leaves, and for a branch when it does *)
(* for its children, holds for all subtrees of a tree.                     *)
LEMMA SubtreeInduction ==
  ASSUME NEW nodes, NEW root, WellFormed(nodes, root), NEW good,
         \A d \in 0 .. Depth : \A id \in Subtrees(nodes, root, d) :
           ~IsBranch(ParsedNode(nodes, id)) => <<d, id>> \in good,
         \A d \in 0 .. Depth - 1 : \A id \in Subtrees(nodes, root, d) :
           IsBranch(ParsedNode(nodes, id)) /\ <<d + 1, nodes[id].left>> \in good
             /\ <<d + 1, nodes[id].right>> \in good => <<d, id>> \in good
  PROVE  \A d \in 0 .. Depth : \A id \in Subtrees(nodes, root, d) : <<d, id>> \in good
<1> DEFINE All(h) == \A d \in 0 .. Depth : d + h = Depth =>
                       \A id \in Subtrees(nodes, root, d) : <<d, id>> \in good
           T == {h \in Nat : All(h)}
<1>0. Depth \in Nat
  BY DepthAssumption
<1>1. ASSUME NEW d \in 0 .. Depth, NEW id \in Subtrees(nodes, root, d), IsBranch(ParsedNode(nodes, id))
      PROVE  /\ d \in 0 .. Depth - 1
             /\ nodes[id].left \in Subtrees(nodes, root, d + 1)
             /\ nodes[id].right \in Subtrees(nodes, root, d + 1)
  BY <1>1, KindsOfSubtrees
<1>2. 0 \in T
  <2> SUFFICES ASSUME NEW id \in Subtrees(nodes, root, Depth)
               PROVE  <<Depth, id>> \in good
    BY <1>0
  <2>1. Depth \in 0 .. Depth /\ Depth \notin 0 .. Depth - 1
    BY <1>0
  <2> QED  BY <1>1, <2>1
<1>3. ASSUME NEW h \in T
      PROVE  h + 1 \in T
  <2> SUFFICES ASSUME NEW d \in 0 .. Depth, d + (h + 1) = Depth,
                      NEW id \in Subtrees(nodes, root, d), IsBranch(ParsedNode(nodes, id))
               PROVE  <<d, id>> \in good
    OBVIOUS
  <2>1. PICK e \in Nat : e = d + 1
    BY <1>0
  <2>2. e \in 0 .. Depth /\ e + h = Depth
    BY <1>0, <2>1
  <2>3. \A x \in Subtrees(nodes, root, e) : <<e, x>> \in good
    BY <2>2
  <2>4. <<d + 1, nodes[id].left>> \in good /\ <<d + 1, nodes[id].right>> \in good
    BY <1>1, <2>1, <2>3
  <2> QED  BY <1>1, <2>4
<1>4. T = Nat
  <2>1. T \in SUBSET Nat
    OBVIOUS
  <2> HIDE DEF T
  <2> QED  BY <1>2, <1>3, <2>1, AllNumbers
<1>5. ASSUME NEW d \in 0 .. Depth
      PROVE  \A id \in Subtrees(nodes, root, d) : <<d, id>> \in good
  <2>1. PICK h \in Nat : d + h = Depth
    <3>1. Depth - d \in Nat /\ d + (Depth - d) = Depth
      BY <1>0
    <3> QED  BY <3>1
  <2>2. All(h)
    BY <1>4
  <2> QED  BY <2>1, <2>2
<1> QED  BY <1>5

OneLeafEach(nodes, id) ==
  \A x, y \in Leaves(nodes, id) : nodes[x].key = nodes[y].key => x = y

(* No key has two leaves below a node.                                     *)
LEMMA KeysHaveOneLeaf ==
  ASSUME NEW nodes, NEW root, WellFormed(nodes, root), NEW d \in 0 .. Depth,
         NEW id \in Subtrees(nodes, root, d)
  PROVE  OneLeafEach(nodes, id)
<1> DEFINE good == {pair \in Nat \X (DOMAIN nodes \cup {Empty}) : OneLeafEach(nodes, pair[2])}
<1>0. Depth \in Nat
  BY DepthAssumption
<1>1. ASSUME NEW e \in 0 .. Depth, NEW x \in Subtrees(nodes, root, e)
      PROVE  e \in Nat /\ x \in DOMAIN nodes \cup {Empty}
  BY <1>0, SubtreesAreStored
<1>2. ASSUME NEW e \in 0 .. Depth, NEW x \in Subtrees(nodes, root, e),
             ~IsBranch(ParsedNode(nodes, x))
      PROVE  <<e, x>> \in good
  <2>1. Leaves(nodes, x) \subseteq {x}
    BY <1>2, KindsOfSubtrees
  <2> QED  BY <1>1, <2>1 DEF OneLeafEach
<1>3. ASSUME NEW e \in 0 .. Depth - 1, NEW x \in Subtrees(nodes, root, e),
             IsBranch(ParsedNode(nodes, x)),
             <<e + 1, nodes[x].left>> \in good, <<e + 1, nodes[x].right>> \in good
      PROVE  <<e, x>> \in good
  <2>1. e \in 0 .. Depth
    BY <1>0
  <2>2. /\ Leaves(nodes, x) = Leaves(nodes, nodes[x].left) \cup Leaves(nodes, nodes[x].right)
        /\ \A leaf \in Leaves(nodes, nodes[x].left)  : GetBit(nodes[leaf].key, e) = 0
        /\ \A leaf \in Leaves(nodes, nodes[x].right) : GetBit(nodes[leaf].key, e) = 1
    BY <1>3, <2>1, KindsOfSubtrees
  <2>3. OneLeafEach(nodes, nodes[x].left) /\ OneLeafEach(nodes, nodes[x].right)
    BY <1>3
  <2>4. OneLeafEach(nodes, x)
    BY <2>2, <2>3 DEF OneLeafEach
  <2> QED  BY <1>1, <2>1, <2>4
<1>4. <<d, id>> \in good
  <2> HIDE DEF good
  <2> QED  BY <1>2, <1>3, SubtreeInduction
<1> QED  BY <1>4

(* The whole tree is a subtree of itself, and has the leaves of the others.*)
LEMMA LeavesOfSubtrees ==
  ASSUME NEW nodes, NEW root, WellFormed(nodes, root), NEW d \in 0 .. Depth,
         NEW id \in Subtrees(nodes, root, d)
  PROVE  root \in Subtrees(nodes, root, 0) /\ Leaves(nodes, id) \subseteq Leaves(nodes, root)
<1>0. Depth \in Nat /\ d \in Nat
  BY DepthAssumption
<1>1. root \in Subtrees(nodes, root, 0)
  BY FirstLevel DEF Subtrees
<1>2. CASE id = Empty
  BY <1>1, <1>2, KindsOfSubtrees
<1>3. CASE id # Empty
  <2>1. id \in AtDepth(nodes, root, d)
    BY <1>3 DEF Subtrees
  <2> SUFFICES ASSUME NEW leaf \in Leaves(nodes, id)
               PROVE  leaf \in Leaves(nodes, root)
    BY <1>1
  <2>2. PICK n \in 0 .. Depth : leaf \in AtDepth(nodes, id, n)
    BY DEF Leaves, Walk
  <2>3. leaf \in AtDepth(nodes, root, d + n)
    BY <1>0, <2>1, <2>2, LevelsBelow
  <2>4. d + n \in 0 .. Depth
    <3> SUFFICES ASSUME d + n > Depth
                 PROVE  FALSE
      BY <1>0
    <3>1. PICK m \in Nat : d + n = Depth + 1 + m
      <4>1. d + n - Depth - 1 \in Nat /\ d + n = Depth + 1 + (d + n - Depth - 1)
        BY <1>0
      <4> QED  BY <4>1
    <3> QED  BY <2>3, <3>1, NothingDeeper
  <2> QED  BY <2>3, <2>4 DEF Leaves, Walk
<1> QED  BY <1>2, <1>3

---------------------------------------------------------------------------
(* Records and hashes                                                      *)

KeysOf(nodes, id) == {nodes[x].key : x \in Leaves(nodes, id)}

(* Contents has the record of every leaf.                                  *)
LEMMA ContentsHaveTheRecords ==
  ASSUME NEW nodes, NEW id, OneLeafEach(nodes, id)
  PROVE  /\ DOMAIN Contents(nodes, id) = KeysOf(nodes, id)
         /\ \A x \in Leaves(nodes, id) : Contents(nodes, id)[nodes[x].key] = nodes[x].val
<1>1. DOMAIN Contents(nodes, id) = KeysOf(nodes, id)
  BY DEF Contents, KeysOf
<1>2. ASSUME NEW x \in Leaves(nodes, id)
      PROVE  Contents(nodes, id)[nodes[x].key] = nodes[x].val
  <2> DEFINE y == CHOOSE n \in Leaves(nodes, id) : nodes[n].key = nodes[x].key
  <2>1. y \in Leaves(nodes, id) /\ nodes[y].key = nodes[x].key
    OBVIOUS
  <2>2. y = x
    BY <2>1 DEF OneLeafEach
  <2>3. nodes[x].key \in KeysOf(nodes, id)
    BY DEF KeysOf
  <2>4. Contents(nodes, id)[nodes[x].key] = nodes[y].val
    BY <2>3 DEF Contents, KeysOf
  <2> HIDE DEF y
  <2> QED  BY <2>2, <2>4
<1> QED  BY <1>1, <1>2

Canonical == INSTANCE Recursion WITH
  First <- LAMBDA map : [keys \in SUBSET DOMAIN map |-> CollapsedHash(map, keys)],
  Step  <- LAMBDA map, h, hash : DividedHash(map, h, hash)

(* The canonical hash of some of the keys, by how many bits may tell them  *)
(* apart.                                                                  *)
HashOf(map, h, keys) == Canonical!Recursive(map)[h][keys]

(* It follows the definition of CanonicalHash.                             *)
LEMMA HashesFollow ==
  ASSUME NEW map, NEW h \in Nat, NEW keys \in SUBSET DOMAIN map
  PROVE  /\ CanonicalHash(map) = HashOf(map, Depth, DOMAIN map)
         /\ (\A j, k \in keys : j = k) => HashOf(map, h, keys) = CollapsedHash(map, keys)
         /\ \A n \in Nat : n + 1 = h /\ ~(\A j, k \in keys : j = k) =>
              LET right == {k \in keys : GetBit(k, Depth - h) = 1} IN
              HashOf(map, h, keys) = BranchHash(HashOf(map, n, keys \ right), HashOf(map, n, right))
<1> DEFINE hash == Canonical!Recursive(map)
<1>1. hash[0] = [k \in SUBSET DOMAIN map |-> CollapsedHash(map, k)]
  BY Canonical!RecursionFollows
<1>2. ASSUME NEW n \in Nat
      PROVE  hash[n + 1] = DividedHash(map, n + 1, hash[n])
  BY Canonical!RecursionFollows
<1>3. CanonicalHash(map) = HashOf(map, Depth, DOMAIN map)
  BY DEF CanonicalHash, HashOf, Canonical!Recursive
<1> HIDE DEF hash
<1>4. ASSUME NEW n \in Nat, n + 1 = h
      PROVE  hash[h][keys] = LET right == {k \in keys : GetBit(k, Depth - h) = 1} IN
                             IF \A j, k \in keys : j = k THEN CollapsedHash(map, keys)
                             ELSE BranchHash(hash[n][keys \ right], hash[n][right])
  <2>1. hash[h] = DividedHash(map, h, hash[n])
    BY <1>2, <1>4
  <2>2. DividedHash(map, h, hash[n])[keys] =
          LET right == {k \in keys : GetBit(k, Depth - h) = 1} IN
          IF \A j, k \in keys : j = k THEN CollapsedHash(map, keys)
          ELSE BranchHash(hash[n][keys \ right], hash[n][right])
    BY DEF DividedHash
  <2> QED  BY <2>1, <2>2
<1>5. ASSUME \A j, k \in keys : j = k
      PROVE  hash[h][keys] = CollapsedHash(map, keys)
  <2>1. CASE h = 0
    BY <1>1, <2>1
  <2>2. CASE h # 0
    <3>1. PICK n \in Nat : n + 1 = h
      BY <2>2
    <3> QED  BY <1>4, <1>5, <3>1
  <2> QED  BY <2>1, <2>2
<1> QED  BY <1>3, <1>4, <1>5 DEF HashOf, hash

(* The hash of a node is the canonical one for the records below it.       *)
LEMMA HashIsCanonical ==
  ASSUME NEW nodes, NEW root, TreeOK(nodes, root)
  PROVE  ParsedNode(nodes, root).hash = CanonicalHash(Contents(nodes, root))
<1> DEFINE map == Contents(nodes, root)
           Right(d, id) == \E h \in Nat : /\ d + h = Depth
                                          /\ ParsedNode(nodes, id).hash = HashOf(map, h, KeysOf(nodes, id))
           good == {pair \in Nat \X (DOMAIN nodes \cup {Empty}) : Right(pair[1], pair[2])}
<1>0. Depth \in Nat /\ WellFormed(nodes, root) /\ Hashed(nodes, root) /\ Compact(nodes, root)
  BY DepthAssumption DEF TreeOK
<1>1. root \in Subtrees(nodes, root, 0) /\ 0 \in 0 .. Depth
  BY <1>0, FirstLevel DEF Subtrees
<1>2. /\ DOMAIN map = KeysOf(nodes, root)
      /\ \A x \in Leaves(nodes, root) : map[nodes[x].key] = nodes[x].val
  BY <1>0, <1>1, KeysHaveOneLeaf, ContentsHaveTheRecords
<1> HIDE DEF map
<1>3. ASSUME NEW d \in 0 .. Depth, NEW id \in Subtrees(nodes, root, d)
      PROVE  /\ d \in Nat /\ id \in DOMAIN nodes \cup {Empty}
             /\ KeysOf(nodes, id) \in SUBSET DOMAIN map
             /\ Leaves(nodes, id) \subseteq Leaves(nodes, root)
  <2>1. Leaves(nodes, id) \subseteq Leaves(nodes, root)
    BY <1>0, LeavesOfSubtrees
  <2>2. id \in DOMAIN nodes \cup {Empty}
    BY <1>0, SubtreesAreStored
  <2> QED  BY <1>0, <1>2, <2>1, <2>2 DEF KeysOf
<1>4. ASSUME NEW d \in 0 .. Depth
      PROVE  \E h \in Nat : d + h = Depth
  <2>1. Depth - d \in Nat /\ d + (Depth - d) = Depth
    BY <1>0
  <2> QED  BY <2>1
<1>5. ASSUME NEW d \in 0 .. Depth, NEW id \in Subtrees(nodes, root, d),
             ~IsBranch(ParsedNode(nodes, id))
      PROVE  <<d, id>> \in good
  <2> DEFINE keys == KeysOf(nodes, id)
  <2>1. CASE id = Empty
    <3>1. keys = {} /\ ParsedNode(nodes, id).hash = NullHash
      BY <1>0, <1>5, <2>1, KindsOfSubtrees DEF KeysOf, EmptyNode
    <3>2. CollapsedHash(map, keys) = NullHash /\ \A j, k \in keys : j = k
      BY <3>1 DEF CollapsedHash
    <3> HIDE DEF keys
    <3>3. \A h \in Nat : HashOf(map, h, keys) = NullHash
      BY <3>1, <3>2, HashesFollow
    <3> QED  BY <1>3, <1>4, <3>1, <3>3 DEF keys
  <2>2. CASE id # Empty
    <3>1. /\ Leaves(nodes, id) = {id} /\ IsLeaf(nodes[id]) /\ ParsedNode(nodes, id) = nodes[id]
          /\ id \in AtDepth(nodes, root, d)
      BY <1>0, <1>5, <2>2, KindsOfSubtrees DEF Subtrees
    <3>2. nodes[id].hash = LeafHash(nodes[id].key, nodes[id].val)
      BY <1>0, <3>1 DEF Hashed
    <3>3. keys = {nodes[id].key} /\ map[nodes[id].key] = nodes[id].val
      BY <1>2, <1>3, <3>1 DEF KeysOf
    <3>4. CollapsedHash(map, keys) = nodes[id].hash /\ \A j, k \in keys : j = k
      BY <3>2, <3>3 DEF CollapsedHash
    <3>5. keys \in SUBSET DOMAIN map
      BY <1>3
    <3> HIDE DEF keys
    <3>6. \A h \in Nat : HashOf(map, h, keys) = nodes[id].hash
      BY <3>4, <3>5, HashesFollow
    <3> QED  BY <1>3, <1>4, <3>1, <3>6 DEF keys
  <2> QED  BY <2>1, <2>2
<1>6. ASSUME NEW d \in 0 .. Depth - 1, NEW id \in Subtrees(nodes, root, d),
             IsBranch(ParsedNode(nodes, id)),
             <<d + 1, nodes[id].left>> \in good, <<d + 1, nodes[id].right>> \in good
      PROVE  <<d, id>> \in good
  <2> DEFINE l == nodes[id].left
             r == nodes[id].right
             keys == KeysOf(nodes, id)
  <2>1. d \in 0 .. Depth
    BY <1>0
  <2>2. /\ ~IsLeaf(nodes[id]) /\ id \in AtDepth(nodes, root, d) /\ ParsedNode(nodes, id) = nodes[id]
        /\ Leaves(nodes, id) = Leaves(nodes, l) \cup Leaves(nodes, r)
        /\ \A leaf \in Leaves(nodes, l) : GetBit(nodes[leaf].key, d) = 0
        /\ \A leaf \in Leaves(nodes, r) : GetBit(nodes[leaf].key, d) = 1
    BY <1>0, <1>6, <2>1, KindsOfSubtrees DEF Subtrees
  <2>3. nodes[id].hash = BranchHash(ParsedNode(nodes, l).hash, ParsedNode(nodes, r).hash)
    BY <1>0, <2>1, <2>2 DEF Hashed
  <2>4. PICK n \in Nat : /\ d + 1 + n = Depth
                         /\ ParsedNode(nodes, l).hash = HashOf(map, n, KeysOf(nodes, l))
    BY <1>6
  <2>5. ParsedNode(nodes, r).hash = HashOf(map, n, KeysOf(nodes, r))
    BY <1>0, <1>6, <2>4
  <2>6. PICK h \in Nat : h = n + 1 /\ d + h = Depth /\ Depth - h = d
    BY <1>0, <2>4
  <2>7. /\ KeysOf(nodes, r) = {k \in keys : GetBit(k, d) = 1}
        /\ KeysOf(nodes, l) = keys \ {k \in keys : GetBit(k, d) = 1}
    BY <2>2 DEF KeysOf
  <2>8. ~(\A j, k \in keys : j = k)
    <3>1. PICK x, y \in Leaves(nodes, id) : x # y
      BY <1>0, <2>1, <2>2 DEF Compact
    <3>2. OneLeafEach(nodes, id)
      BY <1>0, <2>1, KeysHaveOneLeaf
    <3> QED  BY <3>1, <3>2 DEF OneLeafEach, KeysOf
  <2>9. keys \in SUBSET DOMAIN map
    BY <1>3, <2>1
  <2> HIDE DEF l, r, keys
  <2>10. HashOf(map, h, keys) =
           BranchHash(HashOf(map, n, keys \ {k \in keys : GetBit(k, Depth - h) = 1}),
                      HashOf(map, n, {k \in keys : GetBit(k, Depth - h) = 1}))
    BY <2>6, <2>8, <2>9, HashesFollow
  <2>11. ParsedNode(nodes, id).hash = HashOf(map, h, keys)
    BY <2>2, <2>3, <2>4, <2>5, <2>6, <2>7, <2>10
  <2> QED  BY <1>3, <2>1, <2>6, <2>11 DEF keys
<1>7. <<0, root>> \in good
  <2> HIDE DEF good
  <2> QED  BY <1>0, <1>1, <1>5, <1>6, SubtreeInduction
<1>8. ParsedNode(nodes, root).hash = HashOf(map, Depth, KeysOf(nodes, root))
  <2>1. PICK h \in Nat : /\ 0 + h = Depth
                         /\ ParsedNode(nodes, root).hash = HashOf(map, h, KeysOf(nodes, root))
    BY <1>7
  <2> QED  BY <1>0, <2>1
<1>9. CanonicalHash(map) = HashOf(map, Depth, DOMAIN map)
  BY <1>0, HashesFollow
<1> QED  BY <1>2, <1>8, <1>9 DEF map

RecordsOf(nodes, id) == {<<nodes[x].key, nodes[x].val>> : x \in Leaves(nodes, id)}

(* The records are all there is to the contents of a tree.                 *)
LEMMA SameRecordsSameContents ==
  ASSUME NEW nodes, NEW a, TreeOK(nodes, a), NEW b, TreeOK(nodes, b),
         RecordsOf(nodes, a) = RecordsOf(nodes, b)
  PROVE  Contents(nodes, a) = Contents(nodes, b)
<1>1. a \in Subtrees(nodes, a, 0) /\ b \in Subtrees(nodes, b, 0) /\ 0 \in 0 .. Depth
  BY FirstLevel, DepthAssumption DEF Subtrees
<1>2. OneLeafEach(nodes, a) /\ OneLeafEach(nodes, b)
  BY <1>1, KeysHaveOneLeaf DEF TreeOK
<1>3. ASSUME NEW x \in Leaves(nodes, a)
      PROVE  \E y \in Leaves(nodes, b) : nodes[y].key = nodes[x].key /\ nodes[y].val = nodes[x].val
  <2>1. <<nodes[x].key, nodes[x].val>> \in RecordsOf(nodes, b)
    BY DEF RecordsOf
  <2> QED  BY <2>1 DEF RecordsOf
<1>4. ASSUME NEW y \in Leaves(nodes, b)
      PROVE  \E x \in Leaves(nodes, a) : nodes[y].key = nodes[x].key /\ nodes[y].val = nodes[x].val
  <2>1. <<nodes[y].key, nodes[y].val>> \in RecordsOf(nodes, a)
    BY DEF RecordsOf
  <2> QED  BY <2>1 DEF RecordsOf
<1>5. KeysOf(nodes, a) = KeysOf(nodes, b)
  BY <1>3, <1>4 DEF KeysOf
<1>6. ASSUME NEW k \in KeysOf(nodes, a)
      PROVE  Contents(nodes, a)[k] = Contents(nodes, b)[k]
  <2>1. PICK x \in Leaves(nodes, a) : nodes[x].key = k
    BY DEF KeysOf
  <2>2. PICK y \in Leaves(nodes, b) : nodes[y].key = k /\ nodes[y].val = nodes[x].val
    BY <1>3, <2>1
  <2>3. Contents(nodes, a)[k] = nodes[x].val
    BY <1>2, <2>1, ContentsHaveTheRecords
  <2>4. Contents(nodes, b)[k] = nodes[y].val
    BY <1>2, <2>2, ContentsHaveTheRecords
  <2> QED  BY <2>2, <2>3, <2>4
<1>7. /\ DOMAIN Contents(nodes, a) = KeysOf(nodes, a) /\ DOMAIN Contents(nodes, b) = KeysOf(nodes, b)
      /\ Contents(nodes, a) = [k \in DOMAIN Contents(nodes, a) |-> Contents(nodes, a)[k]]
      /\ Contents(nodes, b) = [k \in DOMAIN Contents(nodes, b) |-> Contents(nodes, b)[k]]
  BY DEF Contents, KeysOf
<1> QED  BY <1>5, <1>6, <1>7

(* What the hash of a subtree says it is.                                  *)
LEMMA HashesOfSubtrees ==
  ASSUME NEW nodes, NEW root, TreeOK(nodes, root), NEW d \in 0 .. Depth,
         NEW id \in Subtrees(nodes, root, d)
  PROVE  \/ /\ id = Empty /\ ParsedNode(nodes, id).hash = NullHash /\ RecordsOf(nodes, id) = {}
         \/ /\ IsLeaf(nodes[id]) /\ RecordsOf(nodes, id) = {<<nodes[id].key, nodes[id].val>>}
            /\ ParsedNode(nodes, id) = nodes[id] /\ Leaves(nodes, id) = {id}
            /\ ParsedNode(nodes, id).hash = LeafHash(nodes[id].key, nodes[id].val)
         \/ /\ IsBranch(ParsedNode(nodes, id)) /\ d \in 0 .. Depth - 1
            /\ ParsedNode(nodes, id) = nodes[id]
            /\ nodes[id].left \in Subtrees(nodes, root, d + 1)
            /\ nodes[id].right \in Subtrees(nodes, root, d + 1)
            /\ RecordsOf(nodes, id) = RecordsOf(nodes, nodes[id].left) \cup RecordsOf(nodes, nodes[id].right)
            /\ ParsedNode(nodes, id).hash = BranchHash(ParsedNode(nodes, nodes[id].left).hash,
                                                      ParsedNode(nodes, nodes[id].right).hash)
<1>0. WellFormed(nodes, root) /\ Hashed(nodes, root)
  BY DEF TreeOK
<1>1. CASE id = Empty
  <2>1. ParsedNode(nodes, id) = EmptyNode /\ Leaves(nodes, id) = {}
    BY <1>0, <1>1, KindsOfSubtrees
  <2> QED  BY <1>1, <2>1 DEF RecordsOf, EmptyNode
<1>2. CASE id # Empty /\ IsLeaf(nodes[id])
  <2>1. id \in AtDepth(nodes, root, d)
    BY <1>2 DEF Subtrees
  <2>2. ParsedNode(nodes, id) = nodes[id] /\ Leaves(nodes, id) = {id}
    BY <1>0, <1>2, KindsOfSubtrees
  <2>3. nodes[id].hash = LeafHash(nodes[id].key, nodes[id].val)
    BY <1>0, <1>2, <2>1 DEF Hashed
  <2> QED  BY <1>2, <2>2, <2>3 DEF RecordsOf
<1>3. CASE id # Empty /\ ~IsLeaf(nodes[id])
  <2>1. id \in AtDepth(nodes, root, d)
    BY <1>3 DEF Subtrees
  <2>2. /\ IsBranch(nodes[id]) /\ ParsedNode(nodes, id) = nodes[id] /\ d \in 0 .. Depth - 1
        /\ nodes[id].left \in Subtrees(nodes, root, d + 1)
        /\ nodes[id].right \in Subtrees(nodes, root, d + 1)
        /\ Leaves(nodes, id) = Leaves(nodes, nodes[id].left) \cup Leaves(nodes, nodes[id].right)
    BY <1>0, <1>3, KindsOfSubtrees
  <2>3. nodes[id].hash = BranchHash(ParsedNode(nodes, nodes[id].left).hash,
                                    ParsedNode(nodes, nodes[id].right).hash)
    BY <1>0, <1>3, <2>1 DEF Hashed
  <2>4. RecordsOf(nodes, id) = RecordsOf(nodes, nodes[id].left) \cup RecordsOf(nodes, nodes[id].right)
    BY <2>2 DEF RecordsOf
  <2> QED  BY <2>2, <2>3, <2>4
<1> QED  BY <1>1, <1>2, <1>3

(* The three shapes of hashes are told apart by their lengths.             *)
LEMMA HashesDiffer ==
  ASSUME NEW k, NEW v, NEW j, NEW w, NEW a, NEW b
  PROVE  /\ NullHash # LeafHash(k, v) /\ NullHash # BranchHash(a, b) /\ LeafHash(k, v) # BranchHash(a, b)
         /\ LeafHash(k, v) = LeafHash(j, w) => k = j /\ v = w
BY DEF NullHash, LeafHash, BranchHash

(* Subtrees with the same hash have the same records, in one tree or two.  *)
LEMMA SameHashSameRecords ==
  ASSUME NEW nodes, NEW root, TreeOK(nodes, root), NEW other, TreeOK(nodes, other),
         NEW d \in 0 .. Depth, NEW a \in Subtrees(nodes, root, d), NEW b \in Subtrees(nodes, other, d),
         ParsedNode(nodes, a).hash = ParsedNode(nodes, b).hash
  PROVE  RecordsOf(nodes, a) = RecordsOf(nodes, b)
<1> DEFINE Told(e, x) == \A y \in Subtrees(nodes, other, e) :
             ParsedNode(nodes, x).hash = ParsedNode(nodes, y).hash => RecordsOf(nodes, x) = RecordsOf(nodes, y)
           good == {pair \in Nat \X (DOMAIN nodes \cup {Empty}) : Told(pair[1], pair[2])}
<1>0. Depth \in Nat /\ WellFormed(nodes, root)
  BY DepthAssumption DEF TreeOK
<1>1. ASSUME NEW e \in 0 .. Depth, NEW x \in Subtrees(nodes, root, e)
      PROVE  e \in Nat /\ x \in DOMAIN nodes \cup {Empty}
  BY <1>0, SubtreesAreStored
<1>2. ASSUME NEW e \in 0 .. Depth, NEW x \in Subtrees(nodes, root, e), ~IsBranch(ParsedNode(nodes, x))
      PROVE  <<e, x>> \in good
  <2> SUFFICES ASSUME NEW y \in Subtrees(nodes, other, e),
                      ParsedNode(nodes, x).hash = ParsedNode(nodes, y).hash
               PROVE  RecordsOf(nodes, x) = RecordsOf(nodes, y)
    BY <1>1
  <2>1. \/ ParsedNode(nodes, x).hash = NullHash /\ RecordsOf(nodes, x) = {}
        \/ \E k, v : ParsedNode(nodes, x).hash = LeafHash(k, v) /\ RecordsOf(nodes, x) = {<<k, v>>}
    BY <1>2, HashesOfSubtrees
  <2>2. \/ ParsedNode(nodes, y).hash = NullHash /\ RecordsOf(nodes, y) = {}
        \/ \E k, v : ParsedNode(nodes, y).hash = LeafHash(k, v) /\ RecordsOf(nodes, y) = {<<k, v>>}
        \/ \E g, h : ParsedNode(nodes, y).hash = BranchHash(g, h)
    BY HashesOfSubtrees
  <2> QED  BY <2>1, <2>2, HashesDiffer
<1>3. ASSUME NEW e \in 0 .. Depth - 1, NEW x \in Subtrees(nodes, root, e), IsBranch(ParsedNode(nodes, x)),
             <<e + 1, nodes[x].left>> \in good, <<e + 1, nodes[x].right>> \in good
      PROVE  <<e, x>> \in good
  <2>0. e \in 0 .. Depth
    BY <1>0
  <2> SUFFICES ASSUME NEW y \in Subtrees(nodes, other, e),
                      ParsedNode(nodes, x).hash = ParsedNode(nodes, y).hash
               PROVE  RecordsOf(nodes, x) = RecordsOf(nodes, y)
    BY <1>1, <2>0
  <2>1. x # Empty /\ ~IsLeaf(nodes[x])
    BY <1>3 DEF ParsedNode, EmptyNode, IsBranch, IsLeaf
  <2>2. /\ RecordsOf(nodes, x) = RecordsOf(nodes, nodes[x].left) \cup RecordsOf(nodes, nodes[x].right)
        /\ ParsedNode(nodes, x).hash = BranchHash(ParsedNode(nodes, nodes[x].left).hash,
                                                  ParsedNode(nodes, nodes[x].right).hash)
    BY <2>0, <2>1, HashesOfSubtrees
  <2>3. /\ nodes[y].left \in Subtrees(nodes, other, e + 1)
        /\ nodes[y].right \in Subtrees(nodes, other, e + 1)
        /\ RecordsOf(nodes, y) = RecordsOf(nodes, nodes[y].left) \cup RecordsOf(nodes, nodes[y].right)
        /\ ParsedNode(nodes, y).hash = BranchHash(ParsedNode(nodes, nodes[y].left).hash,
                                                  ParsedNode(nodes, nodes[y].right).hash)
    <3>1. PICK g, h : ParsedNode(nodes, y).hash = BranchHash(g, h)
      BY <2>2
    <3>2. BranchHash(g, h) # NullHash /\ \A k, v : BranchHash(g, h) # LeafHash(k, v)
      BY DEF BranchHash, NullHash, LeafHash
    <3> QED  BY <2>0, <3>1, <3>2, HashesOfSubtrees
  <2>4. /\ ParsedNode(nodes, nodes[x].left).hash = ParsedNode(nodes, nodes[y].left).hash
        /\ ParsedNode(nodes, nodes[x].right).hash = ParsedNode(nodes, nodes[y].right).hash
    <3> DEFINE xl == ParsedNode(nodes, nodes[x].left).hash   xr == ParsedNode(nodes, nodes[x].right).hash
               yl == ParsedNode(nodes, nodes[y].left).hash   yr == ParsedNode(nodes, nodes[y].right).hash
    <3>1. BranchHash(xl, xr) = BranchHash(yl, yr)
      BY <2>2, <2>3
    <3> HIDE DEF xl, xr, yl, yr
    <3>2. xl = yl /\ xr = yr
      BY <3>1 DEF BranchHash
    <3> QED  BY <3>2 DEF xl, xr, yl, yr
  <2>5. Told(e + 1, nodes[x].left) /\ Told(e + 1, nodes[x].right)
    BY <1>3
  <2> HIDE DEF good
  <2> QED  BY <2>2, <2>3, <2>4, <2>5
<1>4. <<d, a>> \in good
  <2> HIDE DEF good
  <2> QED  BY <1>0, <1>2, <1>3, SubtreeInduction
<1> QED  BY <1>4

---------------------------------------------------------------------------
(* Subtrees, by themselves: what a tree is, told of any node of it.        *)

StoredLeaf(T, x) ==
  /\ x \in DOMAIN T /\ T[x].type = "Leaf"
  /\ T[x].key \in KeySpace /\ T[x].left = Empty /\ T[x].right = Empty
  /\ T[x].hash = LeafHash(T[x].key, T[x].val)

SidesOK(T, l, r, d) ==
  /\ \A leaf \in Leaves(T, l) : GetBit(T[leaf].key, d) = 0
  /\ \A leaf \in Leaves(T, r) : GetBit(T[leaf].key, d) = 1

Several(S) == \E x, y \in S : x # y

StoredBranch(T, x, d) ==
  /\ x \in DOMAIN T /\ IsBranch(T[x]) /\ d < Depth
  /\ T[x].left # T[x].right
  /\ T[x].hash = BranchHash(ParsedNode(T, T[x].left).hash, ParsedNode(T, T[x].right).hash)
  /\ SidesOK(T, T[x].left, T[x].right, d)
  /\ Several(Leaves(T, x))

NodeOK(T, x, d) == StoredLeaf(T, x) \/ StoredBranch(T, x, d)

SubOK(T, id, d) == \A n \in Nat : \A x \in AtDepth(T, id, n) : NodeOK(T, x, d + n)

(* There is nothing below the empty node.                                  *)
LEMMA NothingBelowEmpty ==
  ASSUME NEW T, NEW n \in Nat
  PROVE  AtDepth(T, Empty, n) = {}
<1> DEFINE S == {m \in Nat : AtDepth(T, Empty, m) = {}}
<1>1. 0 \in S
  BY FirstLevel
<1>2. ASSUME NEW m \in S
      PROVE  m + 1 \in S
  <2>1. AtDepth(T, Empty, m + 1) = Children(T, {})
    BY LevelAfter
  <2> QED  BY <2>1 DEF Children
<1>3. S = Nat
  <2>1. S \in SUBSET Nat
    OBVIOUS
  <2> HIDE DEF S
  <2> QED  BY <1>1, <1>2, <2>1, AllNumbers
<1> QED  BY <1>3

(* So that it is a tree, without leaves.                                   *)
LEMMA EmptyIsATree ==
  ASSUME NEW T, NEW d
  PROVE  SubOK(T, Empty, d) /\ Leaves(T, Empty) = {}
<1>1. SubOK(T, Empty, d)
  BY NothingBelowEmpty DEF SubOK
<1>2. Depth \in Nat
  BY DepthAssumption
<1> QED  BY <1>1, <1>2, NothingBelowEmpty DEF Leaves, Walk

(* A node and the subtrees below its children.                             *)
LEMMA SubtreeUnfolds ==
  ASSUME NEW T, NEW id, id # Empty, NEW d \in Nat
  PROVE  SubOK(T, id, d) <=> /\ NodeOK(T, id, d)
                             /\ SubOK(T, T[id].left, d + 1) /\ SubOK(T, T[id].right, d + 1)
<1> DEFINE l == T[id].left
           r == T[id].right
<1>1. AtDepth(T, id, 0) = {id} /\ 0 \in Nat /\ d + 0 = d
  BY FirstLevel
<1>2. ASSUME SubOK(T, id, d)
      PROVE  NodeOK(T, id, d) /\ SubOK(T, l, d + 1) /\ SubOK(T, r, d + 1)
  <2>1. NodeOK(T, id, d)
    BY <1>1, <1>2 DEF SubOK
  <2>2. ASSUME NEW n \in Nat
        PROVE  \A x \in AtDepth(T, l, n) \cup AtDepth(T, r, n) : NodeOK(T, x, (d + 1) + n)
    <3>1. AtDepth(T, id, n + 1) = AtDepth(T, l, n) \cup AtDepth(T, r, n)
      BY FirstStepDown
    <3>2. n + 1 \in Nat /\ d + (n + 1) = (d + 1) + n
      OBVIOUS
    <3> QED  BY <1>2, <3>1, <3>2 DEF SubOK
  <2> QED  BY <2>1, <2>2 DEF SubOK
<1>3. ASSUME NodeOK(T, id, d), SubOK(T, l, d + 1), SubOK(T, r, d + 1)
      PROVE  SubOK(T, id, d)
  <2> SUFFICES ASSUME NEW n \in Nat, NEW x \in AtDepth(T, id, n)
               PROVE  NodeOK(T, x, d + n)
    BY DEF SubOK
  <2>1. CASE n = 0
    BY <1>1, <1>3, <2>1
  <2>2. CASE n # 0
    <3>1. PICK m \in Nat : n = m + 1
      <4>1. n - 1 \in Nat /\ n = (n - 1) + 1
        BY <2>2
      <4> QED  BY <4>1
    <3>2. x \in AtDepth(T, l, m) \cup AtDepth(T, r, m)
      BY <3>1, FirstStepDown
    <3>3. d + n = (d + 1) + m
      BY <3>1
    <3> QED  BY <1>3, <3>2, <3>3 DEF SubOK
  <2> QED  BY <2>1, <2>2
<1> QED  BY <1>2, <1>3

(* No leaf is deeper than Depth, and nothing else is as deep.              *)
LEMMA SubtreesEnd ==
  ASSUME NEW T, NEW id, NEW d \in 0 .. Depth, SubOK(T, id, d), NEW n \in Nat, d + n > Depth
  PROVE  AtDepth(T, id, n) = {}
<1> DEFINE S == {m \in Nat : AtDepth(T, id, (Depth - d) + 1 + m) = {}}
<1>0. Depth \in Nat /\ Depth - d \in Nat /\ d + (Depth - d) = Depth /\ (Depth - d) + 1 \in Nat
  BY DepthAssumption
<1>1. 0 \in S
  <2>1. AtDepth(T, id, (Depth - d) + 1) = Children(T, AtDepth(T, id, Depth - d))
    BY <1>0, LevelAfter
  <2>2. ASSUME NEW x \in AtDepth(T, id, Depth - d)
        PROVE  T[x].left = Empty /\ T[x].right = Empty
    <3>1. NodeOK(T, x, Depth)
      BY <1>0 DEF SubOK
    <3> QED  BY <1>0, <3>1 DEF NodeOK, StoredLeaf, StoredBranch
  <2>3. Children(T, AtDepth(T, id, Depth - d)) = {}
    BY <2>2 DEF Children
  <2>4. (Depth - d) + 1 + 0 = (Depth - d) + 1
    BY <1>0
  <2> QED  BY <2>1, <2>3, <2>4
<1>2. ASSUME NEW m \in S
      PROVE  m + 1 \in S
  <2>1. PICK k \in Nat : k = (Depth - d) + 1 + m /\ k + 1 = (Depth - d) + 1 + (m + 1)
    BY <1>0
  <2>2. AtDepth(T, id, k + 1) = Children(T, {})
    BY <2>1, LevelAfter
  <2> QED  BY <2>1, <2>2 DEF Children
<1>3. S = Nat
  <2>1. S \in SUBSET Nat
    OBVIOUS
  <2> HIDE DEF S
  <2> QED  BY <1>1, <1>2, <2>1, AllNumbers
<1>4. PICK m \in Nat : n = (Depth - d) + 1 + m
  <2>1. n - (Depth - d) - 1 \in Nat /\ n = (Depth - d) + 1 + (n - (Depth - d) - 1)
    BY <1>0
  <2> QED  BY <2>1
<1> QED  BY <1>3, <1>4

(* Leaves are leaves, on whatever level they are.                          *)
LEMMA LeavesByLevel ==
  ASSUME NEW T, NEW id, NEW d \in 0 .. Depth, SubOK(T, id, d), NEW x
  PROVE  x \in Leaves(T, id) <=> \E n \in Nat : x \in AtDepth(T, id, n) /\ IsLeaf(T[x])
<1>0. Depth \in Nat
  BY DepthAssumption
<1>1. ASSUME NEW n \in Nat, x \in AtDepth(T, id, n)
      PROVE  n \in 0 .. Depth
  <2>1. ~(d + n > Depth)
    BY <1>1, SubtreesEnd
  <2> QED  BY <1>0, <2>1
<1> QED  BY <1>0, <1>1 DEF Leaves, Walk

(* The leaves below a node are those below its children, if it is none.    *)
LEMMA LeavesUnfold ==
  ASSUME NEW T, NEW id, id # Empty, NEW d \in 0 .. Depth - 1,
         SubOK(T, T[id].left, d + 1), SubOK(T, T[id].right, d + 1), ~IsLeaf(T[id])
  PROVE  Leaves(T, id) = Leaves(T, T[id].left) \cup Leaves(T, T[id].right)
<1> DEFINE l == T[id].left
           r == T[id].right
<1>0. Depth \in Nat /\ d + 1 \in 0 .. Depth
  BY DepthAssumption
<1>1. ASSUME NEW x \in Leaves(T, id)
      PROVE  x \in Leaves(T, l) \cup Leaves(T, r)
  <2>1. PICK n \in 0 .. Depth : x \in AtDepth(T, id, n) /\ IsLeaf(T[x])
    BY DEF Leaves, Walk
  <2>2. n # 0
    BY <2>1, FirstLevel
  <2>3. PICK m \in Nat : n = m + 1
    <3>1. n - 1 \in Nat /\ n = (n - 1) + 1
      BY <2>2
    <3> QED  BY <3>1
  <2>4. x \in AtDepth(T, l, m) \cup AtDepth(T, r, m)
    BY <2>1, <2>3, FirstStepDown
  <2> QED  BY <1>0, <2>1, <2>4, LeavesByLevel
<1>2. ASSUME NEW x \in Leaves(T, l) \cup Leaves(T, r)
      PROVE  x \in Leaves(T, id)
  <2>1. PICK m \in Nat : x \in AtDepth(T, l, m) \cup AtDepth(T, r, m) /\ IsLeaf(T[x])
    BY <1>0, LeavesByLevel
  <2>2. x \in AtDepth(T, id, m + 1)
    BY <2>1, FirstStepDown
  <2>3. ~((d + 1) + m > Depth)
    BY <1>0, <2>1, SubtreesEnd
  <2>4. m + 1 \in 0 .. Depth
    BY <1>0, <2>3
  <2> QED  BY <2>1, <2>2, <2>4 DEF Leaves, Walk
<1> QED  BY <1>1, <1>2

(* What a subtree can be.                                                  *)
LEMMA KindsOfTrees ==
  ASSUME NEW T, NEW d \in 0 .. Depth, NEW id, SubOK(T, id, d)
  PROVE  \/ id = Empty /\ ParsedNode(T, id) = EmptyNode /\ Leaves(T, id) = {}
         \/ /\ id # Empty /\ ParsedNode(T, id) = T[id] /\ StoredLeaf(T, id)
            /\ IsLeaf(T[id]) /\ ~IsBranch(T[id]) /\ Leaves(T, id) = {id}
         \/ /\ id # Empty /\ ParsedNode(T, id) = T[id] /\ StoredBranch(T, id, d)
            /\ IsBranch(T[id]) /\ ~IsLeaf(T[id]) /\ d \in 0 .. Depth - 1
            /\ SubOK(T, T[id].left, d + 1) /\ SubOK(T, T[id].right, d + 1)
            /\ Leaves(T, id) = Leaves(T, T[id].left) \cup Leaves(T, T[id].right)
<1>0. Depth \in Nat /\ d \in Nat
  BY DepthAssumption
<1>1. CASE id = Empty
  BY <1>1, EmptyIsATree DEF ParsedNode
<1>2. CASE id # Empty /\ StoredLeaf(T, id)
  <2>1. IsLeaf(T[id]) /\ ~IsBranch(T[id]) /\ T[id].left = Empty /\ T[id].right = Empty
    BY <1>2 DEF StoredLeaf, IsLeaf, IsBranch
  <2>2. ASSUME NEW x
        PROVE  x \in Leaves(T, id) <=> x = id
    <3>1. AtDepth(T, id, 0) = {id} /\ 0 \in Nat
      BY <1>2, FirstLevel
    <3>2. ASSUME NEW n \in Nat, n # 0
          PROVE  AtDepth(T, id, n) = {}
      <4>1. n - 1 \in Nat /\ n = (n - 1) + 1
        BY <3>2
      <4>2. AtDepth(T, id, (n - 1) + 1) = AtDepth(T, Empty, n - 1) \cup AtDepth(T, Empty, n - 1)
        BY <1>2, <2>1, <4>1, FirstStepDown
      <4> QED  BY <4>1, <4>2, NothingBelowEmpty
    <3> QED  BY <2>1, <3>1, <3>2, LeavesByLevel
  <2> QED  BY <1>2, <2>1, <2>2 DEF ParsedNode
<1>3. CASE id # Empty /\ ~StoredLeaf(T, id)
  <2>1. /\ StoredBranch(T, id, d)
        /\ SubOK(T, T[id].left, d + 1) /\ SubOK(T, T[id].right, d + 1)
    BY <1>0, <1>3, SubtreeUnfolds DEF NodeOK
  <2>2. IsBranch(T[id]) /\ ~IsLeaf(T[id]) /\ d \in 0 .. Depth - 1
    BY <1>0, <2>1 DEF StoredBranch, IsLeaf, IsBranch
  <2>3. Leaves(T, id) = Leaves(T, T[id].left) \cup Leaves(T, T[id].right)
    BY <1>3, <2>1, <2>2, LeavesUnfold
  <2> QED  BY <1>3, <2>1, <2>2, <2>3 DEF ParsedNode
<1> QED  BY <1>1, <1>2, <1>3

(* Every tree but the empty one has leaves.                                *)
LEMMA TreesHaveLeaves ==
  ASSUME NEW T, NEW d \in 0 .. Depth, NEW id, SubOK(T, id, d), id # Empty
  PROVE  Leaves(T, id) # {}
BY KindsOfTrees DEF StoredBranch, Several

(* They are stored leaves, and so is whatever a tree has on its levels.    *)
LEMMA LeavesAreStored ==
  ASSUME NEW T, NEW d \in 0 .. Depth, NEW id, SubOK(T, id, d), NEW x \in Leaves(T, id)
  PROVE  StoredLeaf(T, x)
<1>1. PICK n \in Nat : x \in AtDepth(T, id, n) /\ IsLeaf(T[x])
  BY LeavesByLevel
<1>2. NodeOK(T, x, d + n)
  BY <1>1 DEF SubOK
<1> QED  BY <1>1, <1>2 DEF NodeOK, StoredBranch, IsLeaf, IsBranch

(* A stored leaf is a tree at any depth.                                   *)
LEMMA LeafIsATree ==
  ASSUME NEW T, NEW d \in 0 .. Depth, NEW id, id # Empty, StoredLeaf(T, id)
  PROVE  SubOK(T, id, d) /\ Leaves(T, id) = {id}
<1>1. d \in Nat /\ T[id].left = Empty /\ T[id].right = Empty
  BY DepthAssumption DEF StoredLeaf
<1>2. SubOK(T, id, d)
  BY <1>1, EmptyIsATree, SubtreeUnfolds DEF NodeOK
<1>3. ~IsBranch(T[id]) /\ IsLeaf(T[id])
  BY DEF StoredLeaf, IsBranch, IsLeaf
<1> QED  BY <1>2, <1>3, KindsOfTrees

(* A branch over two trees is one, if it has more leaves than one and they *)
(* are on the right sides.                                                 *)
LEMMA BranchIsATree ==
  ASSUME NEW T, NEW d \in 0 .. Depth - 1, NEW id \in DOMAIN T, id # Empty, NEW l, NEW r,
         T[id] = BranchNode(Reuse(T, l), Reuse(T, r)),
         SubOK(T, l, d + 1), SubOK(T, r, d + 1), SidesOK(T, l, r, d),
         Several(Leaves(T, l) \cup Leaves(T, r))
  PROVE  /\ SubOK(T, id, d)
         /\ Leaves(T, id) = Leaves(T, l) \cup Leaves(T, r)
         /\ IsBranch(T[id])
<1>0. Depth \in Nat /\ d \in Nat /\ d < Depth /\ d + 1 \in 0 .. Depth
  BY DepthAssumption
<1>1. /\ T[id].left = l /\ T[id].right = r /\ IsBranch(T[id]) /\ ~IsLeaf(T[id])
      /\ T[id].hash = BranchHash(ParsedNode(T, l).hash, ParsedNode(T, r).hash)
  BY DEF BranchNode, Reuse, Built, EmptyNode, IsBranch, IsLeaf
<1>2. Leaves(T, id) = Leaves(T, l) \cup Leaves(T, r)
  BY <1>1, LeavesUnfold
<1>3. l # r
  <2> SUFFICES ASSUME l = r
               PROVE  FALSE
    OBVIOUS
  <2>1. PICK x \in Leaves(T, l) : x \in Leaves(T, r)
    BY DEF Several
  <2> QED  BY <2>1 DEF SidesOK
<1>4. StoredBranch(T, id, d)
  BY <1>0, <1>1, <1>2, <1>3 DEF StoredBranch, Several
<1> QED  BY <1>0, <1>1, <1>2, <1>4, SubtreeUnfolds DEF NodeOK

---------------------------------------------------------------------------
(* The same tree in another table.                                         *)

SameBelow(T, U, id) == \A n \in Nat : \A x \in AtDepth(T, id, n) : x \in DOMAIN U /\ U[x] = T[x]

(* Its levels are the same, ...                                            *)
LEMMA SameLevels ==
  ASSUME NEW T, NEW U, NEW id, SameBelow(T, U, id), NEW n \in Nat
  PROVE  AtDepth(U, id, n) = AtDepth(T, id, n)
<1> DEFINE S == {m \in Nat : AtDepth(U, id, m) = AtDepth(T, id, m)}
<1>1. 0 \in S
  BY FirstLevel
<1>2. ASSUME NEW m \in S
      PROVE  m + 1 \in S
  <2>1. \A x \in AtDepth(T, id, m) : U[x] = T[x]
    BY DEF SameBelow
  <2>2. Children(U, AtDepth(T, id, m)) = Children(T, AtDepth(T, id, m))
    BY <2>1 DEF Children
  <2> QED  BY <2>2, LevelAfter
<1>3. S = Nat
  <2>1. S \in SUBSET Nat
    OBVIOUS
  <2> HIDE DEF S
  <2> QED  BY <1>1, <1>2, <2>1, AllNumbers
<1> QED  BY <1>3

(* ... and so are its leaves.                                              *)
LEMMA SameLeaves ==
  ASSUME NEW T, NEW U, NEW id, SameBelow(T, U, id)
  PROVE  /\ Leaves(U, id) = Leaves(T, id)
         /\ \A x \in Leaves(T, id) : x \in DOMAIN U /\ U[x] = T[x]
         /\ ParsedNode(U, id) = ParsedNode(T, id)
<1>0. Depth \in Nat
  BY DepthAssumption
<1>1. Walk(U, id) = Walk(T, id)
  BY <1>0, SameLevels DEF Walk
<1>2. \A x \in Walk(T, id) : x \in DOMAIN U /\ U[x] = T[x]
  BY <1>0 DEF Walk, SameBelow
<1>3. ParsedNode(U, id) = ParsedNode(T, id)
  BY FirstLevel DEF ParsedNode, SameBelow
<1> QED  BY <1>1, <1>2, <1>3 DEF Leaves

(* What is below a node is below each of its children.                     *)
LEMMA SameBelowChildren ==
  ASSUME NEW T, NEW U, NEW id, SameBelow(T, U, id), NEW n \in Nat, NEW x \in AtDepth(T, id, n)
  PROVE  SameBelow(T, U, T[x].left) /\ SameBelow(T, U, T[x].right)
<1>1. ASSUME NEW c \in {T[x].left, T[x].right}
      PROVE  SameBelow(T, U, c)
  <2>1. CASE c = Empty
    BY <2>1, NothingBelowEmpty DEF SameBelow
  <2>2. CASE c # Empty
    <3>1. c \in AtDepth(T, id, n + 1)
      BY <2>2, LevelAfter DEF Children
    <3>2. ASSUME NEW m \in Nat
          PROVE  AtDepth(T, c, m) \subseteq AtDepth(T, id, (n + 1) + m)
      BY <3>1, LevelsBelow
    <3>3. \A m \in Nat : (n + 1) + m \in Nat
      OBVIOUS
    <3> QED  BY <3>2, <3>3 DEF SameBelow
  <2> QED  BY <2>1, <2>2
<1> QED  BY <1>1

(* A tree stays one, in a table that has its nodes.                        *)
LEMMA SameTree ==
  ASSUME NEW T, NEW U, NEW id, SameBelow(T, U, id), NEW d, SubOK(T, id, d)
  PROVE  SubOK(U, id, d)
<1> SUFFICES ASSUME NEW n \in Nat, NEW x \in AtDepth(U, id, n)
             PROVE  NodeOK(U, x, d + n)
  BY DEF SubOK
<1>1. x \in AtDepth(T, id, n) /\ NodeOK(T, x, d + n) /\ x \in DOMAIN U /\ U[x] = T[x]
  BY SameLevels DEF SubOK, SameBelow
<1> DEFINE l == T[x].left
           r == T[x].right
<1>2. CASE StoredLeaf(T, x)
  BY <1>1, <1>2 DEF NodeOK, StoredLeaf
<1>3. CASE StoredBranch(T, x, d + n)
  <2>1. SameBelow(T, U, l) /\ SameBelow(T, U, r)
    BY <1>1, SameBelowChildren
  <2>2. /\ Leaves(U, l) = Leaves(T, l) /\ Leaves(U, r) = Leaves(T, r)
        /\ \A y \in Leaves(T, l) \cup Leaves(T, r) : U[y] = T[y]
        /\ ParsedNode(U, l) = ParsedNode(T, l) /\ ParsedNode(U, r) = ParsedNode(T, r)
    BY <2>1, SameLeaves
  <2>3. Leaves(U, x) = Leaves(T, x)
    <3>1. ASSUME NEW m \in Nat
          PROVE  AtDepth(T, x, m) \subseteq AtDepth(T, id, n + m) /\ n + m \in Nat
      BY <1>1, LevelsBelow
    <3>2. SameBelow(T, U, x)
      BY <3>1 DEF SameBelow
    <3> QED  BY <3>2, SameLeaves
  <2> QED  BY <1>1, <1>3, <2>2, <2>3 DEF NodeOK, StoredBranch, SidesOK, Several
<1> QED  BY <1>1, <1>2, <1>3 DEF NodeOK

Extends(U, T) == DOMAIN T \subseteq DOMAIN U /\ \A x \in DOMAIN T : U[x] = T[x]

(* Writing more nodes changes no tree.                                     *)
LEMMA TreesStay ==
  ASSUME NEW T, NEW U, Extends(U, T), NEW id, NEW d, SubOK(T, id, d)
  PROVE  /\ SubOK(U, id, d) /\ SameBelow(T, U, id)
         /\ Leaves(U, id) = Leaves(T, id) /\ Reuse(U, id) = Reuse(T, id)
         /\ \A x \in Leaves(T, id) : U[x] = T[x]
<1>1. SameBelow(T, U, id)
  <2>1. ASSUME NEW n \in Nat, NEW x \in AtDepth(T, id, n)
        PROVE  x \in DOMAIN T
    BY DEF SubOK, NodeOK, StoredLeaf, StoredBranch
  <2> QED  BY <2>1 DEF SameBelow, Extends
<1> QED  BY <1>1, SameTree, SameLeaves DEF Reuse

---------------------------------------------------------------------------
(* A whole tree is a subtree at depth 0.                                   *)
LEMMA TreesAreSubtrees ==
  ASSUME NEW T, NEW root
  PROVE  TreeOK(T, root) <=> root \in DOMAIN T \cup {Empty} /\ SubOK(T, root, 0)
<1>0. Depth \in Nat /\ 0 \in 0 .. Depth /\ \A n \in Nat : 0 + n = n
  BY DepthAssumption
<1>1. ASSUME TreeOK(T, root)
      PROVE  SubOK(T, root, 0)
  <2> SUFFICES ASSUME NEW n \in Nat, NEW x \in AtDepth(T, root, n)
               PROVE  NodeOK(T, x, n)
    BY <1>0 DEF SubOK
  <2>1. n \in 0 .. Depth
    <3> SUFFICES ASSUME n > Depth
                 PROVE  FALSE
      BY <1>0
    <3>1. n - Depth - 1 \in Nat /\ n = Depth + 1 + (n - Depth - 1)
      BY <1>0
    <3> QED  BY <1>1, <3>1, NothingDeeper DEF TreeOK
  <2>2. CASE IsLeaf(T[x])
    <3>1. x \in Leaves(T, root)
      BY <2>1, <2>2 DEF Leaves, Walk
    <3>2. T[x].type = "Leaf" /\ x \in DOMAIN T /\ T[x].key \in KeySpace /\ Children(T, {x}) = {}
      BY <1>1, <2>1, <2>2, <3>1 DEF TreeOK, WellFormed
    <3>3. T[x].left = Empty /\ T[x].right = Empty
      BY <3>2 DEF Children
    <3>4. T[x].hash = LeafHash(T[x].key, T[x].val)
      BY <1>1, <2>1, <2>2 DEF TreeOK, Hashed
    <3> QED  BY <3>2, <3>3, <3>4 DEF NodeOK, StoredLeaf
  <2>3. CASE ~IsLeaf(T[x])
    <3>1. /\ x \in DOMAIN T /\ IsBranch(T[x]) /\ n < Depth /\ T[x].left # T[x].right
          /\ SidesOK(T, T[x].left, T[x].right, n)
      BY <1>1, <2>1, <2>3 DEF TreeOK, WellFormed, SidesOK
    <3>2. T[x].hash = BranchHash(ParsedNode(T, T[x].left).hash, ParsedNode(T, T[x].right).hash)
      BY <1>1, <2>1, <2>3 DEF TreeOK, Hashed
    <3>3. Several(Leaves(T, x))
      BY <1>1, <2>1, <2>3 DEF TreeOK, Compact, Several
    <3> QED  BY <3>1, <3>2, <3>3 DEF NodeOK, StoredBranch
  <2> QED  BY <2>2, <2>3
<1>2. ASSUME root \in DOMAIN T \cup {Empty}, SubOK(T, root, 0)
      PROVE  TreeOK(T, root)
  <2>1. ASSUME NEW n \in 0 .. Depth, NEW x \in AtDepth(T, root, n)
        PROVE  NodeOK(T, x, n)
    BY <1>0, <1>2 DEF SubOK
  <2>2. WellFormed(T, root)
    BY <2>1 DEF WellFormed, NodeOK, StoredLeaf, StoredBranch, SidesOK, Children, IsLeaf, IsBranch
  <2>3. Hashed(T, root)
    BY <2>1 DEF Hashed, NodeOK, StoredLeaf, StoredBranch, IsLeaf, IsBranch
  <2>4. Compact(T, root)
    BY <2>1 DEF Compact, NodeOK, StoredLeaf, StoredBranch, Several, IsLeaf
  <2>5. \A leaf \in Leaves(T, root) : T[leaf].type = "Leaf"
    BY <1>0, <1>2, LeavesAreStored DEF StoredLeaf
  <2> QED  BY <1>2, <2>2, <2>3, <2>4, <2>5 DEF TreeOK
<1>3. TreeOK(T, root) => root \in DOMAIN T \cup {Empty}
  BY DEF TreeOK
<1> QED  BY <1>1, <1>2, <1>3

---------------------------------------------------------------------------
(* The keys that a frame at depth d can meet agree in their first d bits,  *)
(* and there are no others between them.                                   *)

Region(I, d) ==
  /\ I \in SUBSET KeySpace
  /\ \A j, k \in I : \A n \in 0 .. d - 1 : GetBit(j, n) = GetBit(k, n)
  /\ \A j, k \in I, x \in KeySpace : j < x /\ x < k => x \in I

Half(I, d, bit) == {k \in I : GetBit(k, d) = bit}

(* All keys are such a region, ...                                         *)
LEMMA AllKeys == Region(KeySpace, 0)
<1>1. 0 .. 0 - 1 = {}
  OBVIOUS
<1> QED  BY <1>1 DEF Region

(* ... each half of one is, ...                                            *)
LEMMA Halves ==
  ASSUME NEW I, NEW d \in 0 .. Depth - 1, Region(I, d)
  PROVE  /\ Region(Half(I, d, 0), d + 1) /\ Region(Half(I, d, 1), d + 1)
         /\ I = Half(I, d, 0) \cup Half(I, d, 1)
         /\ Half(I, d, 0) \cap Half(I, d, 1) = {}
         /\ \A j \in Half(I, d, 0), k \in Half(I, d, 1) : j < k
<1>0. Depth \in Nat /\ d \in Nat /\ I \subseteq KeySpace /\ KeySpace \subseteq Nat
  BY DepthAssumption, KeysAreNumbers DEF Region
<1>1. \A k \in I : GetBit(k, d) \in {0, 1}
  BY <1>0, BitOfKey
<1>2. ASSUME NEW j \in Half(I, d, 0), NEW k \in Half(I, d, 1)
      PROVE  j < k
  <2>1. j \in I /\ k \in I /\ GetBit(j, d) = 0 /\ GetBit(k, d) = 1
    BY DEF Half
  <2>2. \A n \in 0 .. d - 1 : GetBit(j, n) = GetBit(k, n)
    BY <2>1 DEF Region
  <2> QED  BY <1>0, <2>1, <2>2, FirstBitDecides
<1>3. ASSUME NEW bit \in {0, 1}
      PROVE  Region(Half(I, d, bit), d + 1)
  <2>1. ASSUME NEW j \in Half(I, d, bit), NEW k \in Half(I, d, bit), NEW n \in 0 .. (d + 1) - 1
        PROVE  GetBit(j, n) = GetBit(k, n)
    <3>1. CASE n = d
      BY <3>1 DEF Half
    <3>2. CASE n # d
      <4>1. n \in 0 .. d - 1
        BY <1>0, <3>2
      <4> QED  BY <4>1 DEF Half, Region
    <3> QED  BY <3>1, <3>2
  <2>2. ASSUME NEW j \in Half(I, d, bit), NEW k \in Half(I, d, bit), NEW x \in KeySpace, j < x, x < k
        PROVE  x \in Half(I, d, bit)
    <3>1. x \in I /\ j \in I /\ k \in I /\ GetBit(j, d) = bit /\ GetBit(k, d) = bit
      BY <2>2 DEF Half, Region
    <3>2. j \in Nat /\ k \in Nat /\ x \in Nat
      BY <1>0, <3>1
    <3>3. CASE GetBit(x, d) = bit
      BY <3>1, <3>3 DEF Half
    <3>4. CASE bit = 0 /\ GetBit(x, d) = 1
      <4>1. k < x
        BY <1>2, <3>1, <3>4 DEF Half
      <4> QED  BY <2>2, <3>2, <4>1
    <3>5. CASE bit = 1 /\ GetBit(x, d) = 0
      <4>1. x < j
        BY <1>2, <3>1, <3>5 DEF Half
      <4> QED  BY <2>2, <3>2, <4>1
    <3> QED  BY <1>1, <3>1, <3>3, <3>4, <3>5
  <2>3. Half(I, d, bit) \in SUBSET KeySpace
    BY <1>0 DEF Half
  <2> QED  BY <2>1, <2>2, <2>3 DEF Region
<1>4. I = Half(I, d, 0) \cup Half(I, d, 1) /\ Half(I, d, 0) \cap Half(I, d, 1) = {}
  BY <1>1 DEF Half
<1> QED  BY <1>2, <1>3, <1>4

(* ... and below the last bit there is room for one key.                   *)
LEMMA LastRegion ==
  ASSUME NEW I, Region(I, Depth)
  PROVE  \A j, k \in I : j = k
<1> SUFFICES ASSUME NEW j \in I, NEW k \in I
             PROVE  j = k
  OBVIOUS
<1>1. Depth \in Nat /\ Depth \in 0 .. Depth /\ Depth - Depth = 0 /\ j \in Nat /\ k \in Nat
  BY DepthAssumption, KeysAreNumbers DEF Region
<1>2. ShiftRight(j, Depth - Depth) = ShiftRight(k, Depth - Depth)
  BY <1>1, SamePrefix DEF Region
<1> QED  BY <1>1, <1>2, Shifts

---------------------------------------------------------------------------
(* Iterators                                                               *)

(* The end of the map is beyond every key.                                 *)
LEMMA EndOfMap == MapEnd \in Nat /\ KeySpace = 0 .. MapEnd - 1
  BY PowersOfTwo, DepthAssumption DEF MapEnd, KeySpace

(* The least of some numbers.                                              *)
LEMMA MinIsLeast ==
  ASSUME NEW S \in SUBSET Nat, S # {}
  PROVE  Min(S) \in S /\ \A x \in S : Min(S) <= x
<1>1. \E x \in S : \A y \in S : x =< y
  BY LeastElement
<1> QED  BY <1>1 DEF Min

(* The entry after another is the next one there is.                       *)
LEMMA AfterIsNext ==
  ASSUME NEW updates, NEW it \in Int, it < MapEnd
  PROVE  /\ After(updates, it) \in Nat /\ it < After(updates, it) /\ After(updates, it) <= MapEnd
         /\ After(updates, it) \in Present(updates) \cup {MapEnd}
         /\ \A k \in Present(updates) : it < k => After(updates, it) <= k
<1> DEFINE S == {k \in Present(updates) : k > it} \cup {MapEnd}
<1>1. MapEnd \in Nat /\ \A k \in Present(updates) : k \in Nat /\ k < MapEnd
  BY EndOfMap DEF Present
<1>2. S \in SUBSET Nat /\ S # {}
  BY <1>1
<1>3. After(updates, it) = Min(S)
  BY DEF After
<1>4. Min(S) \in S /\ \A x \in S : Min(S) <= x
  <2> HIDE DEF S
  <2> QED  BY <1>2, MinIsLeast
<1> QED  BY <1>1, <1>3, <1>4

(* Where an iterator can be.                                               *)
Iterators(updates, begin, end) ==
  /\ begin \in 0 .. MapEnd /\ end \in 0 .. MapEnd /\ begin <= end
  /\ begin # end => begin \in Present(updates)
  /\ end \in Present(updates) \cup {MapEnd}

(* A window has entries of keys.                                           *)
LEMMA WindowsHaveKeys ==
  ASSUME NEW updates, NEW begin, NEW end
  PROVE  /\ Window(updates, begin, end) \subseteq Present(updates)
         /\ Present(updates) \subseteq KeySpace /\ KeySpace \subseteq Nat
BY KeysAreNumbers DEF Window, Present

(* Where a window is divided: at the first key whose next bit is 1.        *)
Middle(updates, begin, end, d) == Min({k \in Window(updates, begin, end) : GetBit(k, d) = 1} \cup {end})

DividesAt(I, d, updates, begin, end, m) ==
  /\ Iterators(updates, begin, m) /\ Iterators(updates, m, end)
  /\ Window(updates, begin, m) = Window(updates, begin, end) \cap Half(I, d, 0)
  /\ Window(updates, m, end) = Window(updates, begin, end) \cap Half(I, d, 1)
  /\ \A k \in Half(I, d, 0) : k < m
  /\ \A k \in Half(I, d, 1) : k \in Present(updates) /\ begin <= k => m <= k

(* It is where the two halves of a region part.                            *)
LEMMA MiddleDivides ==
  ASSUME NEW d \in 0 .. Depth - 1, NEW I, Region(I, d),
         NEW updates, NEW begin, NEW end, Iterators(updates, begin, end),
         Window(updates, begin, end) \subseteq I, \A k \in I : k < end
  PROVE  DividesAt(I, d, updates, begin, end, Middle(updates, begin, end, d))
<1> DEFINE m == Middle(updates, begin, end, d)
<1> DEFINE W == Window(updates, begin, end)
           S == {k \in W : GetBit(k, d) = 1} \cup {end}
<1>0. /\ Present(updates) \subseteq Nat /\ I \subseteq Nat /\ begin \in Nat /\ end \in Nat /\ MapEnd \in Nat
      /\ begin <= end /\ end <= MapEnd /\ (begin # end => begin \in Present(updates))
      /\ end \in Present(updates) \cup {MapEnd}
  BY WindowsHaveKeys, EndOfMap DEF Iterators, Region
<1>1. /\ \A k \in Half(I, d, 0) : GetBit(k, d) = 0 /\ k \in I
      /\ \A k \in Half(I, d, 1) : GetBit(k, d) = 1 /\ k \in I
      /\ I = Half(I, d, 0) \cup Half(I, d, 1)
      /\ \A j \in Half(I, d, 0), k \in Half(I, d, 1) : j < k
  BY Halves DEF Half
<1>2. W \subseteq I /\ \A k : k \in W <=> k \in Present(updates) /\ begin <= k /\ k < end
  BY DEF Window
<1>3. S \in SUBSET Nat /\ S # {} /\ end \in S /\ \A k \in S : begin <= k /\ k <= end
  BY <1>0, <1>2
<1>4. m \in S /\ \A k \in S : m <= k
  <2> HIDE DEF S
  <2>1. Min(S) \in S /\ \A k \in S : Min(S) <= k
    BY <1>3, MinIsLeast
  <2> QED  BY <2>1 DEF S, Middle
<1> HIDE DEF m
<1>5. m \in Nat /\ begin <= m /\ m <= end
  BY <1>3, <1>4
<1>6. m = end \/ (m \in W /\ m \in Half(I, d, 1))
  BY <1>1, <1>2, <1>4
<1>7. \A k \in Half(I, d, 0) : k < m
  BY <1>1, <1>6
<1>8. \A k \in Half(I, d, 1) : k \in Present(updates) /\ begin <= k => m <= k
  BY <1>1, <1>2, <1>4
<1>9. Iterators(updates, begin, m) /\ Iterators(updates, m, end)
  <2>1. begin # m => begin \in Present(updates)
    BY <1>0, <1>5
  <2>2. m # end => m \in Present(updates)
    BY <1>2, <1>6
  <2>3. m \in Present(updates) \cup {MapEnd}
    BY <1>0, <2>2
  <2> QED  BY <1>0, <1>5, <2>1, <2>2, <2>3 DEF Iterators
<1>10. ASSUME NEW k
       PROVE  /\ k \in Window(updates, begin, m) <=> k \in W \cap Half(I, d, 0)
              /\ k \in Window(updates, m, end) <=> k \in W \cap Half(I, d, 1)
  <2>1. CASE k \notin W
    BY <1>0, <1>2, <1>5, <2>1 DEF Window
  <2>2. CASE k \in W /\ k \in Half(I, d, 0)
    <3>1. k < m /\ k \notin Half(I, d, 1)
      BY <1>1, <1>7, <2>2
    <3> QED  BY <1>0, <1>2, <1>5, <2>2, <3>1 DEF Window
  <2>3. CASE k \in W /\ k \in Half(I, d, 1)
    <3>1. m <= k /\ k \notin Half(I, d, 0)
      BY <1>1, <1>2, <1>8, <2>3
    <3> QED  BY <1>0, <1>2, <1>5, <2>3, <3>1 DEF Window
  <2> QED  BY <1>1, <1>2, <2>1, <2>2, <2>3
<1> QED  BY <1>7, <1>8, <1>9, <1>10 DEF DividesAt, m

(* What is left of a window without its deletions: one may stay in the     *)
(* map, but the window has been moved past it.                             *)
Erased(work, begin, end, rest) ==
  /\ rest.work \in Works /\ rest.work.used = work.used /\ rest.work.output = work.output
  /\ begin <= rest.begin /\ Iterators(rest.work.updates, rest.begin, end)
  /\ \A k \in KeySpace :
       /\ k \in Window(rest.work.updates, rest.begin, end) <=>
            k \in Window(work.updates, begin, end) /\ ~work.updates[k].deletion
       /\ \/ rest.work.updates[k] = work.updates[k]
          \/ /\ k \in Window(work.updates, begin, end) /\ work.updates[k].deletion
             /\ rest.work.updates[k] = NoEntry
       /\ k \in Present(rest.work.updates) /\ begin <= k /\ k < rest.begin =>
            k \in Window(work.updates, begin, end) /\ work.updates[k].deletion

(* So EraseDeletions leaves it.                                            *)
LEMMA DeletionsErased ==
  ASSUME NEW work \in Works, NEW begin, NEW end, Iterators(work.updates, begin, end), begin # end
  PROVE  Erased(work, begin, end, EraseDeletions(work, begin, end))
<1> DEFINE rest == EraseDeletions(work, begin, end)
<1> DEFINE updates == work.updates
           W       == Window(updates, begin, end)
           doomed  == {k \in W : updates[k].deletion}
           kept    == [k \in KeySpace |-> IF k \in doomed \ {begin} THEN NoEntry ELSE updates[k]]
           next    == IF begin \in doomed THEN After(kept, begin) ELSE begin
<1>0. /\ Present(updates) \subseteq KeySpace /\ KeySpace \subseteq Nat /\ begin \in Nat /\ end \in Nat
      /\ MapEnd \in Nat /\ begin < end /\ end <= MapEnd /\ begin \in Present(updates)
      /\ end \in Present(updates) \cup {MapEnd}
  <2>1. Present(updates) \subseteq KeySpace /\ KeySpace \subseteq Nat /\ MapEnd \in Nat
    BY WindowsHaveKeys, EndOfMap
  <2>2. Iterators(updates, begin, end)
    OBVIOUS
  <2> HIDE DEF updates
  <2> QED  BY <2>1, <2>2 DEF Iterators
<1>1. /\ \A k : k \in W <=> k \in Present(updates) /\ begin <= k /\ k < end
      /\ begin \in W /\ W \subseteq KeySpace
  BY <1>0 DEF Window
<1>2. rest.work = [work EXCEPT !.updates = kept] /\ rest.begin = next
  BY DEF EraseDeletions
<1> HIDE DEF rest
<1>3. /\ work = [used |-> work.used, updates |-> updates, output |-> work.output]
      /\ updates \in [KeySpace -> Update \cup {NoEntry}]
  BY DEF Works
<1>4. kept \in [KeySpace -> Update \cup {NoEntry}]
  BY <1>3
<1>5. rest.work \in Works /\ rest.work.used = work.used /\ rest.work.output = work.output
      /\ rest.work.updates = kept
  <2> HIDE DEF kept
  <2> QED  BY <1>2, <1>4 DEF Works
<1>6. /\ \A k \in Present(kept) : k \in Present(updates) /\ (k = begin \/ k \notin doomed)
      /\ \A k \in Present(updates) : k \notin doomed => k \in Present(kept)
      /\ begin \in Present(kept) /\ Present(kept) \subseteq Nat
  BY <1>0 DEF Present
<1>7. /\ next \in Nat /\ begin <= next /\ next <= end
      /\ next # end => next \in Present(kept) /\ next \notin doomed
      /\ \A k \in Present(kept) : begin < k => next <= k
      /\ begin \in doomed => begin < next
      /\ begin \notin doomed => next = begin
  <2>1. CASE begin \notin doomed
    BY <1>0, <1>6, <2>1
  <2>2. CASE begin \in doomed
    <3> HIDE DEF kept
    <3>1. begin \in Int /\ begin < MapEnd
      BY <1>0
    <3>2. /\ After(kept, begin) \in Nat /\ begin < After(kept, begin) /\ After(kept, begin) <= MapEnd
          /\ After(kept, begin) \in Present(kept) \cup {MapEnd}
          /\ \A k \in Present(kept) : begin < k => After(kept, begin) <= k
      BY <3>1, AfterIsNext
    <3>3. next = After(kept, begin)
      BY <2>2
    <3>4. end \in Present(kept) \cup {MapEnd}
      BY <1>0, <1>1, <1>6
    <3>5. next <= end
      BY <1>0, <3>2, <3>3, <3>4
    <3>6. next # end => next \in Present(kept)
      BY <1>0, <3>2, <3>3, <3>5
    <3>7. next \in Present(kept) => next \notin doomed
      BY <1>0, <1>6, <3>2, <3>3
    <3> HIDE DEF next, doomed
    <3> QED  BY <1>0, <2>2, <3>2, <3>3, <3>5, <3>6, <3>7
  <2> QED  BY <2>1, <2>2
<1>8. Iterators(kept, next, end)
  <2>1. end \in Present(kept) \cup {MapEnd}
    BY <1>0, <1>1, <1>6
  <2> HIDE DEF kept, next
  <2> QED  BY <1>0, <1>7, <2>1 DEF Iterators
<1>9. ASSUME NEW k \in KeySpace
      PROVE  /\ k \in Window(kept, next, end) <=> k \in W /\ ~updates[k].deletion
             /\ kept[k] = updates[k] \/ (k \in W /\ updates[k].deletion /\ kept[k] = NoEntry)
             /\ k \in Present(kept) /\ begin <= k /\ k < next => k \in W /\ updates[k].deletion
  <2>1. kept[k] = updates[k] \/ (k \in W /\ updates[k].deletion /\ kept[k] = NoEntry)
    OBVIOUS
  <2>2. k \in Nat /\ (k \in doomed <=> k \in W /\ updates[k].deletion)
    BY <1>0
  <2>3. k \in Window(kept, next, end) <=> k \in Present(kept) /\ next <= k /\ k < end
    BY DEF Window
  <2> HIDE DEF kept, next, doomed
  <2>4. ASSUME k \in W, k \notin doomed
        PROVE  k \in Window(kept, next, end)
    <3>1. k \in Present(kept) /\ begin <= k /\ k < end
      BY <1>1, <1>6, <2>4
    <3>2. next <= k
      BY <1>0, <1>7, <2>2, <2>4, <3>1
    <3> QED  BY <2>3, <3>1, <3>2
  <2>5. ASSUME k \in Window(kept, next, end)
        PROVE  k \in W /\ k \notin doomed
    <3>1. k \in Present(kept) /\ next <= k /\ k < end
      BY <2>3, <2>5
    <3>2. k \in W
      BY <1>0, <1>1, <1>6, <1>7, <2>2, <3>1
    <3>3. k = begin => begin \notin doomed
      BY <1>0, <1>7, <3>1
    <3> QED  BY <1>6, <3>1, <3>2, <3>3
  <2>6. ASSUME k \in Present(kept), begin <= k, k < next
        PROVE  k \in doomed
    <3>1. k = begin
      BY <1>0, <1>7, <2>2, <2>6
    <3> QED  BY <1>0, <1>7, <2>6, <3>1
  <2> QED  BY <2>1, <2>2, <2>4, <2>5, <2>6
<1> HIDE DEF kept, next
<1>10. Erased(work, begin, end, rest)
  BY <1>2, <1>5, <1>7, <1>8, <1>9 DEF Erased
<1> QED  BY <1>10 DEF rest

---------------------------------------------------------------------------
(* Ids                                                                     *)

Bounded(used) == \E m \in Nat : \A x \in used : x <= m

RoomAbove(used, b) == b \in Nat \ {0} /\ \A x \in used : x < FirstInterior => x < b

(* The greatest of some numbers.                                           *)
LEMMA MaxIsGreatest ==
  ASSUME NEW S \in SUBSET Nat, S # {}, Bounded(S)
  PROVE  Max(S) \in S /\ \A x \in S : x <= Max(S)
<1> DEFINE B == {m \in Nat : \A x \in S : x <= m}
<1>1. B \in SUBSET Nat /\ B # {}
  BY DEF Bounded
<1>2. PICK m \in B : \A n \in B : m <= n
  <2> HIDE DEF B
  <2> QED  BY <1>1, LeastElement
<1>3. m \in S
  <2> SUFFICES ASSUME m \notin S
               PROVE  FALSE
    OBVIOUS
  <2>1. m \in Nat /\ \A x \in S : x <= m
    OBVIOUS
  <2>2. PICK y : y \in S
    OBVIOUS
  <2>3. ASSUME NEW x \in S
        PROVE  x \in Nat /\ x < m
    BY <2>1
  <2>4. m - 1 \in Nat
    BY <2>1, <2>2, <2>3
  <2>5. m - 1 \in B
    BY <2>1, <2>3, <2>4
  <2> HIDE DEF B
  <2> QED  BY <1>2, <2>1, <2>5
<1>4. \E x \in S : \A y \in S : x >= y
  BY <1>2, <1>3
<1> QED  BY <1>4 DEF Max

Over(S, first) == IF S = {} THEN first ELSE Max(S) + 1

(* What is next to some ids.                                               *)
LEMMA NextOver ==
  ASSUME NEW S \in SUBSET Nat, Bounded(S), NEW first \in Nat, \A x \in S : x >= first
  PROVE  /\ Over(S, first) \in Nat /\ Over(S, first) >= first
         /\ \A x \in S : x < Over(S, first)
         /\ \A b \in Nat : first <= b /\ (\A x \in S : x < b) => Over(S, first) <= b
<1> DEFINE id == Over(S, first)
<1>0. id = IF S = {} THEN first ELSE Max(S) + 1
  BY DEF Over
<1> HIDE DEF id
<1> SUFFICES /\ id \in Nat /\ id >= first /\ \A x \in S : x < id
             /\ \A b \in Nat : first <= b /\ (\A x \in S : x < b) => id <= b
  BY DEF id
<1>1. CASE S = {}
  BY <1>0, <1>1
<1>2. CASE S # {}
  <2>1. PICK m \in Nat : m = Max(S) /\ m \in S /\ \A x \in S : x <= m
    BY <1>2, MaxIsGreatest
  <2>2. id = m + 1 /\ m >= first
    BY <1>0, <1>2, <2>1
  <2>3. ASSUME NEW x \in S
        PROVE  x < id
    <3>1. x \in Nat /\ x <= m
      BY <2>1
    <3> QED  BY <2>2, <3>1
  <2>4. ASSUME NEW b \in Nat, \A x \in S : x < b
        PROVE  id <= b
    <3>1. m < b
      BY <2>1, <2>4
    <3> QED  BY <2>2, <3>1
  <2> QED  BY <2>1, <2>2, <2>3, <2>4
<1> QED  BY <1>1, <1>2

LeafIds(used)   == {x \in used : x < FirstInterior}
BranchIds(used) == {x \in used : ~(x < FirstInterior)}

LeafNext(used)   == Over(LeafIds(used), 1)
BranchNext(used) == Over(BranchIds(used), FirstInterior)

(* The two counters, by the type of node.                                  *)
LEMMA TwoCounters ==
  ASSUME NEW used, NEW node
  PROVE  /\ IsLeaf(node) => NextId(used, IsLeaf(node)) = LeafNext(used)
         /\ ~IsLeaf(node) => NextId(used, IsLeaf(node)) = BranchNext(used)
<1>1. ASSUME IsLeaf(node)
      PROVE  {x \in used : (x < FirstInterior) <=> IsLeaf(node)} = LeafIds(used)
  BY <1>1 DEF LeafIds
<1>2. ASSUME ~IsLeaf(node)
      PROVE  {x \in used : (x < FirstInterior) <=> IsLeaf(node)} = BranchIds(used)
  BY <1>2 DEF BranchIds
<1> QED  BY <1>1, <1>2 DEF NextId, LeafNext, BranchNext, Over

(* The next id of a leaf is a new one, while there is room.                *)
LEMMA NextLeafId ==
  ASSUME NEW used \in SUBSET Nat, Bounded(used), Empty \notin used,
         NEW b, RoomAbove(used, b), b < FirstInterior, NEW id, id = LeafNext(used)
  PROVE  /\ id \in Nat /\ id # Empty /\ id < FirstInterior /\ id \notin used
         /\ RoomAbove(used \cup {id}, b + 1)
<1>0. FirstInterior \in Nat /\ b \in Nat /\ 1 <= b /\ 1 \in Nat
  BY FirstInteriorAssumption DEF RoomAbove
<1> DEFINE S == LeafIds(used)
<1>2. \A x : x \in S <=> x \in used /\ x < FirstInterior
  BY DEF LeafIds
<1> HIDE DEF S
<1>3. S \in SUBSET Nat
  BY <1>2
<1>4. ASSUME NEW x \in S
      PROVE  x >= 1 /\ x < b
  <2>1. x \in Nat /\ x # 0
    BY <1>2 DEF Empty
  <2>2. x < b
    BY <1>2 DEF RoomAbove
  <2> QED  BY <2>1, <2>2
<1>5. Bounded(S)
  BY <1>2 DEF Bounded
<1>6. id = Over(S, 1)
  BY DEF LeafNext, S
<1>7. id \in Nat /\ id >= 1 /\ (\A x \in S : x < id) /\ id <= b
  <2>1. (\A x \in S : x >= 1) /\ (\A x \in S : x < b)
    BY <1>4
  <2>2. /\ id \in Nat /\ id >= 1 /\ \A x \in S : x < id
        /\ \A c \in Nat : 1 <= c /\ (\A x \in S : x < c) => id <= c
    BY <1>0, <1>3, <1>5, <1>6, <2>1, NextOver
  <2> QED  BY <1>0, <2>1, <2>2
<1>8. id < FirstInterior
  BY <1>0, <1>7
<1>9. id \notin used
  <2>1. id \in used => id < id
    BY <1>2, <1>7, <1>8
  <2> QED  BY <1>7, <2>1
<1>10. RoomAbove(used \cup {id}, b + 1)
  <2>1. ASSUME NEW x \in used \cup {id}, x < FirstInterior
        PROVE  x < b + 1
    <3>1. CASE x = id
      BY <1>0, <1>7, <3>1
    <3>2. CASE x \in used
      <4>1. x \in Nat /\ x < b
        BY <2>1, <3>2 DEF RoomAbove
      <4> QED  BY <1>0, <4>1
    <3> QED  BY <3>1, <3>2
  <2>2. b + 1 \in Nat \ {0}
    BY <1>0
  <2> QED  BY <2>1, <2>2 DEF RoomAbove
<1>11. id # Empty
  BY <1>7 DEF Empty
<1> QED  BY <1>7, <1>8, <1>9, <1>10, <1>11

(* So is that of a branch.                                                 *)
LEMMA NextBranchId ==
  ASSUME NEW used \in SUBSET Nat, Bounded(used), NEW id, id = BranchNext(used)
  PROVE  id \in Nat /\ id # Empty /\ id >= FirstInterior /\ id \notin used
<1>0. FirstInterior \in Nat /\ FirstInterior # 0
  BY FirstInteriorAssumption
<1> DEFINE S == BranchIds(used)
<1>2. \A x : x \in S <=> x \in used /\ ~(x < FirstInterior)
  BY DEF BranchIds
<1> HIDE DEF S
<1>3. S \in SUBSET Nat
  BY <1>2
<1>4. ASSUME NEW x \in S
      PROVE  x >= FirstInterior
  <2>1. x \in Nat /\ ~(x < FirstInterior)
    BY <1>2
  <2> QED  BY <1>0, <2>1
<1>5. Bounded(S)
  BY <1>2 DEF Bounded
<1>6. id = Over(S, FirstInterior)
  BY DEF BranchNext, S
<1>7. id \in Nat /\ id >= FirstInterior /\ \A x \in S : x < id
  BY <1>0, <1>3, <1>4, <1>5, <1>6, NextOver
<1>8. id \notin used
  <2>1. ~(id < FirstInterior)
    BY <1>0, <1>7
  <2>2. id \in used => id < id
    BY <1>2, <1>7, <2>1
  <2> QED  BY <1>7, <2>2
<1>9. id # Empty
  BY <1>0, <1>7 DEF Empty
<1> QED  BY <1>7, <1>8, <1>9

(* One more id is no end of them.                                          *)
LEMMA StillBounded ==
  ASSUME NEW used \in SUBSET Nat, Bounded(used), NEW id \in Nat
  PROVE  Bounded(used \cup {id})
<1>1. PICK m \in Nat : \A x \in used : x <= m
  BY DEF Bounded
<1>2. m + id \in Nat /\ \A x \in used \cup {id} : x <= m + id
  BY <1>1
<1> QED  BY <1>2 DEF Bounded

---------------------------------------------------------------------------
(* Tables, one written beside another.                                     *)

(* What is new is added, and what is there stays.                          *)
LEMMA TablesAdd ==
  ASSUME NEW T, NEW V
  PROVE  /\ DOMAIN With(T, V) = DOMAIN T \cup DOMAIN V
         /\ Extends(With(T, V), T)
         /\ DOMAIN T \cap DOMAIN V = {} => Extends(With(T, V), V)
         /\ \A x \in DOMAIN V : x \notin DOMAIN T => With(T, V)[x] = V[x]
BY DEF With, Extends

(* It does not matter in how many steps.                                   *)
LEMMA TablesAssociate ==
  ASSUME NEW T, NEW V, NEW W
  PROVE  With(With(T, V), W) = With(T, With(V, W))
BY DEF With

(* Nothing added is nothing changed.                                       *)
LEMMA NothingAdded ==
  ASSUME NEW T
  PROVE  DOMAIN NoTable = {} /\ Extends(With(T, NoTable), T) /\ Extends(T, With(T, NoTable))
BY DEF With, NoTable, Extends

---------------------------------------------------------------------------
(* What a call of putAux is asked, and what it does.                       *)

(* The updates of a window, as a function of all keys.                     *)
Asks(work, begin, end) ==
  [k \in KeySpace |-> IF k \in Window(work.updates, begin, end) THEN work.updates[k] ELSE NoEntry]

(* Those for which a leaf is written, if there is none like it.            *)
Fresh(Q) == {k \in KeySpace : ~Q[k].deletion /\ Q[k].override = Empty}

(* A set of updates is refused when it asks for a leaf of another key.     *)
Foreign(T, k, update) ==
  update # NoEntry /\ update.override # Empty /\ T[update.override].key # k

Refuses(T, Q) == \E k \in KeySpace : Foreign(T, k, Q[k])

For(T, S, k) == {x \in S : T[x].key = k}

(* A reuse names a stored leaf, and is not taken for a put of a value that *)
(* a record already has.                                                   *)
EntryOK(T, update, old) ==
  /\ update.deletion => update.override = Empty
  /\ update.override # Empty => /\ update.val = EmptyVal /\ StoredLeaf(T, update.override)
                                /\ \A x \in old : T[x].val # EmptyVal

Running(T, work) ==
  work \in Works /\ DOMAIN T \subseteq work.used /\ Bounded(work.used) /\ Empty \notin work.used

Asked(T, d, I, b, old, begin, end, work) ==
  /\ Running(T, work)
  /\ Region(I, d) /\ \A k \in I : k < end
  /\ Iterators(work.updates, begin, end) /\ Window(work.updates, begin, end) \subseteq I
  /\ \A x \in old : x \in DOMAIN T /\ T[x].key \in I
  /\ \A k \in Window(work.updates, begin, end) :
       EntryOK(T, work.updates[k], old) /\ (work.updates[k].override = Empty => work.output[k] = Empty)
  /\ RoomAbove(work.used, b) /\ b + Cardinality(Fresh(Asks(work, begin, end))) <= FirstInterior

LeafWritten(Q, x, node) ==
  x \in 1 .. FirstInterior - 1 /\ \E k \in Fresh(Q) : node = LeafNode(k, Q[k].val)

BranchWritten(ids, x, node) ==
  /\ x >= FirstInterior
  /\ \E l, r : /\ node = BranchNode(l, r) /\ {l.id, r.id} \subseteq ids \cup {Empty}
               /\ l.id # Empty \/ r.id # Empty

WrittenOK(T, Q, written) ==
  \A x \in DOMAIN written :
    \/ LeafWritten(Q, x, written[x])
    \/ BranchWritten(DOMAIN T \cup DOMAIN written, x, written[x])

(* What a call leaves to the next one, whether or not it throws.           *)
IsOutcome(out) ==
  out = [thrown |-> out.thrown, work |-> out.work, written |-> out.written,
         built |-> out.built, bubble |-> out.bubble]

Wrote(T, I, b, Q, work, out) ==
  /\ IsOutcome(out)
  /\ Running(With(T, out.written), out.work)
  /\ out.work.used = work.used \cup DOMAIN out.written
  /\ work.used \cap DOMAIN out.written = {}
  /\ RoomAbove(out.work.used, b + Cardinality(Fresh(Q)))
  /\ \A k \in KeySpace \ I : out.work.updates[k] = work.updates[k]
  /\ WrittenOK(T, Q, out.written)

(* What has become of one key: its leaf is the one that was there, there   *)
(* is none, or it is the one put; and what outputNodeId has of it.         *)
Settled(T, U, old, new, k, update, was, now) ==
  /\ update = NoEntry => /\ For(U, new, k) = For(T, old, k)
                         /\ For(T, old, k) = {} => now = was
  /\ update # NoEntry /\ update.deletion =>
       /\ For(U, new, k) = {}
       /\ For(T, old, k) = IF now = Empty THEN {} ELSE {now}
  /\ update # NoEntry /\ ~update.deletion =>
       \E y \in new : /\ For(U, new, k) = {y}
                      /\ IF update.override = Empty THEN U[y].val = update.val ELSE y = update.override
                      /\ now = y \/ (now = Empty /\ For(T, old, k) = {y})

(* The subtree that a call returns.                                        *)
Right(T, U, d, I, old, Q, work, out) ==
  LET new == Leaves(U, out.built.id) IN
  /\ SubOK(U, out.built.id, d) /\ out.built = Reuse(U, out.built.id)
  /\ \A x \in new : U[x].key \in I
  /\ \A k \in KeySpace : Settled(T, U, old, new, k, Q[k], work.output[k], out.work.output[k])
  /\ out.bubble \/ ((old # {} => new # {}) /\ (Several(old) => Several(new)))

Met(T, d, I, b, old, Q, work, out) ==
  /\ Wrote(T, I, b, Q, work, out)
  /\ out.thrown <=> Refuses(T, Q)
  /\ ~out.thrown => Right(T, With(T, out.written), d, I, old, Q, work, out)

(* The type of a built node says how many leaves its tree has.             *)
LEMMA TypesOfTrees ==
  ASSUME NEW T, NEW d \in 0 .. Depth, NEW id, SubOK(T, id, d)
  PROVE  /\ Reuse(T, id).id = id /\ Reuse(T, id).type # "Witness"
         /\ Reuse(T, id).type = "Empty" <=> id = Empty
         /\ Reuse(T, id).type = "Empty" <=> Leaves(T, id) = {}
         /\ IsLeaf(Reuse(T, id)) => id # Empty /\ StoredLeaf(T, id) /\ Leaves(T, id) = {id}
         /\ ~IsLeaf(Reuse(T, id)) /\ id # Empty => Several(Leaves(T, id))
<1>1. /\ Reuse(T, id).id = id
      /\ Reuse(T, id).type = ParsedNode(T, id).type
  BY DEF Reuse, Built
<1>2. CASE id = Empty /\ ParsedNode(T, id) = EmptyNode /\ Leaves(T, id) = {}
  BY <1>1, <1>2 DEF IsLeaf, EmptyNode
<1>3. CASE id # Empty /\ ParsedNode(T, id) = T[id] /\ StoredLeaf(T, id) /\ Leaves(T, id) = {id}
  BY <1>1, <1>3 DEF IsLeaf, StoredLeaf
<1>4. CASE id # Empty /\ ParsedNode(T, id) = T[id] /\ StoredBranch(T, id, d)
  BY <1>1, <1>4 DEF IsLeaf, IsBranch, StoredBranch, Several
<1> QED  BY <1>2, <1>3, <1>4, KindsOfTrees

(* A node that is written is found under the id it was given, beside all   *)
(* those that are there.                                                   *)
Writes(work, id, node, out) ==
  /\ out.work = [work EXCEPT !.used = @ \cup {id}]
  /\ out.written = Written(id, node) /\ out.built = Built(id, node)

Beside(T, U, work, id, node, out) ==
  /\ DOMAIN out.written = {id} /\ out.written[id] = node
  /\ Running(U, out.work) /\ out.work.used = work.used \cup {id}
  /\ out.work.updates = work.updates /\ out.work.output = work.output
  /\ id \in DOMAIN U /\ U[id] = node /\ out.built = Reuse(U, id) /\ Extends(U, T)

(* So it is.                                                               *)
LEMMA WritingOne ==
  ASSUME NEW T, NEW work, Running(T, work), NEW node, NEW id \in Nat, id \notin work.used, id # Empty,
         NEW out, Writes(work, id, node, out)
  PROVE  Beside(T, With(T, out.written), work, id, node, out)
<1>1. /\ work \in Works /\ DOMAIN T \subseteq work.used /\ Bounded(work.used) /\ Empty \notin work.used
      /\ work.used \in SUBSET Nat
  BY DEF Running, Works
<1>2. DOMAIN out.written = {id} /\ out.written[id] = node
  BY DEF Writes, Written
<1>3. /\ out.work \in Works /\ out.work.used = work.used \cup {id}
      /\ out.work.updates = work.updates /\ out.work.output = work.output
  BY <1>1 DEF Works, Writes
<1>4. Bounded(work.used \cup {id})
  BY <1>1, StillBounded
<1>5. /\ DOMAIN With(T, out.written) = DOMAIN T \cup DOMAIN out.written
      /\ Extends(With(T, out.written), T)
      /\ \A x \in DOMAIN out.written : x \notin DOMAIN T => With(T, out.written)[x] = out.written[x]
  BY DEF With, Extends
<1>6. id \in DOMAIN With(T, out.written) /\ With(T, out.written)[id] = node
  BY <1>1, <1>2, <1>5
<1>7. out.built = Reuse(With(T, out.written), id)
  BY <1>6 DEF Writes, Reuse, ParsedNode
<1>8. Running(With(T, out.written), out.work)
  BY <1>1, <1>2, <1>3, <1>4, <1>5 DEF Running
<1> QED  BY <1>2, <1>3, <1>5, <1>6, <1>7, <1>8 DEF Beside

(* What outputNodeId has of one key.                                       *)
ReportedTo(work, k, id, reported) ==
  /\ reported \in Works /\ reported.used = work.used /\ reported.updates = work.updates
  /\ reported.output[k] = id
  /\ \A j \in KeySpace : j # k => reported.output[j] = work.output[j]

(* A report changes nothing else.                                          *)
LEMMA Reported ==
  ASSUME NEW work \in Works, NEW k \in KeySpace, NEW id \in Nat
  PROVE  ReportedTo(work, k, id, Report(work, k, id))
BY DEF Report, Works, ReportedTo

(* A leaf for an entry of the updates: what LeafFor does.                  *)
LeafFound(T, U, work, k, update, b, out) ==
  /\ IsOutcome(out)
  /\ Running(U, out.work)
  /\ out.work.used = work.used \cup DOMAIN out.written /\ work.used \cap DOMAIN out.written = {}
  /\ out.work.updates = work.updates /\ out.work.output = work.output
  /\ RoomAbove(out.work.used, IF update.override = Empty THEN b + 1 ELSE b)
  /\ \A x \in DOMAIN out.written : /\ x \in 1 .. FirstInterior - 1 /\ update.override = Empty
                                   /\ out.written[x] = LeafNode(k, update.val)
  /\ out.thrown <=> update.override # Empty /\ T[update.override].key # k
  /\ ~out.thrown =>
       \E y \in DOMAIN U : /\ out.built = Reuse(U, y) /\ StoredLeaf(U, y) /\ y # Empty
                           /\ U[y].key = k /\ ~out.bubble
                           /\ IF update.override = Empty THEN U[y].val = update.val
                              ELSE y = update.override

(* It finds or writes one.                                                 *)
LEMMA LeafForEntry ==
  ASSUME NEW T, NEW work, Running(T, work), NEW k \in KeySpace, NEW b, RoomAbove(work.used, b),
         NEW update, update = work.updates[k], ~update.deletion, EntryOK(T, update, {}),
         update.override = Empty => b < FirstInterior,
         NEW out, out = LeafFor(T, work, k)
  PROVE  LeafFound(T, With(T, out.written), work, k, update, b, out)
<1> DEFINE U == With(T, out.written)
<1>1. /\ work \in Works /\ DOMAIN T \subseteq work.used /\ Bounded(work.used) /\ Empty \notin work.used
      /\ work.used \in SUBSET Nat
  BY DEF Running, Works
<1>2. CASE update.override = Empty
  <2> DEFINE node == LeafNode(k, update.val)
             id   == LeafNext(work.used)
  <2>1. /\ IsLeaf(node) /\ node.type = "Leaf" /\ node.key = k /\ node.val = update.val
        /\ node.left = Empty /\ node.right = Empty /\ node.hash = LeafHash(node.key, node.val)
    BY DEF LeafNode, EmptyNode, IsLeaf
  <2> HIDE DEF node
  <2>2. out = WriteNew(work, node)
    BY <1>2 DEF LeafFor, node
  <2>3. NextId(work.used, IsLeaf(node)) = id
    BY <2>1, TwoCounters
  <2>4. /\ id \in Nat /\ id # Empty /\ id < FirstInterior /\ id \notin work.used
        /\ RoomAbove(work.used \cup {id}, b + 1)
    BY <1>1, <1>2, NextLeafId
  <2> HIDE DEF id
  <2>5. Writes(work, id, node, out) /\ out.thrown = FALSE /\ out.bubble = FALSE /\ IsOutcome(out)
    BY <2>2, <2>3 DEF WriteNew, Writes, IsOutcome
  <2>6. /\ DOMAIN out.written = {id} /\ out.written[id] = node
        /\ Running(U, out.work) /\ out.work.used = work.used \cup {id}
        /\ out.work.updates = work.updates /\ out.work.output = work.output
        /\ id \in DOMAIN U /\ U[id] = node
        /\ out.built = Reuse(U, id)
    <3>1. Beside(T, With(T, out.written), work, id, node, out)
      BY <2>4, <2>5, WritingOne
    <3> QED  BY <3>1 DEF Beside
  <2>7. StoredLeaf(U, id)
    BY <2>1, <2>6 DEF StoredLeaf
  <2>8. id \in 1 .. FirstInterior - 1
    BY <2>4, FirstInteriorAssumption DEF Empty
  <2> QED  BY <1>2, <2>1, <2>4, <2>5, <2>6, <2>7, <2>8 DEF node, LeafFound
<1>3. CASE update.override # Empty
  <2> DEFINE y == update.override
  <2>1. StoredLeaf(T, y) /\ ParsedNode(T, y) = T[y] /\ IsLeaf(T[y]) /\ y \in DOMAIN T
    BY <1>3 DEF EntryOK, ParsedNode, StoredLeaf, IsLeaf
  <2>2. out = IF T[y].key = k THEN Return(work, Reuse(T, y), FALSE) ELSE Throw(work)
    BY <1>3, <2>1 DEF LeafFor
  <2>3. /\ IsOutcome(out) /\ out.work = work /\ out.written = NoTable
        /\ out.thrown <=> T[y].key # k
        /\ ~out.thrown => out.built = Reuse(T, y) /\ out.bubble = FALSE
    <3>1. CASE T[y].key = k
      BY <2>2, <3>1 DEF Return, IsOutcome
    <3>2. CASE T[y].key # k
      BY <2>2, <3>2 DEF Throw, IsOutcome
    <3> QED  BY <3>1, <3>2
  <2>4. DOMAIN out.written = {} /\ Extends(U, T) /\ DOMAIN U = DOMAIN T
    BY <2>3 DEF With, Extends, NoTable
  <2>5. /\ U[y] = T[y] /\ StoredLeaf(U, y) /\ Reuse(U, y) = Reuse(T, y)
    BY <2>1, <2>4 DEF Extends, StoredLeaf, Reuse, ParsedNode
  <2>6. Running(U, out.work)
    BY <2>3, <2>4 DEF Running
  <2> QED  BY <1>1, <1>3, <2>1, <2>3, <2>4, <2>5, <2>6 DEF LeafFound
<1> QED  BY <1>2, <1>3

(* What the updates of a window are.                                       *)
LEMMA AsksOfWindow ==
  ASSUME NEW work \in Works, NEW begin, NEW end, NEW Q, Q = Asks(work, begin, end), NEW k \in KeySpace
  PROVE  /\ k \in Window(work.updates, begin, end) => /\ Q[k] = work.updates[k] /\ Q[k] \in Update
                                                      /\ Q[k] # NoEntry
         /\ k \notin Window(work.updates, begin, end) => Q[k] = NoEntry
<1>1. work.updates \in [KeySpace -> Update \cup {NoEntry}]
  BY DEF Works
<1>2. k \in Window(work.updates, begin, end) => work.updates[k] # NoEntry
  BY DEF Window, Present
<1>3. Q[k] = IF k \in Window(work.updates, begin, end) THEN work.updates[k] ELSE NoEntry
  BY DEF Asks
<1> QED  BY <1>1, <1>2, <1>3

(* How many leaves are written.                                            *)
LEMMA FreshAreCounted ==
  ASSUME NEW Q
  PROVE  /\ IsFiniteSet(Fresh(Q)) /\ Cardinality(Fresh(Q)) \in Nat
         /\ Fresh(Q) # {} => Cardinality(Fresh(Q)) > 0
<1>1. Fresh(Q) \subseteq 0 .. MapEnd - 1
  BY EndOfMap DEF Fresh
<1>2. IsFiniteSet(0 .. MapEnd - 1)
  BY EndOfMap, FS_Interval
<1>3. IsFiniteSet(Fresh(Q))
  BY <1>1, <1>2, FS_Subset
<1>4. Cardinality(Fresh(Q)) \in Nat
  BY <1>3, FS_CardinalityType
<1>5. Cardinality(Fresh(Q)) = 0 <=> Fresh(Q) = {}
  BY <1>3, FS_EmptySet
<1> QED  BY <1>3, <1>4, <1>5

(* What Asked says of the map of updates.                                  *)
LEMMA AskedOf ==
  ASSUME NEW T, NEW d, NEW I, NEW b, NEW old, NEW begin, NEW end, NEW work,
         Asked(T, d, I, b, old, begin, end, work), NEW k \in KeySpace,
         NEW Q, Q = Asks(work, begin, end)
  PROVE  /\ work \in Works /\ b \in Nat /\ b <= FirstInterior
         /\ Cardinality(Fresh(Q)) \in Nat /\ b + Cardinality(Fresh(Q)) <= FirstInterior
         /\ k \in Fresh(Q) => b < FirstInterior
         /\ Q[k] # NoEntry => /\ k \in Window(work.updates, begin, end) /\ k \in I /\ Q[k] = work.updates[k]
                              /\ Q[k] \in Update /\ EntryOK(T, Q[k], old)
                              /\ Q[k].override = Empty => work.output[k] = Empty
         /\ k \in Window(work.updates, begin, end) => Q[k] # NoEntry
<1>1. /\ work \in Works /\ b \in Nat /\ b + Cardinality(Fresh(Q)) <= FirstInterior
      /\ Window(work.updates, begin, end) \subseteq I
      /\ \A j \in Window(work.updates, begin, end) :
           /\ EntryOK(T, work.updates[j], old)
           /\ work.updates[j].override = Empty => work.output[j] = Empty
  BY DEF Asked, Running, RoomAbove
<1>2. /\ k \in Window(work.updates, begin, end) => /\ Q[k] = work.updates[k] /\ Q[k] \in Update
                                                   /\ Q[k] # NoEntry
      /\ k \notin Window(work.updates, begin, end) => Q[k] = NoEntry
  BY <1>1, AsksOfWindow
<1>3. Cardinality(Fresh(Q)) \in Nat /\ (Fresh(Q) # {} => Cardinality(Fresh(Q)) > 0)
  BY FreshAreCounted
<1>4. FirstInterior \in Nat
  BY FirstInteriorAssumption
<1>5. /\ b <= FirstInterior
      /\ k \in Fresh(Q) => b < FirstInterior
  BY <1>1, <1>3, <1>4
<1> QED  BY <1>1, <1>2, <1>3, <1>5

(* An entry whose key has no leaf but the one that the call met.           *)
LEMMA PutLeafMeets ==
  ASSUME NEW T, NEW d \in 0 .. Depth, NEW I, NEW b, NEW old, NEW begin, NEW end, NEW work,
         Asked(T, d, I, b, old, begin, end, work), NEW k, Window(work.updates, begin, end) = {k},
         ~work.updates[k].deletion, \A x \in old : T[x].key = k, ~Several(old)
  PROVE  Met(T, d, I, b, old, Asks(work, begin, end), work, PutLeaf(T, work, k))
<1> DEFINE Q    == Asks(work, begin, end)
           u    == work.updates[k]
           leaf == LeafFor(T, work, k)
           out  == PutLeaf(T, work, k)
           U    == With(T, leaf.written)
<1>1. k \in KeySpace
  BY WindowsHaveKeys
<1>2. /\ work \in Works /\ b \in Nat /\ Cardinality(Fresh(Q)) \in Nat
      /\ k \in Fresh(Q) => b < FirstInterior
      /\ k \in I /\ Q[k] = u /\ u \in Update /\ u # NoEntry /\ ~u.deletion /\ EntryOK(T, u, old)
      /\ \A j \in KeySpace : j # k => Q[j] = NoEntry
  <2> HIDE DEF Q, u
  <2>1. Q = Asks(work, begin, end)
    BY DEF Q
  <2> QED  BY <1>1, <2>1, AskedOf DEF u
<1>3. RoomAbove(work.used, b) /\ Running(T, work) /\ I \subseteq KeySpace
  BY DEF Asked, Region
<1>4. Cardinality(Fresh(Q)) = IF u.override = Empty THEN 1 ELSE 0
  <2>1. Fresh(Q) = IF u.override = Empty THEN {k} ELSE {}
    <3> HIDE DEF Q, u
    <3> QED  BY <1>1, <1>2 DEF Fresh, NoEntry, Empty, u
  <2> QED  BY <2>1, FS_Singleton, FS_EmptySet
<1>5. k \in Fresh(Q) <=> u.override = Empty
  <2> HIDE DEF Q
  <2> QED  BY <1>1, <1>2 DEF Fresh
<1>6. EntryOK(T, u, {})
  BY <1>2 DEF EntryOK
<1>7. LeafFound(T, U, work, k, u, b, leaf)
  <2> HIDE DEF Q
  <2> QED  BY <1>1, <1>2, <1>3, <1>5, <1>6, LeafForEntry
<1> HIDE DEF leaf, u, Q, U
<1>8. out = IF leaf.thrown THEN leaf ELSE [leaf EXCEPT !.work = Report(leaf.work, k, leaf.built.id)]
  BY DEF PutLeaf, leaf
<1>9. /\ IsOutcome(leaf) /\ Running(U, leaf.work)
      /\ leaf.work.used = work.used \cup DOMAIN leaf.written /\ work.used \cap DOMAIN leaf.written = {}
      /\ leaf.work.updates = work.updates /\ leaf.work.output = work.output
      /\ RoomAbove(leaf.work.used, b + Cardinality(Fresh(Q)))
      /\ \A x \in DOMAIN leaf.written : /\ x \in 1 .. FirstInterior - 1 /\ u.override = Empty
                                        /\ leaf.written[x] = LeafNode(k, u.val)
      /\ leaf.thrown <=> u.override # Empty /\ T[u.override].key # k
  BY <1>2, <1>4, <1>7 DEF LeafFound
<1>10. WrittenOK(T, Q, leaf.written)
  BY <1>2, <1>5, <1>9 DEF WrittenOK, LeafWritten
<1>11. leaf.thrown <=> Refuses(T, Q)
  BY <1>1, <1>2, <1>9 DEF Foreign, Refuses
<1>12. CASE leaf.thrown
  <2>1. out = leaf
    BY <1>8, <1>12
  <2>2. Wrote(T, I, b, Q, work, out)
    BY <1>9, <1>10, <2>1 DEF Wrote, U
  <2> HIDE DEF out
  <2> QED  BY <1>11, <1>12, <2>1, <2>2 DEF Met, Q, out
<1>13. CASE ~leaf.thrown
  <2>1. PICK y \in DOMAIN U : /\ leaf.built = Reuse(U, y) /\ StoredLeaf(U, y) /\ y # Empty
                              /\ U[y].key = k /\ ~leaf.bubble
                              /\ IF u.override = Empty THEN U[y].val = u.val ELSE y = u.override
    BY <1>7, <1>13 DEF LeafFound
  <2>2. leaf.built.id = y
    BY <2>1 DEF Reuse, Built
  <2>3. out = [leaf EXCEPT !.work = Report(leaf.work, k, y)]
    BY <1>8, <1>13, <2>2
  <2>4. /\ IsOutcome(out) /\ out.work = Report(leaf.work, k, y) /\ out.written = leaf.written
        /\ out.built = leaf.built /\ out.bubble = leaf.bubble /\ out.thrown = leaf.thrown
    BY <1>9, <2>3 DEF IsOutcome
  <2>5. leaf.work \in Works /\ y \in Nat
    BY <1>9 DEF Running, Works
  <2>6. /\ out.work \in Works
        /\ out.work.used = leaf.work.used /\ out.work.updates = leaf.work.updates
        /\ out.work.output[k] = y
        /\ \A j \in KeySpace : j # k => out.work.output[j] = work.output[j]
    <3>1. ReportedTo(leaf.work, k, y, Report(leaf.work, k, y))
      BY <1>1, <2>5, Reported
    <3> QED  BY <1>9, <2>4, <3>1 DEF ReportedTo
  <2> HIDE DEF out
  <2>7. Running(U, out.work)
    BY <1>9, <2>6 DEF Running
  <2>8. Wrote(T, I, b, Q, work, out)
    BY <1>9, <1>10, <2>4, <2>6, <2>7 DEF Wrote, U
  <2>9. SubOK(U, y, d) /\ Leaves(U, y) = {y}
    BY <2>1, LeafIsATree
  <2>10. out.built.id = y /\ out.built = Reuse(U, y)
    BY <2>1, <2>2, <2>4
  <2>11. ASSUME NEW j \in KeySpace
         PROVE  Settled(T, U, old, {y}, j, Q[j], work.output[j], out.work.output[j])
    <3>1. CASE j = k
      <4>1. For(U, {y}, j) = {y}
        BY <2>1, <3>1 DEF For
      <4>2. out.work.output[j] = y /\ Q[j] = u /\ u # NoEntry /\ ~u.deletion
        BY <1>2, <2>6, <3>1
      <4> QED  BY <2>1, <4>1, <4>2 DEF Settled
    <3>2. CASE j # k
      <4>1. For(U, {y}, j) = {} /\ For(T, old, j) = {}
        BY <2>1, <3>2 DEF For
      <4>2. Q[j] = NoEntry
        BY <1>2, <3>2
      <4>3. out.work.output[j] = work.output[j]
        BY <2>6, <3>2
      <4> QED  BY <4>1, <4>2, <4>3 DEF Settled
    <3> QED  BY <3>1, <3>2
  <2>12. Right(T, U, d, I, old, Q, work, out)
    BY <1>2, <2>1, <2>9, <2>10, <2>11 DEF Right
  <2> QED  BY <1>11, <1>13, <2>4, <2>8, <2>12 DEF Met, Q, out, U
<1> QED  BY <1>12, <1>13

(* Without a node written, a table is as it was.                           *)
LEMMA NothingWritten ==
  ASSUME NEW T
  PROVE  With(T, NoTable) = T \/ (Extends(With(T, NoTable), T) /\ DOMAIN With(T, NoTable) = DOMAIN T)
BY DEF With, Extends, NoTable

(* Two halves of a tree joined again, or what is left of them moved up.    *)
Joined(U, V, work, d, S, out) ==
  /\ IsOutcome(out) /\ ~out.thrown
  /\ Running(V, out.work) /\ Extends(V, U)
  /\ out.work.used = work.used \cup DOMAIN out.written /\ work.used \cap DOMAIN out.written = {}
  /\ out.work.updates = work.updates /\ out.work.output = work.output
  /\ \A b : RoomAbove(work.used, b) => RoomAbove(out.work.used, b)
  /\ \A x \in DOMAIN out.written : BranchWritten(DOMAIN U, x, out.written[x])
  /\ SubOK(V, out.built.id, d) /\ out.built = Reuse(V, out.built.id) /\ Leaves(V, out.built.id) = S
  /\ out.bubble \/ Several(S)

(* What is moved up is there already.                                      *)
OneOrNone(id) == IF id = Empty THEN {} ELSE {id}

(* It is the one leaf of a tree, or no leaf at all.                        *)
LEMMA MovedUp ==
  ASSUME NEW U, NEW d \in 0 .. Depth, NEW work, Running(U, work), NEW id,
         id # Empty => StoredLeaf(U, id), NEW out, out = Return(work, Reuse(U, id), TRUE)
  PROVE  Joined(U, With(U, out.written), work, d, OneOrNone(id), out)
<1> DEFINE V == With(U, out.written)
           S == OneOrNone(id)
<1>1. /\ IsOutcome(out) /\ ~out.thrown /\ out.work = work /\ out.written = NoTable /\ out.bubble
      /\ out.built = Reuse(U, id)
  BY DEF Return, IsOutcome
<1>2. Extends(V, U) /\ DOMAIN V = DOMAIN U /\ DOMAIN out.written = {}
  BY <1>1 DEF With, Extends, NoTable
<1>3. SubOK(U, id, d) /\ Leaves(U, id) = S
  BY EmptyIsATree, LeafIsATree DEF OneOrNone
<1> HIDE DEF V, S
<1>4. SubOK(V, id, d) /\ Leaves(V, id) = S /\ Reuse(V, id) = Reuse(U, id)
  BY <1>2, <1>3, TreesStay
<1>5. out.built.id = id /\ out.built = Reuse(V, id)
  <2>1. Reuse(U, id).id = id
    BY DEF Reuse, Built
  <2> QED  BY <1>1, <1>4, <2>1
<1>6. Running(V, out.work)
  BY <1>1, <1>2 DEF Running
<1>7. Joined(U, V, work, d, S, out)
  BY <1>1, <1>2, <1>4, <1>5, <1>6 DEF Joined
<1> QED  BY <1>7 DEF V, S

(* A node is written under the next id of its kind.                        *)
LEMMA WritesNext ==
  ASSUME NEW work, NEW node, NEW id, id = NextId(work.used, IsLeaf(node)),
         NEW out, out = WriteNew(work, node)
  PROVE  Writes(work, id, node, out) /\ ~out.thrown /\ ~out.bubble /\ IsOutcome(out)
BY DEF WriteNew, Writes, IsOutcome

(* A new branch, over more leaves than one.                                *)
LEMMA BranchOver ==
  ASSUME NEW U, NEW d \in 0 .. Depth - 1, NEW work, Running(U, work), NEW lid, NEW rid,
         SubOK(U, lid, d + 1), SubOK(U, rid, d + 1), SidesOK(U, lid, rid, d),
         NEW S, S = Leaves(U, lid) \cup Leaves(U, rid), Several(S),
         NEW out, out = WriteNew(work, BranchNode(Reuse(U, lid), Reuse(U, rid)))
  PROVE  Joined(U, With(U, out.written), work, d, S, out)
<1> DEFINE V    == With(U, out.written)
           node == BranchNode(Reuse(U, lid), Reuse(U, rid))
           id   == BranchNext(work.used)
<1>0. /\ work \in Works /\ DOMAIN U \subseteq work.used /\ Bounded(work.used)
      /\ work.used \in SUBSET Nat /\ Depth \in Nat /\ d + 1 \in 0 .. Depth
  BY DepthAssumption DEF Running, Works
<1>1. /\ Reuse(U, lid).id = lid /\ Reuse(U, rid).id = rid
  BY DEF Reuse, Built
<1>2. {lid, rid} \subseteq DOMAIN U \cup {Empty}
  BY <1>0, KindsOfTrees DEF StoredLeaf, StoredBranch
<1>3. lid # Empty \/ rid # Empty
  <2>1. SUFFICES ASSUME lid = Empty, rid = Empty
                 PROVE  FALSE
    OBVIOUS
  <2>2. S = {}
    BY <2>1, EmptyIsATree
  <2> QED  BY <2>2 DEF Several
<1>4. ~IsLeaf(node)
  BY DEF BranchNode, EmptyNode, IsLeaf
<1>5. NextId(work.used, IsLeaf(node)) = id
  <2> HIDE DEF node, id
  <2>1. NextId(work.used, IsLeaf(node)) = BranchNext(work.used)
    BY <1>4, TwoCounters
  <2> QED  BY <2>1 DEF id
<1>6. id \in Nat /\ id # Empty /\ id >= FirstInterior /\ id \notin work.used
  BY <1>0, NextBranchId
<1> HIDE DEF id
<1>7. Writes(work, id, node, out) /\ ~out.thrown /\ ~out.bubble /\ IsOutcome(out)
  <2>1. out = WriteNew(work, node)
    OBVIOUS
  <2> HIDE DEF node
  <2> QED  BY <1>5, <2>1, WritesNext
<1>8. Beside(U, V, work, id, node, out)
  <2> HIDE DEF node
  <2> QED  BY <1>6, <1>7, WritingOne
<1> HIDE DEF V
<1>9. /\ DOMAIN out.written = {id} /\ out.written[id] = node
      /\ Running(V, out.work) /\ out.work.used = work.used \cup {id}
      /\ out.work.updates = work.updates /\ out.work.output = work.output
      /\ id \in DOMAIN V /\ V[id] = node /\ out.built = Reuse(V, id) /\ Extends(V, U)
  BY <1>8 DEF Beside
<1>10. /\ SubOK(V, lid, d + 1) /\ Leaves(V, lid) = Leaves(U, lid) /\ Reuse(V, lid) = Reuse(U, lid)
       /\ \A x \in Leaves(U, lid) : V[x] = U[x]
  BY <1>9, TreesStay
<1>11. /\ SubOK(V, rid, d + 1) /\ Leaves(V, rid) = Leaves(U, rid) /\ Reuse(V, rid) = Reuse(U, rid)
       /\ \A x \in Leaves(U, rid) : V[x] = U[x]
  BY <1>9, TreesStay
<1>12. V[id] = BranchNode(Reuse(V, lid), Reuse(V, rid))
  BY <1>9, <1>10, <1>11
<1>13. SidesOK(V, lid, rid, d)
  BY <1>10, <1>11 DEF SidesOK
<1>14. SubOK(V, id, d) /\ Leaves(V, id) = S
  <2>1. S = Leaves(V, lid) \cup Leaves(V, rid)
    BY <1>10, <1>11
  <2> HIDE DEF node
  <2> QED  BY <1>6, <1>9, <1>10, <1>11, <1>12, <1>13, <2>1, BranchIsATree
<1>15. out.built.id = id
  BY <1>9 DEF Reuse, Built
<1>16. BranchWritten(DOMAIN U, id, node)
  BY <1>1, <1>2, <1>3, <1>6 DEF BranchWritten
<1>17. ASSUME NEW b, RoomAbove(work.used, b)
       PROVE  RoomAbove(out.work.used, b)
  BY <1>6, <1>9, <1>17, FirstInteriorAssumption DEF RoomAbove
<1> HIDE DEF node
<1>18. Joined(U, V, work, d, S, out)
  BY <1>6, <1>7, <1>9, <1>14, <1>15, <1>16, <1>17 DEF Joined
<1> QED  BY <1>18 DEF V

(* Every way to join two halves that have more than one leaf, or of which  *)
(* one may be gone.                                                        *)
LEMMA JoinMeets ==
  ASSUME NEW U, NEW d \in 0 .. Depth - 1, NEW work, Running(U, work), NEW lid, NEW rid,
         SubOK(U, lid, d + 1), SubOK(U, rid, d + 1), SidesOK(U, lid, rid, d),
         NEW S, S = Leaves(U, lid) \cup Leaves(U, rid), NEW check, check \/ Several(S),
         NEW out, out = Join(work, Reuse(U, lid), Reuse(U, rid), check)
  PROVE  Joined(U, With(U, out.written), work, d, S, out)
<1> DEFINE l == Reuse(U, lid)
           r == Reuse(U, rid)
<1>0. Depth \in Nat /\ d + 1 \in 0 .. Depth /\ d \in 0 .. Depth
  BY DepthAssumption
<1>1. /\ l.id = lid /\ l.type # "Witness"
      /\ l.type = "Empty" <=> lid = Empty
      /\ l.type = "Empty" <=> Leaves(U, lid) = {}
      /\ IsLeaf(l) => lid # Empty /\ StoredLeaf(U, lid) /\ Leaves(U, lid) = {lid}
      /\ ~IsLeaf(l) /\ lid # Empty => Several(Leaves(U, lid))
  BY <1>0, TypesOfTrees
<1>2. /\ r.id = rid /\ r.type # "Witness"
      /\ r.type = "Empty" <=> rid = Empty
      /\ r.type = "Empty" <=> Leaves(U, rid) = {}
      /\ IsLeaf(r) => rid # Empty /\ StoredLeaf(U, rid) /\ Leaves(U, rid) = {rid}
      /\ ~IsLeaf(r) /\ rid # Empty => Several(Leaves(U, rid))
  BY <1>0, TypesOfTrees
<1>3. IsLeaf(l) => l.type # "Empty"
  BY <1>1
<1>4. IsLeaf(r) => r.type # "Empty"
  BY <1>2
<1> HIDE DEF l, r
<1>5. out = CASE check /\ "Witness" \in {l.type, r.type}       -> Throw(work)
    [] check /\ {l.type, r.type} = {"Empty"}         -> Return(work, BuiltEmpty, TRUE)
    [] check /\ IsLeaf(l) /\ r.type = "Empty"        -> Return(work, l, TRUE)
    [] check /\ l.type = "Empty" /\ IsLeaf(r)        -> Return(work, r, TRUE)
    [] OTHER -> WriteNew(work, BranchNode(l, r))
  BY DEF Join, l, r
<1>6. CASE check /\ l.type = "Empty" /\ r.type = "Empty"
  <2>1. out = Return(work, BuiltEmpty, TRUE)
    BY <1>3, <1>4, <1>5, <1>6
  <2>2. BuiltEmpty = Reuse(U, Empty) /\ S = OneOrNone(Empty)
    BY <1>1, <1>2, <1>6 DEF BuiltEmpty, Reuse, ParsedNode, OneOrNone
  <2>3. Joined(U, With(U, out.written), work, d, OneOrNone(Empty), out)
    BY <1>0, <2>1, <2>2, MovedUp
  <2> QED  BY <2>2, <2>3
<1>7. CASE check /\ IsLeaf(l) /\ r.type = "Empty"
  <2>1. out = Return(work, Reuse(U, lid), TRUE)
    BY <1>1, <1>2, <1>3, <1>4, <1>5, <1>7 DEF l
  <2>2. S = OneOrNone(lid)
    BY <1>1, <1>2, <1>7 DEF OneOrNone
  <2>3. Joined(U, With(U, out.written), work, d, OneOrNone(lid), out)
    BY <1>0, <1>1, <1>7, <2>1, MovedUp
  <2> QED  BY <2>2, <2>3
<1>8. CASE check /\ l.type = "Empty" /\ IsLeaf(r)
  <2>1. out = Return(work, Reuse(U, rid), TRUE)
    BY <1>1, <1>2, <1>3, <1>4, <1>5, <1>8 DEF r
  <2>2. S = OneOrNone(rid)
    BY <1>1, <1>2, <1>8 DEF OneOrNone
  <2>3. Joined(U, With(U, out.written), work, d, OneOrNone(rid), out)
    BY <1>0, <1>2, <1>8, <2>1, MovedUp
  <2> QED  BY <2>2, <2>3
<1>9. CASE /\ ~(check /\ l.type = "Empty" /\ r.type = "Empty")
           /\ ~(check /\ IsLeaf(l) /\ r.type = "Empty")
           /\ ~(check /\ l.type = "Empty" /\ IsLeaf(r))
  <2>1. out = WriteNew(work, BranchNode(l, r))
    BY <1>1, <1>2, <1>5, <1>9
  <2>2. Several(S)
    <3>1. CASE lid # Empty /\ rid # Empty
      <4>1. Leaves(U, lid) # {} /\ Leaves(U, rid) # {}
        BY <1>0, <3>1, TreesHaveLeaves
      <4>2. PICK x \in Leaves(U, lid), y \in Leaves(U, rid) : TRUE
        BY <4>1
      <4>3. GetBit(U[x].key, d) = 0 /\ GetBit(U[y].key, d) = 1
        BY <4>2 DEF SidesOK
      <4>4. x # y
        BY <4>3
      <4> QED  BY <4>2, <4>4 DEF Several
    <3>2. CASE check /\ lid = Empty
      <4>1. Several(Leaves(U, rid))
        BY <1>1, <1>2, <1>9, <3>2
      <4> QED  BY <4>1 DEF Several
    <3>3. CASE check /\ rid = Empty
      <4>1. Several(Leaves(U, lid))
        BY <1>1, <1>2, <1>9, <3>3
      <4> QED  BY <4>1 DEF Several
    <3> QED  BY <3>1, <3>2, <3>3
  <2> QED  BY <2>1, <2>2, BranchOver DEF l, r
<1> QED  BY <1>6, <1>7, <1>8, <1>9

(* Updates divided in two: every key is asked for on one side at most.     *)
Divided(Q, L, QL, R, QR) ==
  /\ L \subseteq KeySpace /\ R \subseteq KeySpace /\ L \cap R = {}
  /\ \A k \in KeySpace : /\ QL[k] = IF k \in L THEN Q[k] ELSE NoEntry
                         /\ QR[k] = IF k \in R THEN Q[k] ELSE NoEntry
                         /\ k \notin L \cup R => Q[k] = NoEntry

(* So is the number of leaves to write.                                    *)
LEMMA FreshDivided ==
  ASSUME NEW Q, NEW L, NEW QL, NEW R, NEW QR, Divided(Q, L, QL, R, QR)
  PROVE  /\ Fresh(QL) \subseteq Fresh(Q) /\ Fresh(QR) \subseteq Fresh(Q)
         /\ Cardinality(Fresh(Q)) = Cardinality(Fresh(QL)) + Cardinality(Fresh(QR))
<1>1. Fresh(Q) = Fresh(QL) \cup Fresh(QR) /\ Fresh(QL) \cap Fresh(QR) = {}
  <2>1. ASSUME NEW k \in KeySpace
        PROVE  /\ k \in Fresh(Q) <=> k \in Fresh(QL) \/ k \in Fresh(QR)
               /\ ~(k \in Fresh(QL) /\ k \in Fresh(QR))
    BY DEF Divided, Fresh, NoEntry, Empty
  <2>2. Fresh(Q) \subseteq KeySpace /\ Fresh(QL) \subseteq KeySpace /\ Fresh(QR) \subseteq KeySpace
    BY DEF Fresh
  <2> QED  BY <2>1, <2>2
<1>2. IsFiniteSet(Fresh(QL)) /\ IsFiniteSet(Fresh(QR))
  BY FreshAreCounted
<1>3. Cardinality(Fresh(QL) \cup Fresh(QR)) =
        Cardinality(Fresh(QL)) + Cardinality(Fresh(QR)) - Cardinality(Fresh(QL) \cap Fresh(QR))
  <2> DEFINE A == Fresh(QL)
             B == Fresh(QR)
  <2>1. IsFiniteSet(A) /\ IsFiniteSet(B)
    BY <1>2
  <2> HIDE DEF A, B
  <2>2. Cardinality(A \cup B) = Cardinality(A) + Cardinality(B) - Cardinality(A \cap B)
    BY <2>1, FS_Union
  <2> QED  BY <2>2 DEF A, B
<1>4. Cardinality({}) = 0
  BY FS_EmptySet
<1>5. Cardinality(Fresh(QL)) \in Nat /\ Cardinality(Fresh(QR)) \in Nat
  BY FreshAreCounted
<1>6. Cardinality(Fresh(QL) \cap Fresh(QR)) = 0
  BY <1>1, <1>4
<1>7. Fresh(QL) \subseteq Fresh(Q) /\ Fresh(QR) \subseteq Fresh(Q)
  BY <1>1
<1>8. Cardinality(Fresh(Q)) = Cardinality(Fresh(QL)) + Cardinality(Fresh(QR)) - 0
  BY <1>1, <1>3, <1>6
<1> QED  BY <1>5, <1>7, <1>8

(* What two calls write, one after the other, is written by both.          *)
LEMMA WrittenByBoth ==
  ASSUME NEW T, NEW Q, NEW L, NEW QL, NEW R, NEW QR, Divided(Q, L, QL, R, QR),
         NEW V, NEW W, WrittenOK(T, QL, V), WrittenOK(T, QR, W)
  PROVE  WrittenOK(T, Q, With(V, W))
<1> DEFINE ids == DOMAIN T \cup DOMAIN With(V, W)
<1>1. /\ DOMAIN With(V, W) = DOMAIN V \cup DOMAIN W
      /\ \A x \in DOMAIN V : With(V, W)[x] = V[x]
      /\ \A x \in DOMAIN W : x \notin DOMAIN V => With(V, W)[x] = W[x]
  BY DEF With
<1>2. ASSUME NEW x, NEW node
      PROVE  /\ LeafWritten(QL, x, node) => LeafWritten(Q, x, node)
             /\ LeafWritten(QR, x, node) => LeafWritten(Q, x, node)
  <2>1. Fresh(QL) \subseteq Fresh(Q) /\ Fresh(QR) \subseteq Fresh(Q)
    BY FreshDivided
  <2>2. \A k \in Fresh(QL) : QL[k] = Q[k]
    BY DEF Divided, Fresh, NoEntry, Empty
  <2>3. \A k \in Fresh(QR) : QR[k] = Q[k]
    BY DEF Divided, Fresh, NoEntry, Empty
  <2> QED  BY <2>1, <2>2, <2>3 DEF LeafWritten
<1>3. ASSUME NEW x, NEW node
      PROVE  /\ BranchWritten(DOMAIN T \cup DOMAIN V, x, node) => BranchWritten(ids, x, node)
             /\ BranchWritten(DOMAIN T \cup DOMAIN W, x, node) => BranchWritten(ids, x, node)
  BY <1>1 DEF BranchWritten
<1>4. ASSUME NEW x \in DOMAIN With(V, W)
      PROVE  LeafWritten(Q, x, With(V, W)[x]) \/ BranchWritten(ids, x, With(V, W)[x])
  <2>1. CASE x \in DOMAIN V
    BY <1>1, <1>2, <1>3, <2>1 DEF WrittenOK
  <2>2. CASE x \in DOMAIN W /\ x \notin DOMAIN V
    BY <1>1, <1>2, <1>3, <2>2 DEF WrittenOK
  <2> QED  BY <1>1, <1>4, <2>1, <2>2
<1> QED  BY <1>4 DEF WrittenOK

(* A key that is settled in one half, and unknown in the other.            *)
LEMMA SettledInOneHalf ==
  ASSUME NEW T, NEW U, NEW U2, NEW V, NEW old, NEW old2, NEW new, NEW new2, NEW k, NEW q, NEW was, NEW now,
         Settled(T, U, old, new, k, q, was, now), For(T, old2, k) = {}, For(U2, new2, k) = {},
         \A x \in new : V[x] = U[x], \A x \in new2 : V[x] = U2[x]
  PROVE  /\ Settled(T, V, old \cup old2, new \cup new2, k, q, was, now)
         /\ Settled(T, V, old2 \cup old, new2 \cup new, k, q, was, now)
<1>1. For(T, old \cup old2, k) = For(T, old, k)
  BY DEF For
<1>2. For(V, new \cup new2, k) = For(U, new, k)
  BY DEF For
<1>3. old2 \cup old = old \cup old2 /\ new2 \cup new = new \cup new2
  OBVIOUS
<1>4. Settled(T, V, old \cup old2, new \cup new2, k, q, was, now)
  <2>1. CASE q = NoEntry
    BY <1>1, <1>2, <2>1 DEF Settled
  <2>2. CASE q # NoEntry /\ q.deletion
    BY <1>1, <1>2, <2>2 DEF Settled
  <2>3. CASE q # NoEntry /\ ~q.deletion
    <3>1. PICK y \in new : /\ For(U, new, k) = {y}
                           /\ IF q.override = Empty THEN U[y].val = q.val ELSE y = q.override
                           /\ now = y \/ (now = Empty /\ For(T, old, k) = {y})
      BY <2>3 DEF Settled
    <3>2. V[y] = U[y] /\ y \in new \cup new2
      BY <3>1
    <3> QED  BY <1>1, <1>2, <2>3, <3>1, <3>2 DEF Settled
  <2> QED  BY <2>1, <2>2, <2>3
<1> QED  BY <1>3, <1>4

---------------------------------------------------------------------------
(* Calls one level further down.                                           *)

(* What a call is asked when there is a tree at its node.  Below one that  *)
(* is not empty no entry has been passed over.                             *)
Ready(T, d, I, b, id, begin, end, work) ==
  /\ SubOK(T, id, d) /\ Asked(T, d, I, b, Leaves(T, id), begin, end, work)
  /\ id # Empty => \A k \in I : k \in Present(work.updates) => begin <= k

Meets(T, deeper, d) ==
  \A I, b, id, begin, end, work :
    Ready(T, d, I, b, id, begin, end, work) =>
      Met(T, d, I, b, Leaves(T, id), Asks(work, begin, end), work, deeper[PutCall(id, begin, end, work)])

(* A part of a window asks for the keys that it has.                       *)
LEMMA AsksOfPart ==
  ASSUME NEW work, NEW begin, NEW end, NEW work2, NEW begin2, NEW end2, NEW H \in SUBSET KeySpace,
         Window(work2.updates, begin2, end2) = Window(work.updates, begin, end) \cap H,
         \A j \in H : work2.updates[j] = work.updates[j], NEW k \in KeySpace
  PROVE  Asks(work2, begin2, end2)[k] = IF k \in H THEN Asks(work, begin, end)[k] ELSE NoEntry
<1>1. /\ Asks(work2, begin2, end2)[k] =
           IF k \in Window(work2.updates, begin2, end2) THEN work2.updates[k] ELSE NoEntry
      /\ Asks(work, begin, end)[k] =
           IF k \in Window(work.updates, begin, end) THEN work.updates[k] ELSE NoEntry
  BY DEF Asks
<1> QED  BY <1>1

(* The call for the left half.                                             *)
LEMMA LeftIsReady ==
  ASSUME NEW T, NEW d \in 0 .. Depth - 1, NEW I, NEW b, NEW old, NEW begin, NEW end, NEW work,
         Asked(T, d, I, b, old, begin, end, work), NEW m, DividesAt(I, d, work.updates, begin, end, m),
         NEW id, SubOK(T, id, d + 1), Leaves(T, id) \subseteq old,
         \A x \in Leaves(T, id) : GetBit(T[x].key, d) = 0,
         id # Empty => \A k \in I : k \in Present(work.updates) => begin <= k,
         b + Cardinality(Fresh(Asks(work, begin, m))) <= FirstInterior
  PROVE  Ready(T, d + 1, Half(I, d, 0), b, id, begin, m, work)
<1> DEFINE L == Half(I, d, 0)
<1>1. /\ Running(T, work) /\ Region(I, d)
      /\ Window(work.updates, begin, end) \subseteq I
      /\ \A x \in old : x \in DOMAIN T /\ T[x].key \in I
      /\ \A k \in Window(work.updates, begin, end) :
           /\ EntryOK(T, work.updates[k], old)
           /\ work.updates[k].override = Empty => work.output[k] = Empty
      /\ RoomAbove(work.used, b)
  BY DEF Asked
<1>2. Region(L, d + 1) /\ L \subseteq I
  BY <1>1, Halves DEF Half
<1>3. /\ Iterators(work.updates, begin, m) /\ \A k \in L : k < m
      /\ Window(work.updates, begin, m) = Window(work.updates, begin, end) \cap L
  BY DEF DividesAt
<1>4. \A x \in Leaves(T, id) : x \in DOMAIN T /\ T[x].key \in L
  BY <1>1 DEF Half
<1>5. \A k \in Window(work.updates, begin, m) :
        /\ EntryOK(T, work.updates[k], Leaves(T, id))
        /\ work.updates[k].override = Empty => work.output[k] = Empty
  BY <1>1, <1>3 DEF EntryOK
<1> HIDE DEF L
<1>6. Asked(T, d + 1, L, b, Leaves(T, id), begin, m, work)
  BY <1>1, <1>2, <1>3, <1>4, <1>5 DEF Asked
<1>7. Ready(T, d + 1, L, b, id, begin, m, work)
  BY <1>2, <1>6 DEF Ready
<1> QED  BY <1>7 DEF L

(* What the call for one half leaves of the other's work.                  *)
SameBut(work2, work, H) ==
  \A k \in KeySpace \ H : work2.updates[k] = work.updates[k] /\ work2.output[k] = work.output[k]

(* A subtree on one side of a node, whose entries are all before it.       *)
OneSide(T, d, I, old, id, bit, begin, work) ==
  /\ SubOK(T, id, d + 1) /\ Leaves(T, id) \subseteq old
  /\ \A x \in Leaves(T, id) : GetBit(T[x].key, d) = bit
  /\ id # Empty => \A k \in I : k \in Present(work.updates) => begin <= k

(* The call for the right half, which finds the map of updates as the one  *)
(* for the left half leaves it.                                            *)
LEMMA RightIsReady ==
  ASSUME NEW T, NEW d \in 0 .. Depth - 1, NEW I, NEW b, NEW old, NEW begin, NEW end, NEW work,
         Asked(T, d, I, b, old, begin, end, work), NEW m, DividesAt(I, d, work.updates, begin, end, m),
         NEW id, OneSide(T, d, I, old, id, 1, begin, work),
         NEW work2, Running(T, work2), NEW b2, RoomAbove(work2.used, b2),
         SameBut(work2, work, Half(I, d, 0)),
         b2 + Cardinality(Fresh(Asks(work2, m, end))) <= FirstInterior
  PROVE  Ready(T, d + 1, Half(I, d, 1), b2, id, m, end, work2)
<1> DEFINE R == Half(I, d, 1)
<1>0. /\ SubOK(T, id, d + 1) /\ Leaves(T, id) \subseteq old
      /\ \A x \in Leaves(T, id) : GetBit(T[x].key, d) = 1
      /\ id # Empty => \A k \in I : k \in Present(work.updates) => begin <= k
      /\ \A k \in KeySpace \ Half(I, d, 0) : work2.updates[k] = work.updates[k] /\ work2.output[k] = work.output[k]
  BY DEF OneSide, SameBut
<1>1. /\ Region(I, d) /\ \A k \in I : k < end
      /\ Window(work.updates, begin, end) \subseteq I
      /\ \A x \in old : x \in DOMAIN T /\ T[x].key \in I
      /\ \A k \in Window(work.updates, begin, end) :
           /\ EntryOK(T, work.updates[k], old)
           /\ work.updates[k].override = Empty => work.output[k] = Empty
  BY DEF Asked
<1>2. Region(R, d + 1) /\ R \subseteq I /\ R \subseteq KeySpace \ Half(I, d, 0) /\ I \subseteq KeySpace
  <2>1. Region(R, d + 1) /\ Half(I, d, 0) \cap R = {}
    BY <1>1, Halves
  <2>2. I \subseteq KeySpace
    BY <1>1 DEF Region
  <2> QED  BY <2>1, <2>2 DEF Half
<1>3. /\ Iterators(work.updates, m, end)
      /\ Window(work.updates, m, end) = Window(work.updates, begin, end) \cap R
      /\ \A k \in Half(I, d, 0) : k < m
      /\ \A k \in R : k \in Present(work.updates) /\ begin <= k => m <= k
  BY DEF DividesAt
<1>4. /\ m \in Nat /\ end \in Nat /\ MapEnd \in Nat /\ KeySpace \subseteq Nat /\ KeySpace = 0 .. MapEnd - 1
      /\ m <= end /\ end <= MapEnd
  BY <1>3, EndOfMap, WindowsHaveKeys DEF Iterators
<1>5. \A k \in KeySpace : m <= k =>
        (k \in Present(work2.updates) <=> k \in Present(work.updates)) /\ work2.updates[k] = work.updates[k]
  <2>1. \A k \in KeySpace : m <= k => k \notin Half(I, d, 0)
    BY <1>3, <1>4
  <2> QED  BY <1>0, <2>1 DEF Present
<1>6. Iterators(work2.updates, m, end)
  <2>1. \A k \in 0 .. MapEnd : m <= k /\ k # MapEnd => k \in KeySpace
    BY <1>4
  <2> QED  BY <1>3, <1>4, <1>5, <2>1 DEF Iterators
<1>7. Window(work2.updates, m, end) = Window(work.updates, m, end)
  <2>1. Present(work.updates) \subseteq KeySpace /\ Present(work2.updates) \subseteq KeySpace
    BY DEF Present
  <2> QED  BY <1>5, <2>1 DEF Window
<1>8. \A x \in Leaves(T, id) : x \in DOMAIN T /\ T[x].key \in R
  BY <1>0, <1>1 DEF Half
<1>9. \A k \in Window(work2.updates, m, end) :
        /\ EntryOK(T, work2.updates[k], Leaves(T, id))
        /\ work2.updates[k].override = Empty => work2.output[k] = Empty
  <2>1. ASSUME NEW k \in Window(work2.updates, m, end)
        PROVE  /\ EntryOK(T, work2.updates[k], Leaves(T, id))
               /\ work2.updates[k].override = Empty => work2.output[k] = Empty
    <3>1. k \in Window(work.updates, begin, end) /\ k \in R /\ k \in KeySpace \ Half(I, d, 0)
      BY <1>2, <1>3, <1>7, <2>1
    <3>2. EntryOK(T, work.updates[k], old) /\ (work.updates[k].override = Empty => work.output[k] = Empty)
      BY <1>1, <3>1
    <3>3. work2.updates[k] = work.updates[k] /\ work2.output[k] = work.output[k]
      BY <1>0, <3>1
    <3> QED  BY <1>0, <3>2, <3>3 DEF EntryOK
  <2> QED  BY <2>1
<1>10. \A k \in R : k < end
  BY <1>1, <1>2
<1>11. id # Empty => \A k \in R : k \in Present(work2.updates) => m <= k
  <2>1. ASSUME id # Empty, NEW k \in R, k \in Present(work2.updates)
        PROVE  m <= k
    <3>1. k \in KeySpace \ Half(I, d, 0) /\ k \in I
      BY <1>2
    <3>2. k \in Present(work.updates)
      BY <1>0, <2>1, <3>1 DEF Present
    <3>3. begin <= k
      BY <1>0, <2>1, <3>1, <3>2
    <3> QED  BY <1>3, <3>2, <3>3
  <2> QED  BY <2>1
<1> HIDE DEF R
<1>12. Asked(T, d + 1, R, b2, Leaves(T, id), m, end, work2)
  BY <1>2, <1>3, <1>6, <1>7, <1>8, <1>9, <1>10, <1>1 DEF Asked
<1>13. Ready(T, d + 1, R, b2, id, m, end, work2)
  BY <1>0, <1>11, <1>12 DEF Ready
<1> QED  BY <1>13 DEF R

(* The updates of the right half, before and after the left one.           *)
LEMMA RightAsks ==
  ASSUME NEW work, NEW work2, NEW I, NEW d, NEW begin, NEW end, NEW m,
         DividesAt(I, d, work.updates, begin, end, m),
         \A k \in KeySpace \ Half(I, d, 0) : work2.updates[k] = work.updates[k]
  PROVE  Asks(work2, m, end) = Asks(work, m, end)
<1>1. \A k \in Half(I, d, 0) : k < m
  BY DEF DividesAt
<1>2. m \in Nat /\ KeySpace \subseteq Nat
  BY EndOfMap, WindowsHaveKeys DEF DividesAt, Iterators
<1>3. ASSUME NEW k \in KeySpace
      PROVE  /\ k \in Window(work2.updates, m, end) <=> k \in Window(work.updates, m, end)
             /\ k \in Window(work.updates, m, end) => work2.updates[k] = work.updates[k]
  <2>1. CASE m <= k
    <3>1. k \notin Half(I, d, 0)
      BY <1>1, <1>2, <2>1
    <3>2. work2.updates[k] = work.updates[k]
      BY <3>1
    <3> QED  BY <3>2 DEF Window, Present
  <2>2. CASE ~(m <= k)
    BY <2>2 DEF Window
  <2> QED  BY <2>1, <2>2
<1> QED  BY <1>3 DEF Asks

(* The two windows make up the whole one.                                  *)
LEMMA WindowDivided ==
  ASSUME NEW d \in 0 .. Depth - 1, NEW I, Region(I, d), NEW work, NEW begin, NEW end, NEW m,
         Window(work.updates, begin, end) \subseteq I, DividesAt(I, d, work.updates, begin, end, m)
  PROVE  Divided(Asks(work, begin, end), Half(I, d, 0), Asks(work, begin, m),
                 Half(I, d, 1), Asks(work, m, end))
<1> DEFINE L == Half(I, d, 0)
           R == Half(I, d, 1)
           Q == Asks(work, begin, end)
<1>1. I = L \cup R /\ L \cap R = {}
  BY Halves
<1>2. L \subseteq KeySpace /\ R \subseteq KeySpace
  BY DEF Half, Region
<1>3. /\ Window(work.updates, begin, m) = Window(work.updates, begin, end) \cap L
      /\ Window(work.updates, m, end) = Window(work.updates, begin, end) \cap R
  BY DEF DividesAt
<1> HIDE DEF L, R
<1>4. ASSUME NEW k \in KeySpace
      PROVE  /\ Asks(work, begin, m)[k] = IF k \in L THEN Q[k] ELSE NoEntry
             /\ Asks(work, m, end)[k] = IF k \in R THEN Q[k] ELSE NoEntry
             /\ k \notin L \cup R => Q[k] = NoEntry
  BY <1>1, <1>3 DEF Asks
<1> HIDE DEF Q
<1>5. Divided(Q, L, Asks(work, begin, m), R, Asks(work, m, end))
  BY <1>1, <1>2, <1>4 DEF Divided
<1> QED  BY <1>5 DEF Q, L, R

(* A region's keys that one half or the other refuses.                     *)
LEMMA ForeignDivided ==
  ASSUME NEW T, NEW Q, NEW L, NEW QL, NEW R, NEW QR, Divided(Q, L, QL, R, QR)
  PROVE  Refuses(T, Q) <=> Refuses(T, QL) \/ Refuses(T, QR)
BY DEF Divided, Foreign, Refuses

(* More ids leave less room.                                               *)
LEMMA WrittenByOne ==
  ASSUME NEW T, NEW Q, NEW L, NEW QL, NEW R, NEW QR, Divided(Q, L, QL, R, QR),
         NEW V, WrittenOK(T, QL, V)
  PROVE  WrittenOK(T, Q, V)
<1>1. Fresh(QL) \subseteq Fresh(Q)
  BY FreshDivided
<1>2. \A k \in Fresh(QL) : QL[k] = Q[k]
  BY DEF Divided, Fresh, NoEntry, Empty
<1>3. ASSUME NEW x, NEW node, LeafWritten(QL, x, node)
      PROVE  LeafWritten(Q, x, node)
  BY <1>1, <1>2, <1>3 DEF LeafWritten
<1> QED  BY <1>3 DEF WrittenOK

(* What has been written when the left half throws, ...                    *)
LEMMA WroteLeft ==
  ASSUME NEW T, NEW Q, NEW L, NEW QL, NEW R, NEW QR, Divided(Q, L, QL, R, QR),
         NEW I, L \subseteq I, NEW b, b \in Nat, NEW work, NEW left, Wrote(T, L, b, QL, work, left)
  PROVE  Wrote(T, I, b, Q, work, left)
<1>1. Cardinality(Fresh(Q)) = Cardinality(Fresh(QL)) + Cardinality(Fresh(QR))
  BY FreshDivided
<1>2. Cardinality(Fresh(QL)) \in Nat /\ Cardinality(Fresh(QR)) \in Nat
  BY FreshAreCounted
<1>3. left.work.used \in SUBSET Nat
  BY DEF Wrote, Running, Works
<1>4. RoomAbove(left.work.used, b + Cardinality(Fresh(QL)))
  BY DEF Wrote
<1>5. RoomAbove(left.work.used, b + Cardinality(Fresh(Q)))
  <2> DEFINE n == Cardinality(Fresh(QL))
             r == Cardinality(Fresh(QR))
  <2>1. n \in Nat /\ r \in Nat /\ Cardinality(Fresh(Q)) = n + r /\ RoomAbove(left.work.used, b + n)
    BY <1>1, <1>2, <1>4
  <2> HIDE DEF n, r
  <2> QED  BY <1>3, <2>1, FirstInteriorAssumption DEF RoomAbove
<1>6. WrittenOK(T, Q, left.written)
  <2>1. WrittenOK(T, QL, left.written)
    BY DEF Wrote
  <2> QED  BY <2>1, WrittenByOne
<1> QED  BY <1>5, <1>6 DEF Wrote

(* ... when both halves are done, ...                                      *)
LEMMA WroteBoth ==
  ASSUME NEW T, NEW Q, NEW L, NEW QL, NEW R, NEW QR, Divided(Q, L, QL, R, QR),
         NEW I, L \subseteq I, R \subseteq I, NEW b \in Nat, NEW work,
         NEW left, Wrote(T, L, b, QL, work, left),
         NEW right, Wrote(T, R, b + Cardinality(Fresh(QL)), QR, left.work, right)
  PROVE  Wrote(T, I, b, Q, work, Then(left, right))
<1> DEFINE out == Then(left, right)
<1>1. /\ IsOutcome(right) /\ Running(With(T, right.written), right.work)
      /\ right.work.used = left.work.used \cup DOMAIN right.written
      /\ left.work.used \cap DOMAIN right.written = {}
      /\ RoomAbove(right.work.used, b + Cardinality(Fresh(QL)) + Cardinality(Fresh(QR)))
      /\ \A k \in KeySpace \ R : right.work.updates[k] = left.work.updates[k]
      /\ WrittenOK(T, QR, right.written)
  BY DEF Wrote
<1>2. /\ Running(With(T, left.written), left.work)
      /\ left.work.used = work.used \cup DOMAIN left.written
      /\ work.used \cap DOMAIN left.written = {}
      /\ \A k \in KeySpace \ L : left.work.updates[k] = work.updates[k]
      /\ WrittenOK(T, QL, left.written)
  BY DEF Wrote
<1>3. /\ IsOutcome(out) /\ out.work = right.work /\ out.written = With(left.written, right.written)
  BY <1>1 DEF Then, IsOutcome
<1> HIDE DEF out
<1>4. DOMAIN out.written = DOMAIN left.written \cup DOMAIN right.written
  BY <1>3 DEF With
<1>5. Running(With(T, out.written), out.work)
  <2>1. DOMAIN With(T, out.written) = DOMAIN T \cup DOMAIN out.written
    BY DEF With
  <2>2. /\ DOMAIN With(T, right.written) = DOMAIN T \cup DOMAIN right.written
        /\ DOMAIN With(T, left.written) = DOMAIN T \cup DOMAIN left.written
    BY DEF With
  <2> QED  BY <1>1, <1>2, <1>3, <1>4, <2>1, <2>2 DEF Running
<1>6. /\ out.work.used = work.used \cup DOMAIN out.written
      /\ work.used \cap DOMAIN out.written = {}
  BY <1>1, <1>2, <1>3, <1>4
<1>7. RoomAbove(out.work.used, b + Cardinality(Fresh(Q)))
  <2> DEFINE n == Cardinality(Fresh(QL))
             r == Cardinality(Fresh(QR))
  <2>1. n \in Nat /\ r \in Nat
    BY FreshAreCounted
  <2>2. Cardinality(Fresh(Q)) = n + r
    BY FreshDivided
  <2>3. RoomAbove(right.work.used, b + n + r)
    BY <1>1
  <2> HIDE DEF n, r
  <2>4. b + n + r = b + Cardinality(Fresh(Q))
    BY <2>1, <2>2
  <2> QED  BY <1>3, <2>3, <2>4
<1>8. \A k \in KeySpace \ I : out.work.updates[k] = work.updates[k]
  BY <1>1, <1>2, <1>3
<1>9. WrittenOK(T, Q, out.written)
  BY <1>1, <1>2, <1>3, WrittenByBoth
<1>10. Wrote(T, I, b, Q, work, out)
  BY <1>3, <1>5, <1>6, <1>7, <1>8, <1>9 DEF Wrote
<1> QED  BY <1>10 DEF out

(* ... and when they are joined.                                           *)
LEMMA WroteJoined ==
  ASSUME NEW T, NEW Q, NEW I, NEW b, NEW work, NEW both, Wrote(T, I, b, Q, work, both),
         NEW V, NEW d, NEW S, NEW j, Joined(With(T, both.written), V, both.work, d, S, j)
  PROVE  Wrote(T, I, b, Q, work, Then(both, j))
<1> DEFINE out == Then(both, j)
           U   == With(T, both.written)
<1>1. /\ Running(U, both.work)
      /\ both.work.used = work.used \cup DOMAIN both.written
      /\ work.used \cap DOMAIN both.written = {}
      /\ RoomAbove(both.work.used, b + Cardinality(Fresh(Q)))
      /\ \A k \in KeySpace \ I : both.work.updates[k] = work.updates[k]
      /\ WrittenOK(T, Q, both.written)
  BY DEF Wrote
<1>2. /\ IsOutcome(j) /\ Running(V, j.work)
      /\ j.work.used = both.work.used \cup DOMAIN j.written /\ both.work.used \cap DOMAIN j.written = {}
      /\ j.work.updates = both.work.updates
      /\ \A c : RoomAbove(both.work.used, c) => RoomAbove(j.work.used, c)
      /\ \A x \in DOMAIN j.written : BranchWritten(DOMAIN U, x, j.written[x])
  BY DEF Joined
<1>3. IsOutcome(out) /\ out.work = j.work /\ out.written = With(both.written, j.written)
  BY <1>2 DEF Then, IsOutcome
<1> HIDE DEF out
<1>4. /\ DOMAIN out.written = DOMAIN both.written \cup DOMAIN j.written
      /\ \A x \in DOMAIN both.written : out.written[x] = both.written[x]
      /\ \A x \in DOMAIN j.written : x \notin DOMAIN both.written => out.written[x] = j.written[x]
  BY <1>3 DEF With
<1>5. /\ DOMAIN U = DOMAIN T \cup DOMAIN both.written
      /\ DOMAIN With(T, out.written) = DOMAIN T \cup DOMAIN out.written
  BY DEF With
<1> HIDE DEF U
<1>6. Running(With(T, out.written), out.work)
  BY <1>1, <1>2, <1>3, <1>4, <1>5 DEF Running
<1>7. ASSUME NEW x, NEW node, BranchWritten(DOMAIN U, x, node)
      PROVE  BranchWritten(DOMAIN T \cup DOMAIN out.written, x, node)
  BY <1>4, <1>5, <1>7 DEF BranchWritten
<1>8. ASSUME NEW x \in DOMAIN out.written
      PROVE  LeafWritten(Q, x, out.written[x]) \/
               BranchWritten(DOMAIN T \cup DOMAIN out.written, x, out.written[x])
  <2>1. CASE x \in DOMAIN both.written
    <3>1. LeafWritten(Q, x, both.written[x]) \/
            BranchWritten(DOMAIN T \cup DOMAIN both.written, x, both.written[x])
      BY <1>1, <2>1 DEF WrittenOK
    <3> QED  BY <1>4, <1>5, <1>7, <2>1, <3>1
  <2>2. CASE x \in DOMAIN j.written /\ x \notin DOMAIN both.written
    BY <1>2, <1>4, <1>7, <2>2
  <2> QED  BY <1>4, <2>1, <2>2
<1>9. WrittenOK(T, Q, out.written)
  BY <1>8 DEF WrittenOK
<1>10. /\ out.work.used = work.used \cup DOMAIN out.written /\ work.used \cap DOMAIN out.written = {}
       /\ RoomAbove(out.work.used, b + Cardinality(Fresh(Q)))
       /\ \A k \in KeySpace \ I : out.work.updates[k] = work.updates[k]
  BY <1>1, <1>2, <1>3, <1>4
<1>11. Wrote(T, I, b, Q, work, out)
  BY <1>3, <1>6, <1>9, <1>10 DEF Wrote
<1> QED  BY <1>11 DEF out

(* What is written in turn is written beside what was there.               *)
LEMMA ThenAssociates ==
  ASSUME NEW left, NEW right, NEW j, IsOutcome(right), IsOutcome(j)
  PROVE  Then(left, Then(right, j)) = Then(Then(left, right), j)
<1>1. With(left.written, With(right.written, j.written)) = With(With(left.written, right.written), j.written)
  BY TablesAssociate
<1>2. /\ Then(left, Then(right, j)) = [j EXCEPT !.written = With(left.written, With(right.written, j.written))]
      /\ Then(Then(left, right), j) = [j EXCEPT !.written = With(With(left.written, right.written), j.written)]
  BY DEF Then, IsOutcome
<1> QED  BY <1>1, <1>2

(* The tables of the two halves are parts of the one of both.              *)
LEMMA BothExtend ==
  ASSUME NEW T, NEW work, Running(T, work), NEW work2, NEW V, NEW W,
         work2.used = work.used \cup DOMAIN V, work.used \cap DOMAIN V = {}, work2.used \cap DOMAIN W = {}
  PROVE  /\ Extends(With(T, With(V, W)), With(T, V))
         /\ Extends(With(T, With(V, W)), With(T, W))
<1>1. DOMAIN T \subseteq work.used
  BY DEF Running
<1>2. /\ DOMAIN T \cap DOMAIN V = {} /\ DOMAIN T \cap DOMAIN W = {} /\ DOMAIN V \cap DOMAIN W = {}
  BY <1>1
<1> QED  BY <1>2 DEF With, Extends

(* Two new halves: their trees, side by side.                              *)
Halved(U, d, I, l, r) ==
  /\ SubOK(U, l.id, d + 1) /\ SubOK(U, r.id, d + 1) /\ l = Reuse(U, l.id) /\ r = Reuse(U, r.id)
  /\ SidesOK(U, l.id, r.id, d)
  /\ \A x \in Leaves(U, l.id) \cup Leaves(U, r.id) : U[x].key \in I

(* What each half had by itself, it has when both have been written.       *)
Found(U, UL, UR, d, I, l, r) ==
  /\ Halved(U, d, I, l, r)
  /\ Leaves(U, l.id) = Leaves(UL, l.id) /\ Leaves(U, r.id) = Leaves(UR, r.id)
  /\ \A x \in Leaves(UL, l.id) : U[x] = UL[x]
  /\ \A x \in Leaves(UR, r.id) : U[x] = UR[x]

(* The leaves of the one half are told from those of the other.            *)
LEMMA BothHalves ==
  ASSUME NEW T, NEW d, NEW I, NEW UL, NEW UR, NEW U, Extends(U, UL), Extends(U, UR),
         NEW oldL, NEW QL, NEW work, NEW left, Right(T, UL, d + 1, Half(I, d, 0), oldL, QL, work, left),
         NEW oldR, NEW QR, NEW right, Right(T, UR, d + 1, Half(I, d, 1), oldR, QR, left.work, right)
  PROVE  Found(U, UL, UR, d, I, left.built, right.built)
<1>1. /\ SubOK(UL, left.built.id, d + 1) /\ left.built = Reuse(UL, left.built.id)
      /\ \A x \in Leaves(UL, left.built.id) : UL[x].key \in Half(I, d, 0)
  BY DEF Right
<1>2. /\ SubOK(UR, right.built.id, d + 1) /\ right.built = Reuse(UR, right.built.id)
      /\ \A x \in Leaves(UR, right.built.id) : UR[x].key \in Half(I, d, 1)
  BY DEF Right
<1>3. /\ SubOK(U, left.built.id, d + 1) /\ Leaves(U, left.built.id) = Leaves(UL, left.built.id)
      /\ Reuse(U, left.built.id) = Reuse(UL, left.built.id)
      /\ \A x \in Leaves(UL, left.built.id) : U[x] = UL[x]
  BY <1>1, TreesStay
<1>4. /\ SubOK(U, right.built.id, d + 1) /\ Leaves(U, right.built.id) = Leaves(UR, right.built.id)
      /\ Reuse(U, right.built.id) = Reuse(UR, right.built.id)
      /\ \A x \in Leaves(UR, right.built.id) : U[x] = UR[x]
  BY <1>2, TreesStay
<1>5. /\ \A x \in Leaves(U, left.built.id) : U[x].key \in Half(I, d, 0)
      /\ \A x \in Leaves(U, right.built.id) : U[x].key \in Half(I, d, 1)
  BY <1>1, <1>2, <1>3, <1>4
<1>6. SidesOK(U, left.built.id, right.built.id, d)
  BY <1>5 DEF SidesOK, Half
<1>7. \A x \in Leaves(U, left.built.id) \cup Leaves(U, right.built.id) : U[x].key \in I
  BY <1>5 DEF Half
<1> QED  BY <1>1, <1>2, <1>3, <1>4, <1>6, <1>7 DEF Halved, Found

(* Each key is settled by the call for its half.                           *)
LEMMA SettledByHalves ==
  ASSUME NEW T, NEW d, NEW I, NEW UL, NEW UR, NEW V,
         NEW oldL, NEW oldR, \A x \in oldL : T[x].key \in Half(I, d, 0), \A x \in oldR : T[x].key \in Half(I, d, 1),
         NEW Q, NEW QL, NEW QR, Divided(Q, Half(I, d, 0), QL, Half(I, d, 1), QR),
         NEW work, NEW left, Right(T, UL, d + 1, Half(I, d, 0), oldL, QL, work, left),
         NEW right, Right(T, UR, d + 1, Half(I, d, 1), oldR, QR, left.work, right),
         \A x \in Leaves(UL, left.built.id) : V[x] = UL[x],
         \A x \in Leaves(UR, right.built.id) : V[x] = UR[x], NEW k \in KeySpace
  PROVE  Settled(T, V, oldL \cup oldR, Leaves(UL, left.built.id) \cup Leaves(UR, right.built.id), k, Q[k],
                 work.output[k], right.work.output[k])
<1> DEFINE newL == Leaves(UL, left.built.id)
           newR == Leaves(UR, right.built.id)
           L == Half(I, d, 0)
           R == Half(I, d, 1)
           was == work.output[k]
           mid == left.work.output[k]
           now == right.work.output[k]
<1>1. /\ \A x \in newL : UL[x].key \in L
      /\ Settled(T, UL, oldL, newL, k, QL[k], was, mid)
  BY DEF Right
<1>2. /\ \A x \in newR : UR[x].key \in R
      /\ Settled(T, UR, oldR, newR, k, QR[k], mid, now)
  BY DEF Right
<1>3. /\ L \cap R = {}
      /\ QL[k] = IF k \in L THEN Q[k] ELSE NoEntry
      /\ QR[k] = IF k \in R THEN Q[k] ELSE NoEntry
      /\ k \notin L \cup R => Q[k] = NoEntry
  BY DEF Divided
<1>4. (\A x \in oldL : T[x].key \in L) /\ (\A x \in oldR : T[x].key \in R)
  OBVIOUS
<1>0. (\A x \in newL : V[x] = UL[x]) /\ (\A x \in newR : V[x] = UR[x])
  OBVIOUS
<1> HIDE DEF L, R, was, mid, now, newL, newR
<1>5. k \notin L => For(T, oldL, k) = {} /\ For(UL, newL, k) = {}
  BY <1>1, <1>4 DEF For
<1>6. k \notin R => For(T, oldR, k) = {} /\ For(UR, newR, k) = {}
  BY <1>2, <1>4 DEF For
<1>7. CASE k \notin L
  <2>1. QL[k] = NoEntry
    BY <1>3, <1>7
  <2>2. mid = was
    BY <1>1, <1>5, <1>7, <2>1 DEF Settled
  <2>3. Q[k] = QR[k]
    BY <1>3, <1>7
  <2>4. Settled(T, V, oldL \cup oldR, newL \cup newR, k, QR[k], mid, now)
    BY <1>0, <1>2, <1>5, <1>7, SettledInOneHalf
  <2> QED  BY <2>2, <2>3, <2>4 DEF was, now, newL, newR
<1>8. CASE k \notin R
  <2>1. QR[k] = NoEntry
    BY <1>3, <1>8
  <2>2. now = mid
    BY <1>2, <1>6, <1>8, <2>1 DEF Settled
  <2>3. Q[k] = QL[k]
    BY <1>3, <1>8
  <2>4. Settled(T, V, oldL \cup oldR, newL \cup newR, k, QL[k], was, mid)
    BY <1>0, <1>1, <1>6, <1>8, SettledInOneHalf
  <2> QED  BY <2>2, <2>3, <2>4 DEF was, now, newL, newR
<1> QED  BY <1>3, <1>7, <1>8

(* Keys with a leaf each have more leaves than one.                        *)
TwoPuts(Q) ==
  \E j, k \in KeySpace : /\ j # k /\ Q[j] # NoEntry /\ ~Q[j].deletion
                         /\ Q[k] # NoEntry /\ ~Q[k].deletion

(* Two puts do, and so do two leaves of which none was to move up.         *)
LEMMA LeavesRemain ==
  ASSUME NEW T, NEW V, NEW old, NEW S, NEW Q, NEW was, NEW now,
         \A k \in KeySpace : Settled(T, V, old, S, k, Q[k], was[k], now[k]), TwoPuts(Q)
  PROVE  Several(S)
<1>1. PICK j \in KeySpace, k \in KeySpace :
        j # k /\ Q[j] # NoEntry /\ ~Q[j].deletion /\ Q[k] # NoEntry /\ ~Q[k].deletion
  BY DEF TwoPuts
<1>2. PICK x \in S : For(V, S, j) = {x}
  BY <1>1 DEF Settled
<1>3. PICK y \in S : For(V, S, k) = {y}
  BY <1>1 DEF Settled
<1>4. V[x].key = j /\ V[y].key = k
  BY <1>2, <1>3 DEF For
<1> QED  BY <1>1, <1>4 DEF Several

(* The leaves of a branch of which neither half was to move up.            *)
LEMMA HalvesRemain ==
  ASSUME NEW U, NEW d, NEW I, NEW l, NEW r, Halved(U, d, I, l, r), NEW oldL, NEW oldR,
         oldL # {} => Leaves(U, l.id) # {}, oldR # {} => Leaves(U, r.id) # {},
         Several(oldL) => Several(Leaves(U, l.id)), Several(oldR) => Several(Leaves(U, r.id)),
         Several(oldL \cup oldR)
  PROVE  Several(Leaves(U, l.id) \cup Leaves(U, r.id))
<1>1. PICK x \in oldL \cup oldR, y \in oldL \cup oldR : x # y
  BY DEF Several
<1>2. CASE x \in oldL /\ y \in oldL
  BY <1>1, <1>2 DEF Several
<1>3. CASE x \in oldR /\ y \in oldR
  BY <1>1, <1>3 DEF Several
<1>4. CASE oldL # {} /\ oldR # {}
  <2>1. PICK v \in Leaves(U, l.id), w \in Leaves(U, r.id) : TRUE
    BY <1>4
  <2>2. GetBit(U[v].key, d) = 0 /\ GetBit(U[w].key, d) = 1
    BY <2>1 DEF Halved, SidesOK
  <2>3. v # w
    BY <2>2
  <2> QED  BY <2>1, <2>3 DEF Several
<1> QED  BY <1>2, <1>3, <1>4

(* The whole of putAux below a node: the halves of the window go to its    *)
(* two children, and what they return is joined.                           *)
Below(T, d, I, old, node, begin, work) ==
  /\ SubOK(T, node.left, d + 1) /\ SubOK(T, node.right, d + 1) /\ SidesOK(T, node.left, node.right, d)
  /\ old = Leaves(T, node.left) \cup Leaves(T, node.right)
  /\ node.left # Empty \/ node.right # Empty =>
       \A k \in I : k \in Present(work.updates) => begin <= k

ManyLeft(T, out) ==
  out.thrown \/ out.bubble \/ Several(Leaves(With(T, out.written), out.built.id))

MetWithMany(T, d, I, b, old, Q, work, out) == Met(T, d, I, b, old, Q, work, out) /\ ManyLeft(T, out)

(* It meets what is asked, if something is deleted or more than one leaf   *)
(* is left.                                                                *)
LEMMA PutBelowMeets ==
  ASSUME NEW T, NEW d \in 0 .. Depth - 1, NEW I, NEW b, NEW old, NEW begin, NEW end, NEW work,
         Asked(T, d, I, b, old, begin, end, work), NEW deeper, Meets(T, deeper, d + 1),
         NEW node, Below(T, d, I, old, node, begin, work),
         NEW check, check \/ Several(old) \/ TwoPuts(Asks(work, begin, end))
  PROVE  MetWithMany(T, d, I, b, old, Asks(work, begin, end), work,
                     PutBelow(Frame(T, d, deeper), node, begin, end, work, check))
<1> DEFINE L     == Half(I, d, 0)
           R     == Half(I, d, 1)
           m     == Middle(work.updates, begin, end, d)
           Q     == Asks(work, begin, end)
           QL    == Asks(work, begin, m)
           QR    == Asks(work, m, end)
           oldL  == Leaves(T, node.left)
           oldR  == Leaves(T, node.right)
           left  == deeper[PutCall(node.left, begin, m, work)]
           right == deeper[PutCall(node.right, m, end, left.work)]
           out   == PutBelow(Frame(T, d, deeper), node, begin, end, work, check)
           c     == b + Cardinality(Fresh(QL))
<1>1. /\ Running(T, work) /\ Region(I, d) /\ (\A k \in I : k < end)
      /\ Iterators(work.updates, begin, end) /\ Window(work.updates, begin, end) \subseteq I
      /\ RoomAbove(work.used, b) /\ b + Cardinality(Fresh(Q)) <= FirstInterior
      /\ \A x \in old : x \in DOMAIN T /\ T[x].key \in I
  BY DEF Asked
<1>2. DividesAt(I, d, work.updates, begin, end, m)
  <2> HIDE DEF m
  <2>1. DividesAt(I, d, work.updates, begin, end, Middle(work.updates, begin, end, d))
    BY <1>1, MiddleDivides
  <2> QED  BY <2>1 DEF m
<1>3. out = IF left.thrown THEN left
            ELSE IF right.thrown THEN Then(left, right)
            ELSE Then(left, Then(right,
                   Join(right.work, left.built, right.built, check \/ left.bubble \/ right.bubble)))
  BY DEF PutBelow, Frame, Middle
<1> HIDE DEF m, out
<1>4. Divided(Q, L, QL, R, QR)
  BY <1>1, <1>2, WindowDivided
<1>5. /\ SubOK(T, node.left, d + 1) /\ SubOK(T, node.right, d + 1) /\ SidesOK(T, node.left, node.right, d)
      /\ old = oldL \cup oldR
      /\ node.left # Empty \/ node.right # Empty => \A k \in I : k \in Present(work.updates) => begin <= k
  BY DEF Below
<1>6. /\ b \in Nat /\ Cardinality(Fresh(QL)) \in Nat /\ Cardinality(Fresh(QR)) \in Nat
      /\ Cardinality(Fresh(Q)) = Cardinality(Fresh(QL)) + Cardinality(Fresh(QR))
      /\ FirstInterior \in Nat
  BY <1>1, <1>4, FreshDivided, FreshAreCounted, FirstInteriorAssumption DEF RoomAbove
<1>7. b + Cardinality(Fresh(QL)) <= FirstInterior /\ c + Cardinality(Fresh(QR)) <= FirstInterior /\ c \in Nat
  <2> DEFINE n == Cardinality(Fresh(QL))
             r == Cardinality(Fresh(QR))
  <2>1. n \in Nat /\ r \in Nat /\ b + (n + r) <= FirstInterior
    BY <1>1, <1>6
  <2> HIDE DEF n, r
  <2> QED  BY <1>6, <2>1 DEF n, r
<1>8. /\ \A x \in oldL : GetBit(T[x].key, d) = 0
      /\ \A x \in oldR : GetBit(T[x].key, d) = 1
      /\ \A x \in oldL : T[x].key \in L
      /\ \A x \in oldR : T[x].key \in R
  BY <1>1, <1>5 DEF SidesOK, Half
<1>9. L \subseteq I /\ R \subseteq I /\ I \subseteq KeySpace /\ L \subseteq KeySpace /\ R \cap L = {}
  BY <1>1, <1>4 DEF Half, Region, Divided
<1>10. Met(T, d + 1, L, b, oldL, QL, work, left)
  <2>1. oldL \subseteq old
    BY <1>5
  <2>2. Ready(T, d + 1, L, b, node.left, begin, m, work)
    BY <1>2, <1>5, <1>7, <1>8, <2>1, LeftIsReady
  <2> HIDE DEF L
  <2> QED  BY <2>2 DEF Meets
<1>11. Wrote(T, L, b, QL, work, left)
  BY <1>10 DEF Met
<1>12. left.thrown <=> Refuses(T, QL)
  BY <1>10 DEF Met
<1>13. CASE left.thrown
  <2>1. Wrote(T, I, b, Q, work, left)
    <3> HIDE DEF L, R, QL, QR, Q, left
    <3> QED  BY <1>4, <1>6, <1>9, <1>11, WroteLeft
  <2>2. Refuses(T, Q)
    <3> HIDE DEF L, R, QL, QR, Q, left
    <3> QED  BY <1>4, <1>12, <1>13, ForeignDivided
  <2>3. out = left
    BY <1>3, <1>13
  <2> HIDE DEF left, Q
  <2>4. Met(T, d, I, b, old, Q, work, left)
    BY <1>13, <2>1, <2>2 DEF Met
  <2>5. ManyLeft(T, left)
    BY <1>13 DEF ManyLeft
  <2> QED  BY <2>3, <2>4, <2>5 DEF Q, out, MetWithMany
<1>14. CASE ~left.thrown
  <2> DEFINE UL == With(T, left.written)
             UR == With(T, right.written)
             U  == With(T, With(left.written, right.written))
  <2>1. Right(T, UL, d + 1, L, oldL, QL, work, left)
    BY <1>10, <1>14 DEF Met
  <2>2. /\ Running(T, left.work) /\ RoomAbove(left.work.used, c)
        /\ \A k \in KeySpace \ L : left.work.updates[k] = work.updates[k]
    <3>1. Running(T, work) /\ Running(With(T, left.written), left.work)
          /\ left.work.used = work.used \cup DOMAIN left.written
      BY <1>1, <1>11 DEF Wrote
    <3>2. RoomAbove(left.work.used, b + Cardinality(Fresh(QL)))
          /\ \A k \in KeySpace \ L : left.work.updates[k] = work.updates[k]
      BY <1>11 DEF Wrote
    <3> HIDE DEF left, L
    <3>3. Running(T, left.work)
      BY <3>1 DEF Running
    <3> QED  BY <3>2, <3>3
  <2>3. \A k \in KeySpace \ L : left.work.output[k] = work.output[k]
    <3>1. ASSUME NEW k \in KeySpace, k \notin L
          PROVE  left.work.output[k] = work.output[k]
      <4>1. QL[k] = NoEntry
        BY <1>4, <3>1 DEF Divided
      <4>2. For(T, oldL, k) = {}
        <5> HIDE DEF L, oldL
        <5> QED  BY <1>8, <3>1 DEF For
      <4>3. Settled(T, UL, oldL, Leaves(UL, left.built.id), k, QL[k], work.output[k], left.work.output[k])
        BY <2>1 DEF Right
      <4> HIDE DEF QL, oldL, left
      <4> QED  BY <4>1, <4>2, <4>3 DEF Settled
    <3> QED  BY <3>1
  <2>4. Asks(left.work, m, end) = QR
    <3> HIDE DEF left
    <3> QED  BY <1>2, <2>2, RightAsks
  <2>5. Met(T, d + 1, R, c, oldR, QR, left.work, right)
    <3>1. oldR \subseteq old
      BY <1>5
    <3>2. \A k \in KeySpace \ L : /\ left.work.updates[k] = work.updates[k]
                                  /\ left.work.output[k] = work.output[k]
      BY <2>2, <2>3
    <3> DEFINE work2 == left.work
    <3>3. Ready(T, d + 1, R, c, node.right, m, end, work2)
      <4>1. c + Cardinality(Fresh(Asks(work2, m, end))) <= FirstInterior
        BY <1>7, <2>4
      <4>2. Running(T, work2) /\ RoomAbove(work2.used, c) /\ SameBut(work2, work, Half(I, d, 0))
        BY <2>2, <3>2 DEF SameBut
      <4> HIDE DEF work2, c
      <4>3. OneSide(T, d, I, old, node.right, 1, begin, work)
        BY <1>5, <1>8, <3>1 DEF OneSide
      <4> QED  BY <1>2, <4>1, <4>2, <4>3, RightIsReady
    <3> HIDE DEF R, c
    <3>4. Met(T, d + 1, R, c, oldR, Asks(work2, m, end), work2, right)
      BY <3>3 DEF Meets
    <3> QED  BY <2>4, <3>4
  <2>6. /\ Wrote(T, R, c, QR, left.work, right)
        /\ right.thrown <=> Refuses(T, QR)
    BY <2>5 DEF Met
  <2> DEFINE both == Then(left, right)
  <2>7. Wrote(T, I, b, Q, work, both)
    <3> HIDE DEF L, R, QL, QR, Q, left, right
    <3> QED  BY <1>4, <1>6, <1>9, <1>11, <2>6, WroteBoth
  <2>8. right.thrown <=> Refuses(T, Q)
    <3> HIDE DEF L, R, QL, QR, Q, left, right
    <3>1. Refuses(T, Q) <=>
            \/ Refuses(T, QL)
            \/ Refuses(T, QR)
      BY <1>4, ForeignDivided
    <3> QED  BY <1>12, <1>14, <2>6, <3>1
  <2>9. IsOutcome(left) /\ IsOutcome(right)
    BY <1>11, <2>6 DEF Wrote
  <2>10. both.thrown = right.thrown /\ both.work = right.work
         /\ both.written = With(left.written, right.written)
    <3> HIDE DEF left, right
    <3> QED  BY <2>9 DEF Then, IsOutcome
  <2>11. CASE right.thrown
    <3>1. out = both
      BY <1>3, <1>14, <2>11
    <3> HIDE DEF left, right, both, Q
    <3>2. Met(T, d, I, b, old, Q, work, both)
      BY <2>7, <2>8, <2>10, <2>11 DEF Met
    <3>3. ManyLeft(T, both)
      BY <2>10, <2>11 DEF ManyLeft
    <3> QED  BY <3>1, <3>2, <3>3 DEF Q, out, MetWithMany
  <2>12. CASE ~right.thrown
    <3> DEFINE l     == left.built
               r     == right.built
               S     == Leaves(U, l.id) \cup Leaves(U, r.id)
               moves == check \/ left.bubble \/ right.bubble
               j     == Join(right.work, l, r, moves)
               V     == With(U, j.written)
    <3>1. Right(T, UR, d + 1, R, oldR, QR, left.work, right)
      BY <2>5, <2>12 DEF Met
    <3>2. Extends(U, UL) /\ Extends(U, UR)
      <4>1. /\ left.work.used = work.used \cup DOMAIN left.written /\ work.used \cap DOMAIN left.written = {}
            /\ left.work.used \cap DOMAIN right.written = {}
        BY <1>11, <2>6 DEF Wrote
      <4> HIDE DEF left, right
      <4> QED  BY <1>1, <4>1, BothExtend
    <3>3. /\ Halved(U, d, I, l, r)
          /\ Leaves(U, l.id) = Leaves(UL, l.id) /\ Leaves(U, r.id) = Leaves(UR, r.id)
          /\ \A x \in Leaves(UL, l.id) : U[x] = UL[x]
          /\ \A x \in Leaves(UR, r.id) : U[x] = UR[x]
      <4>1. Found(U, UL, UR, d, I, left.built, right.built)
        <5> HIDE DEF left, right, UL, UR, U, L, R, QL, QR, oldL, oldR
        <5>1. Right(T, UL, d + 1, Half(I, d, 0), oldL, QL, work, left)
          BY <2>1 DEF L
        <5>2. Right(T, UR, d + 1, Half(I, d, 1), oldR, QR, left.work, right)
          BY <3>1 DEF R
        <5> QED  BY <3>2, <5>1, <5>2, BothHalves
      <4> HIDE DEF left, right, UL, UR, U
      <4> QED  BY <4>1 DEF Found
    <3>4. \A k \in KeySpace : Settled(T, U, old, S, k, Q[k], work.output[k], right.work.output[k])
      <4>1. ASSUME NEW k \in KeySpace
            PROVE  Settled(T, U, oldL \cup oldR, Leaves(UL, l.id) \cup Leaves(UR, r.id), k, Q[k],
                           work.output[k], right.work.output[k])
        <5> HIDE DEF left, right, UL, UR, U, L, R, QL, QR, Q, oldL, oldR
        <5>1. Right(T, UL, d + 1, Half(I, d, 0), oldL, QL, work, left)
          BY <2>1 DEF L
        <5>2. Right(T, UR, d + 1, Half(I, d, 1), oldR, QR, left.work, right)
          BY <3>1 DEF R
        <5>3. /\ Divided(Q, Half(I, d, 0), QL, Half(I, d, 1), QR)
              /\ \A x \in oldL : T[x].key \in Half(I, d, 0)
              /\ \A x \in oldR : T[x].key \in Half(I, d, 1)
          BY <1>4, <1>8 DEF L, R
        <5>4. /\ \A x \in Leaves(UL, left.built.id) : U[x] = UL[x]
              /\ \A x \in Leaves(UR, right.built.id) : U[x] = UR[x]
          BY <3>3
        <5> HIDE DEF l, r
        <5>5. Settled(T, U, oldL \cup oldR, Leaves(UL, left.built.id) \cup Leaves(UR, right.built.id), k, Q[k],
                 work.output[k], right.work.output[k])
          BY <5>1, <5>2, <5>3, <5>4, SettledByHalves
        <5> QED  BY <5>5 DEF l, r
      <4> QED  BY <1>5, <3>3, <4>1
    <3>5. moves \/ Several(S)
      <4>1. CASE TwoPuts(Q)
        <5> HIDE DEF left, right, Q, S, U
        <5> QED  BY <3>4, <4>1, LeavesRemain
      <4>2. CASE Several(old) /\ ~moves
        <5>1. /\ oldL # {} => Leaves(U, l.id) # {}
              /\ Several(oldL) => Several(Leaves(U, l.id))
          BY <2>1, <3>3, <4>2 DEF Right
        <5>2. /\ oldR # {} => Leaves(U, r.id) # {}
              /\ Several(oldR) => Several(Leaves(U, r.id))
          BY <3>1, <3>3, <4>2 DEF Right
        <5>3. Several(oldL \cup oldR)
          BY <1>5, <4>2
        <5> HIDE DEF left, right, l, r, U, oldL, oldR
        <5> QED  BY <3>3, <5>1, <5>2, <5>3, HalvesRemain
      <4> QED  BY <4>1, <4>2
    <3>6. /\ SubOK(U, l.id, d + 1) /\ SubOK(U, r.id, d + 1) /\ l = Reuse(U, l.id) /\ r = Reuse(U, r.id)
          /\ SidesOK(U, l.id, r.id, d) /\ \A x \in S : U[x].key \in I
      <4> HIDE DEF left, right, l, r, U
      <4> QED  BY <3>3 DEF Halved
    <3>7. Running(U, right.work)
      <4> HIDE DEF left, right
      <4> QED  BY <2>7, <2>10 DEF Wrote
    <3>8. Joined(U, V, right.work, d, S, j)
      <4>1. j = Join(right.work, Reuse(U, l.id), Reuse(U, r.id), moves)
        BY <3>6
      <4> HIDE DEF left, right, l, r, U, moves, j
      <4> QED  BY <3>5, <3>6, <3>7, <4>1, JoinMeets
    <3>9. out = Then(both, j)
      <4>1. out = Then(left, Then(right, j))
        BY <1>3, <1>14, <2>12
      <4>2. IsOutcome(j)
        BY <3>8 DEF Joined
      <4> HIDE DEF left, right, j
      <4> QED  BY <2>9, <4>1, <4>2, ThenAssociates
    <3>10. Wrote(T, I, b, Q, work, out)
      <4>1. Joined(With(T, both.written), V, both.work, d, S, j)
        BY <2>10, <3>8
      <4> HIDE DEF left, right, both, j, Q, V, S
      <4> QED  BY <2>7, <3>9, <4>1, WroteJoined
    <3>11. /\ IsOutcome(j) /\ ~j.thrown /\ Extends(V, U) /\ j.work.output = right.work.output
           /\ SubOK(V, j.built.id, d) /\ j.built = Reuse(V, j.built.id) /\ Leaves(V, j.built.id) = S
           /\ j.bubble \/ Several(S)
      BY <3>8 DEF Joined
    <3>12. /\ out.work = j.work /\ out.built = j.built /\ out.bubble = j.bubble /\ ~out.thrown
           /\ out.written = With(both.written, j.written)
      <4> HIDE DEF left, right, both, j
      <4> QED  BY <3>9, <3>11 DEF Then, IsOutcome
    <3>13. With(T, out.written) = V
      <4>1. With(T, With(both.written, j.written)) = With(With(T, both.written), j.written)
        BY TablesAssociate
      <4> HIDE DEF both, j
      <4> QED  BY <2>10, <3>12, <4>1
    <3>14. \A x \in S : V[x] = U[x]
      <4>1. SubOK(U, l.id, d + 1) /\ SubOK(U, r.id, d + 1) /\ Extends(V, U)
        BY <3>6, <3>11
      <4> HIDE DEF left, right, l, r, U, V
      <4> QED  BY <4>1, TreesStay
    <3>15. \A k \in KeySpace : Settled(T, V, old, S, k, Q[k], work.output[k], out.work.output[k])
      <4>1. ASSUME NEW k \in KeySpace
            PROVE  Settled(T, V, old, S, k, Q[k], work.output[k], out.work.output[k])
        <5>1. out.work.output = right.work.output
          BY <3>11, <3>12
        <5>2. Settled(T, U, old, S, k, Q[k], work.output[k], out.work.output[k])
          BY <3>4, <5>1
        <5>3. For(T, {}, k) = {} /\ For(U, {}, k) = {}
          BY DEF For
        <5> HIDE DEF left, right, l, r, U, V, S, Q, j
        <5>4. Settled(T, V, old \cup {}, S \cup {}, k, Q[k], work.output[k], out.work.output[k])
          BY <3>14, <5>2, <5>3, SettledInOneHalf
        <5>5. old \cup {} = old /\ S \cup {} = S
          OBVIOUS
        <5> QED  BY <5>4, <5>5
      <4> QED  BY <4>1
    <3>16. out.bubble \/ ((old # {} => S # {}) /\ (Several(old) => Several(S)))
      <4> HIDE DEF left, right, j, S
      <4> QED  BY <3>11, <3>12 DEF Several
    <3>17. Right(T, V, d, I, old, Q, work, out)
      <4> HIDE DEF left, right, l, r, U, V, S, Q, j
      <4> QED  BY <3>6, <3>11, <3>12, <3>14, <3>15, <3>16 DEF Right
    <3> HIDE DEF left, right, l, r, U, V, S, Q, j
    <3>18. Met(T, d, I, b, old, Q, work, out)
      BY <2>8, <2>12, <3>10, <3>12, <3>13, <3>17 DEF Met
    <3>19. ManyLeft(T, out)
      BY <3>11, <3>12, <3>13 DEF ManyLeft
    <3> QED  BY <3>18, <3>19 DEF Q, out, MetWithMany
  <2> QED  BY <2>11, <2>12
<1> QED  BY <1>13, <1>14

---------------------------------------------------------------------------
(* Empty nodes and leaves change the updates before they go below: what    *)
(* has then been asked is the same, of a node without leaves.              *)

(* One key, as it was asked and as it is asked now.                        *)
Restated(T, old, old2, k, q, was, q2, was2) ==
  \/ /\ q2 = q /\ was2 = was
     /\ \/ For(T, old, k) = For(T, old2, k)
        \/ q # NoEntry /\ ~q.deletion /\ For(T, old2, k) = {}
  \/ /\ q # NoEntry /\ q.deletion /\ q.override = Empty /\ q2 = NoEntry
     /\ For(T, old2, k) = {} /\ For(T, old, k) = IF was2 = Empty THEN {} ELSE {was2}
  \/ \E id \in Nat : /\ q = NoEntry /\ q2 = PutReuse(id) /\ id # Empty /\ T[id].key = k
                     /\ For(T, old, k) = {id} /\ For(T, old2, k) = {}

(* It asks for as many leaves, and is refused when it was.                 *)
LEMMA RestatedKeys ==
  ASSUME NEW T, NEW old, NEW old2, NEW Q, NEW was, NEW Q2, NEW was2,
         \A k \in KeySpace : Restated(T, old, old2, k, Q[k], was[k], Q2[k], was2[k])
  PROVE  /\ Fresh(Q2) = Fresh(Q) /\ (Refuses(T, Q2) <=> Refuses(T, Q))
         /\ \A k \in Fresh(Q) : Q2[k] = Q[k]
<1>1. NoEntry.override # Empty /\ ~NoEntry.deletion
  BY DEF NoEntry, Empty
<1>2. \A id : PutReuse(id).override = id /\ ~PutReuse(id).deletion
  BY DEF PutReuse
<1>3. ASSUME NEW k \in KeySpace
      PROVE  /\ k \in Fresh(Q2) <=> k \in Fresh(Q)
             /\ Foreign(T, k, Q2[k]) <=> Foreign(T, k, Q[k])
             /\ k \in Fresh(Q) => Q2[k] = Q[k]
  <2> DEFINE q == Q[k]
             q2 == Q2[k]
  <2>0. /\ k \in Fresh(Q) <=> ~q.deletion /\ q.override = Empty
        /\ k \in Fresh(Q2) <=> ~q2.deletion /\ q2.override = Empty
    BY DEF Fresh
  <2>1. CASE q2 = q
    BY <2>0, <2>1
  <2>2. CASE q # NoEntry /\ q.deletion /\ q.override = Empty /\ q2 = NoEntry
    <3>1. k \notin Fresh(Q) /\ k \notin Fresh(Q2)
      BY <1>1, <2>0, <2>2
    <3>2. ~Foreign(T, k, q) /\ ~Foreign(T, k, q2)
      BY <2>2 DEF Foreign
    <3> QED  BY <3>1, <3>2
  <2>3. CASE \E id \in Nat : q = NoEntry /\ q2 = PutReuse(id) /\ id # Empty /\ T[id].key = k
    <3>1. PICK id \in Nat : q = NoEntry /\ q2 = PutReuse(id) /\ id # Empty /\ T[id].key = k
      BY <2>3
    <3>2. k \notin Fresh(Q) /\ k \notin Fresh(Q2)
      BY <1>1, <1>2, <2>0, <3>1
    <3>3. ~Foreign(T, k, q) /\ ~Foreign(T, k, q2)
      BY <1>2, <3>1 DEF Foreign
    <3> QED  BY <3>2, <3>3
  <2>4. Restated(T, old, old2, k, q, was[k], q2, was2[k])
    OBVIOUS
  <2> HIDE DEF q, q2
  <2>5. \/ q2 = q
        \/ q # NoEntry /\ q.deletion /\ q.override = Empty /\ q2 = NoEntry
        \/ \E id \in Nat : q = NoEntry /\ q2 = PutReuse(id) /\ id # Empty /\ T[id].key = k
    BY <2>4 DEF Restated
  <2> QED  BY <2>1, <2>2, <2>3, <2>5 DEF q, q2
<1>4. Fresh(Q) \subseteq KeySpace /\ Fresh(Q2) \subseteq KeySpace
  BY DEF Fresh
<1> QED  BY <1>3, <1>4 DEF Refuses

(* A key that is settled as it is asked now is settled as it was asked.    *)
LEMMA SettledAsAsked ==
  ASSUME NEW T, NEW U, NEW old, NEW old2, NEW new, NEW k, NEW q, NEW was, NEW q2, NEW was2, NEW now,
         Restated(T, old, old2, k, q, was, q2, was2), Settled(T, U, old2, new, k, q2, was2, now)
  PROVE  Settled(T, U, old, new, k, q, was, now)
<1>1. CASE q2 = q /\ was2 = was /\ For(T, old, k) = For(T, old2, k)
  BY <1>1 DEF Settled
<1>2. CASE q2 = q /\ q # NoEntry /\ ~q.deletion /\ For(T, old2, k) = {}
  <2>1. PICK y \in new : /\ For(U, new, k) = {y}
                         /\ IF q.override = Empty THEN U[y].val = q.val ELSE y = q.override
                         /\ now = y \/ (now = Empty /\ For(T, old2, k) = {y})
    BY <1>2 DEF Settled
  <2>2. now = y
    BY <1>2, <2>1
  <2> QED  BY <1>2, <2>1, <2>2 DEF Settled
<1>3. CASE /\ q # NoEntry /\ q.deletion /\ q.override = Empty /\ q2 = NoEntry
           /\ For(T, old2, k) = {} /\ For(T, old, k) = IF was2 = Empty THEN {} ELSE {was2}
  <2>1. For(U, new, k) = {} /\ now = was2
    BY <1>3 DEF Settled
  <2> QED  BY <1>3, <2>1 DEF Settled
<1>4. CASE \E id \in Nat : /\ q = NoEntry /\ q2 = PutReuse(id) /\ id # Empty /\ T[id].key = k
                           /\ For(T, old, k) = {id} /\ For(T, old2, k) = {}
  <2>1. PICK id \in Nat : /\ q = NoEntry /\ q2 = PutReuse(id) /\ id # Empty /\ T[id].key = k
                          /\ For(T, old, k) = {id} /\ For(T, old2, k) = {}
    BY <1>4
  <2>2. q2 # NoEntry /\ ~q2.deletion /\ q2.override = id
    BY <2>1 DEF NoEntry, PutReuse, Empty
  <2>3. For(U, new, k) = {id}
    BY <2>1, <2>2 DEF Settled
  <2> QED  BY <2>1, <2>3 DEF Settled
<1> QED  BY <1>1, <1>2, <1>3, <1>4 DEF Restated

(* So is a whole call.                                                     *)
RestatedAll(T, I, old, Q, work, old2, Q2, work2) ==
  /\ work2.used = work.used
  /\ \A k \in KeySpace \ I : work2.updates[k] = work.updates[k]
  /\ \A k \in KeySpace : Restated(T, old, old2, k, Q[k], work.output[k], Q2[k], work2.output[k])

(* What it has done was asked.                                             *)
LEMMA MeetsAsAsked ==
  ASSUME NEW T, NEW d, NEW I, NEW b, NEW old, NEW Q, NEW work, NEW old2, NEW Q2, NEW work2,
         RestatedAll(T, I, old, Q, work, old2, Q2, work2),
         NEW out, Met(T, d, I, b, old2, Q2, work2, out),
         old = old2 \/ (~Several(old) /\ ManyLeft(T, out))
  PROVE  Met(T, d, I, b, old, Q, work, out)
<1> DEFINE was  == work.output
           was2 == work2.output
           U    == With(T, out.written)
           new  == Leaves(U, out.built.id)
<1>1. /\ work2.used = work.used
      /\ \A k \in KeySpace \ I : work2.updates[k] = work.updates[k]
      /\ \A k \in KeySpace : Restated(T, old, old2, k, Q[k], was[k], Q2[k], was2[k])
  BY DEF RestatedAll
<1>2. /\ Fresh(Q2) = Fresh(Q) /\ (Refuses(T, Q2) <=> Refuses(T, Q))
      /\ \A k \in Fresh(Q) : Q2[k] = Q[k]
  <2> HIDE DEF was, was2
  <2> QED  BY <1>1, RestatedKeys
<1>3. Wrote(T, I, b, Q2, work2, out) /\ (out.thrown <=> Refuses(T, Q2))
  BY DEF Met
<1>4. WrittenOK(T, Q, out.written)
  <2>1. \A x, node : LeafWritten(Q2, x, node) => LeafWritten(Q, x, node)
    BY <1>2 DEF LeafWritten
  <2>2. WrittenOK(T, Q2, out.written)
    BY <1>3 DEF Wrote
  <2> QED  BY <2>1, <2>2 DEF WrittenOK
<1>5. Wrote(T, I, b, Q, work, out)
  BY <1>1, <1>2, <1>3, <1>4 DEF Wrote
<1>6. ASSUME ~out.thrown
      PROVE  Right(T, U, d, I, old, Q, work, out)
  <2>1. Right(T, U, d, I, old2, Q2, work2, out)
    BY <1>6 DEF Met
  <2>2. /\ SubOK(U, out.built.id, d) /\ out.built = Reuse(U, out.built.id)
        /\ \A x \in new : U[x].key \in I
        /\ \A k \in KeySpace : Settled(T, U, old2, new, k, Q2[k], was2[k], out.work.output[k])
        /\ out.bubble \/ ((old2 # {} => new # {}) /\ (Several(old2) => Several(new)))
    BY <2>1 DEF Right
  <2>3. ASSUME NEW k \in KeySpace
        PROVE  Settled(T, U, old, new, k, Q[k], was[k], out.work.output[k])
    <3> HIDE DEF was, was2, U, new
    <3> QED  BY <1>1, <2>2, SettledAsAsked
  <2>4. out.bubble \/ ((old # {} => new # {}) /\ (Several(old) => Several(new)))
    <3>1. CASE old = old2
      BY <2>2, <3>1
    <3>2. CASE ~Several(old) /\ (out.bubble \/ Several(new))
      <4> HIDE DEF new
      <4> QED  BY <3>2 DEF Several
    <3> QED  BY <1>6, <3>1, <3>2 DEF ManyLeft
  <2> HIDE DEF U
  <2> QED  BY <2>2, <2>3, <2>4 DEF Right
<1> QED  BY <1>2, <1>3, <1>5, <1>6 DEF Met

(* And what is asked now can be asked.                                     *)
LEMMA AskedAgain ==
  ASSUME NEW T, NEW d, NEW I, NEW b, NEW old, NEW begin, NEW end, NEW work,
         Asked(T, d, I, b, old, begin, end, work), NEW old2, old2 \subseteq old, NEW begin2, NEW work2 \in Works,
         RestatedAll(T, I, old, Asks(work, begin, end), work, old2, Asks(work2, begin2, end), work2),
         Iterators(work2.updates, begin2, end), Window(work2.updates, begin2, end) \subseteq I,
         \A k \in Window(work2.updates, begin2, end) :
           /\ EntryOK(T, work2.updates[k], old2)
           /\ work2.updates[k].override = Empty => work2.output[k] = Empty
  PROVE  Asked(T, d, I, b, old2, begin2, end, work2)
<1> DEFINE Q    == Asks(work, begin, end)
           Q2   == Asks(work2, begin2, end)
           was  == work.output
           was2 == work2.output
<1>1. work2.used = work.used /\ \A k \in KeySpace : Restated(T, old, old2, k, Q[k], was[k], Q2[k], was2[k])
  BY DEF RestatedAll
<1>2. Fresh(Q2) = Fresh(Q)
  <2> HIDE DEF was, was2, Q, Q2
  <2> QED  BY <1>1, RestatedKeys
<1>3. /\ Running(T, work) /\ Region(I, d) /\ (\A k \in I : k < end)
      /\ \A x \in old : x \in DOMAIN T /\ T[x].key \in I
      /\ RoomAbove(work.used, b) /\ b + Cardinality(Fresh(Q)) <= FirstInterior
  BY DEF Asked
<1>4. Running(T, work2)
  BY <1>1, <1>3 DEF Running
<1> QED  BY <1>1, <1>2, <1>3, <1>4 DEF Asked

(* Nothing asked, nothing done.                                            *)
LEMMA ReturnMeets ==
  ASSUME NEW T, NEW d \in 0 .. Depth, NEW I, NEW b, NEW id, SubOK(T, id, d),
         \A x \in Leaves(T, id) : T[x].key \in I,
         NEW work, Running(T, work), RoomAbove(work.used, b),
         NEW Q, \A k \in KeySpace : Q[k] = NoEntry, NEW bubble
  PROVE  Met(T, d, I, b, Leaves(T, id), Q, work, Return(work, Reuse(T, id), bubble))
<1> DEFINE out == Return(work, Reuse(T, id), bubble)
           U   == With(T, out.written)
           old == Leaves(T, id)
<1>1. /\ IsOutcome(out) /\ ~out.thrown /\ out.work = work /\ out.written = NoTable
      /\ out.built = Reuse(T, id)
  BY DEF Return, IsOutcome
<1> HIDE DEF out
<1>2. Extends(U, T) /\ DOMAIN U = DOMAIN T /\ DOMAIN out.written = {}
  BY <1>1 DEF With, Extends, NoTable
<1> HIDE DEF U
<1>3. /\ SubOK(U, id, d) /\ Leaves(U, id) = old /\ Reuse(U, id) = Reuse(T, id)
      /\ \A x \in old : U[x] = T[x]
  BY <1>2, TreesStay
<1>4. Reuse(T, id).id = id
  BY DEF Reuse, Built
<1>5. out.built.id = id /\ out.built = Reuse(U, id)
  BY <1>1, <1>3, <1>4
<1>6. Fresh(Q) = {} /\ ~Refuses(T, Q)
  <2>1. NoEntry.override # Empty
    BY DEF NoEntry, Empty
  <2> QED  BY <2>1 DEF Fresh, Refuses, Foreign
<1>7. Cardinality(Fresh(Q)) = 0
  BY <1>6, FS_EmptySet
<1>8. RoomAbove(work.used, b + Cardinality(Fresh(Q)))
  BY <1>7 DEF RoomAbove
<1>9. Running(U, out.work)
  BY <1>1, <1>2 DEF Running
<1>10. Wrote(T, I, b, Q, work, out)
  BY <1>1, <1>2, <1>8, <1>9 DEF Wrote, WrittenOK, U
<1> HIDE DEF old
<1>11. ASSUME NEW k \in KeySpace
       PROVE  Settled(T, U, old, old, k, Q[k], work.output[k], out.work.output[k])
  <2>1. For(U, old, k) = For(T, old, k)
    BY <1>3 DEF For
  <2>2. Q[k] = NoEntry
    OBVIOUS
  <2> QED  BY <1>1, <2>1, <2>2 DEF Settled
<1>12. Right(T, U, d, I, old, Q, work, out)
  BY <1>3, <1>5, <1>11 DEF Right, old
<1>13. Met(T, d, I, b, old, Q, work, out)
  BY <1>1, <1>6, <1>10, <1>12 DEF Met, U
<1> QED  BY <1>13 DEF out, old

(* Two keys of a region have a bit yet in which they differ.               *)
LEMMA RoomBelow ==
  ASSUME NEW d \in 0 .. Depth, NEW I, Region(I, d), NEW j \in I, NEW k \in I, j # k
  PROVE  d \in 0 .. Depth - 1
<1>1. d # Depth
  BY LastRegion
<1> QED  BY <1>1, DepthAssumption

(* The keys of a window that the deletions are gone from.                  *)
LEMMA DeletionsRestated ==
  ASSUME NEW T, NEW d, NEW I, NEW b, NEW old, NEW begin, NEW end, NEW work,
         Asked(T, d, I, b, old, begin, end, work),
         NEW work1 \in Works, work1.used = work.used, work1.updates = work.updates,
         NEW old2, \A k \in KeySpace :
           \/ work1.output[k] = work.output[k] /\ For(T, old, k) = For(T, old2, k)
              /\ (Asks(work, begin, end)[k].deletion => For(T, old, k) = {})
           \/ /\ Asks(work, begin, end)[k] # NoEntry /\ Asks(work, begin, end)[k].deletion
              /\ work1.output[k] # Empty /\ For(T, old, k) = {work1.output[k]} /\ For(T, old2, k) = {},
         NEW rest, Erased(work1, begin, end, rest)
  PROVE  RestatedAll(T, I, old, Asks(work, begin, end), work, old2, Asks(rest.work, rest.begin, end), rest.work)
<1> DEFINE Q  == Asks(work, begin, end)
           Q2 == Asks(rest.work, rest.begin, end)
<1>1. /\ rest.work \in Works /\ rest.work.used = work.used /\ rest.work.output = work1.output
      /\ \A k \in KeySpace :
           /\ k \in Window(rest.work.updates, rest.begin, end) <=>
                k \in Window(work.updates, begin, end) /\ ~work.updates[k].deletion
           /\ \/ rest.work.updates[k] = work.updates[k]
              \/ /\ k \in Window(work.updates, begin, end) /\ work.updates[k].deletion
                 /\ rest.work.updates[k] = NoEntry
  BY DEF Erased
<1>2. work \in Works /\ Window(work.updates, begin, end) \subseteq I
  BY DEF Asked, Running
<1>3. \A k \in KeySpace \ I : rest.work.updates[k] = work.updates[k]
  BY <1>1, <1>2
<1>4. ASSUME NEW k \in KeySpace
      PROVE  Restated(T, old, old2, k, Q[k], work.output[k], Q2[k], rest.work.output[k])
  <2>1. /\ Q2[k] = IF k \in Window(rest.work.updates, rest.begin, end) THEN rest.work.updates[k] ELSE NoEntry
        /\ Q[k] = IF k \in Window(work.updates, begin, end) THEN work.updates[k] ELSE NoEntry
    BY DEF Asks
  <2>2. Q[k] # NoEntry => /\ k \in Window(work.updates, begin, end) /\ Q[k] = work.updates[k]
                          /\ EntryOK(T, Q[k], old) /\ (Q[k].override = Empty => work.output[k] = Empty)
    <3> HIDE DEF Q
    <3>1. Q = Asks(work, begin, end)
      BY DEF Q
    <3> QED  BY <3>1, AskedOf
  <2>3. ~NoEntry.deletion
    BY DEF NoEntry
  <2>4. \/ work1.output[k] = work.output[k] /\ For(T, old, k) = For(T, old2, k)
           /\ (Q[k].deletion => For(T, old, k) = {})
        \/ /\ Q[k] # NoEntry /\ Q[k].deletion
           /\ work1.output[k] # Empty /\ For(T, old, k) = {work1.output[k]} /\ For(T, old2, k) = {}
    OBVIOUS
  <2> HIDE DEF Q, Q2
  <2>5. CASE Q[k] # NoEntry /\ Q[k].deletion
    <3>1. Q2[k] = NoEntry /\ Q[k].override = Empty /\ work.output[k] = Empty
      BY <1>1, <2>1, <2>2, <2>5 DEF EntryOK
    <3> QED  BY <1>1, <2>4, <2>5, <3>1 DEF Restated
  <2>6. CASE ~(Q[k] # NoEntry /\ Q[k].deletion)
    <3>1. Q2[k] = Q[k]
      BY <1>1, <2>1, <2>3, <2>6
    <3> QED  BY <1>1, <2>4, <2>6, <3>1 DEF Restated
  <2> QED  BY <2>5, <2>6
<1>5. RestatedAll(T, I, old, Q, work, old2, Q2, rest.work)
  <2> HIDE DEF Q, Q2
  <2> QED  BY <1>1, <1>3, <1>4 DEF RestatedAll
<1> QED  BY <1>5

(* What is left is asked of a node without leaves.                         *)
LEMMA RestIsAsked ==
  ASSUME NEW T, NEW d, NEW I, NEW b, NEW old, NEW begin, NEW end, NEW work,
         Asked(T, d, I, b, old, begin, end, work),
         NEW work1 \in Works, work1.updates = work.updates,
         \A k \in KeySpace : ~Asks(work, begin, end)[k].deletion => work1.output[k] = work.output[k],
         NEW old2, old2 \subseteq old, NEW rest, Erased(work1, begin, end, rest),
         RestatedAll(T, I, old, Asks(work, begin, end), work, old2, Asks(rest.work, rest.begin, end), rest.work)
  PROVE  Asked(T, d, I, b, old2, rest.begin, end, rest.work)
<1>1. /\ rest.work \in Works /\ rest.work.output = work1.output
      /\ Iterators(rest.work.updates, rest.begin, end)
      /\ \A k \in KeySpace :
           /\ k \in Window(rest.work.updates, rest.begin, end) <=>
                k \in Window(work.updates, begin, end) /\ ~work.updates[k].deletion
           /\ \/ rest.work.updates[k] = work.updates[k]
              \/ k \in Window(work.updates, begin, end) /\ work.updates[k].deletion
  BY DEF Erased
<1>2. /\ Window(work.updates, begin, end) \subseteq I
      /\ \A k \in Window(work.updates, begin, end) :
           /\ EntryOK(T, work.updates[k], old)
           /\ work.updates[k].override = Empty => work.output[k] = Empty
  BY DEF Asked
<1>3. Window(rest.work.updates, rest.begin, end) \subseteq KeySpace
  BY WindowsHaveKeys
<1>4. Window(rest.work.updates, rest.begin, end) \subseteq I
  BY <1>1, <1>2, <1>3
<1>5. ASSUME NEW k \in Window(rest.work.updates, rest.begin, end)
      PROVE  /\ EntryOK(T, rest.work.updates[k], old2)
             /\ rest.work.updates[k].override = Empty => rest.work.output[k] = Empty
  <2>1. /\ k \in KeySpace /\ k \in Window(work.updates, begin, end) /\ ~work.updates[k].deletion
        /\ rest.work.updates[k] = work.updates[k]
    BY <1>1, <1>3
  <2>2. Asks(work, begin, end)[k] = work.updates[k]
    BY <2>1 DEF Asks
  <2>3. rest.work.output[k] = work.output[k]
    BY <1>1, <2>1, <2>2
  <2>4. EntryOK(T, work.updates[k], old2)
    BY <1>2, <2>1 DEF EntryOK
  <2> QED  BY <1>2, <2>1, <2>3, <2>4
<1> QED  BY <1>1, <1>4, <1>5, AskedAgain

(* What is next in the map is what comes next in the window.               *)
LEMMA OneInWindow ==
  ASSUME NEW updates, NEW begin, NEW end, Iterators(updates, begin, end), begin # end
  PROVE  /\ begin \in Window(updates, begin, end)
         /\ After(updates, begin) = end => Window(updates, begin, end) = {begin}
         /\ After(updates, begin) # end => \E k \in Window(updates, begin, end) : k # begin
<1>1. /\ begin \in Nat /\ end \in Nat /\ MapEnd \in Nat /\ begin < end /\ end <= MapEnd
      /\ begin \in Present(updates) /\ end \in Present(updates) \cup {MapEnd}
      /\ Present(updates) \subseteq Nat
  BY EndOfMap, WindowsHaveKeys DEF Iterators
<1>2. /\ After(updates, begin) \in Nat /\ begin < After(updates, begin) /\ After(updates, begin) <= MapEnd
      /\ After(updates, begin) \in Present(updates) \cup {MapEnd}
      /\ \A k \in Present(updates) : begin < k => After(updates, begin) <= k
  BY <1>1, AfterIsNext
<1> DEFINE next == After(updates, begin)
<1> HIDE DEF next
<1>3. /\ next \in Nat /\ begin < next /\ next <= MapEnd /\ next \in Present(updates) \cup {MapEnd}
      /\ \A k \in Present(updates) : begin < k => next <= k
  BY <1>2 DEF next
<1>4. \A k : k \in Window(updates, begin, end) <=> k \in Present(updates) /\ begin <= k /\ k < end
  BY DEF Window
<1>5. next = end => \A k \in Window(updates, begin, end) : k = begin
  BY <1>1, <1>3, <1>4
<1>6. next # end => next \in Window(updates, begin, end)
  BY <1>1, <1>3, <1>4
<1> QED  BY <1>1, <1>3, <1>4, <1>5, <1>6 DEF next

(* Updates of an empty node.                                               *)
LEMMA PutIntoEmptyMeets ==
  ASSUME NEW T, NEW d \in 0 .. Depth, NEW I, NEW b, NEW begin, NEW end, NEW work,
         Asked(T, d, I, b, {}, begin, end, work), begin # end,
         NEW deeper, d < Depth => Meets(T, deeper, d + 1)
  PROVE  Met(T, d, I, b, {}, Asks(work, begin, end), work,
             PutIntoEmpty(Frame(T, d, deeper), begin, end, work))
<1> DEFINE rest == EraseDeletions(work, begin, end)
           Q    == Asks(work, begin, end)
           Q2   == Asks(rest.work, rest.begin, end)
           out  == PutIntoEmpty(Frame(T, d, deeper), begin, end, work)
<1>1. work \in Works /\ Region(I, d) /\ Iterators(work.updates, begin, end)
  BY DEF Asked, Running
<1>2. Erased(work, begin, end, rest)
  BY <1>1, DeletionsErased
<1>3. out = CASE rest.begin = end -> Return(rest.work, BuiltEmpty, FALSE)
    [] rest.begin # end /\ After(rest.work.updates, rest.begin) = end -> PutLeaf(T, rest.work, rest.begin)
    [] OTHER -> PutBelow(Frame(T, d, deeper), EmptyNode, rest.begin, end, rest.work, FALSE)
  BY DEF PutIntoEmpty, Frame
<1> HIDE DEF rest, out
<1>4. \A k \in KeySpace : work.output[k] = work.output[k] /\ For(T, {}, k) = {}
  BY DEF For
<1>5. RestatedAll(T, I, {}, Q, work, {}, Q2, rest.work)
  BY <1>1, <1>2, <1>4, DeletionsRestated
<1>6. Asked(T, d, I, b, {}, rest.begin, end, rest.work)
  BY <1>1, <1>2, <1>5, RestIsAsked
<1>7. /\ rest.work \in Works /\ Iterators(rest.work.updates, rest.begin, end)
      /\ Running(T, rest.work) /\ RoomAbove(rest.work.used, b)
      /\ Window(rest.work.updates, rest.begin, end) \subseteq I
      /\ \A k \in KeySpace : k \in Window(rest.work.updates, rest.begin, end) => ~rest.work.updates[k].deletion
  <2>1. Iterators(rest.work.updates, rest.begin, end) /\ Running(T, rest.work) /\ RoomAbove(rest.work.used, b)
        /\ Window(rest.work.updates, rest.begin, end) \subseteq I
    BY <1>6 DEF Asked
  <2>2. rest.work \in Works
    BY <2>1 DEF Running
  <2>3. \A k \in KeySpace : k \in Window(rest.work.updates, rest.begin, end) => ~rest.work.updates[k].deletion
    BY <1>2 DEF Erased
  <2> QED  BY <2>1, <2>2, <2>3
<1>8. SubOK(T, Empty, d) /\ Leaves(T, Empty) = {} /\ SubOK(T, Empty, d + 1)
  BY EmptyIsATree
<1>9. Met(T, d, I, b, {}, Q2, rest.work, out)
  <2>1. CASE rest.begin = end
    <3>1. out = Return(rest.work, Reuse(T, Empty), FALSE)
      BY <1>3, <2>1 DEF BuiltEmpty, Reuse, ParsedNode
    <3>2. \A k \in KeySpace : Q2[k] = NoEntry
      <4>1. Window(rest.work.updates, rest.begin, end) = {}
        <5>1. rest.begin \in Nat /\ Present(rest.work.updates) \subseteq Nat
          BY <1>7, EndOfMap, WindowsHaveKeys DEF Iterators
        <5> QED  BY <2>1, <5>1 DEF Window
      <4> QED  BY <4>1 DEF Asks
    <3>3. \A x \in Leaves(T, Empty) : T[x].key \in I
      BY <1>8
    <3> HIDE DEF Q2
    <3>4. Met(T, d, I, b, Leaves(T, Empty), Q2, rest.work, Return(rest.work, Reuse(T, Empty), FALSE))
      BY <1>7, <1>8, <3>2, <3>3, ReturnMeets
    <3> QED  BY <1>8, <3>1, <3>4
  <2>2. CASE rest.begin # end
    <3>1. /\ rest.begin \in Window(rest.work.updates, rest.begin, end)
          /\ After(rest.work.updates, rest.begin) = end =>
               Window(rest.work.updates, rest.begin, end) = {rest.begin}
          /\ After(rest.work.updates, rest.begin) # end =>
               \E k \in Window(rest.work.updates, rest.begin, end) : k # rest.begin
      BY <1>7, <2>2, OneInWindow
    <3>2. Window(rest.work.updates, rest.begin, end) \subseteq KeySpace
      BY WindowsHaveKeys
    <3>3. CASE After(rest.work.updates, rest.begin) = end
      <4>1. out = PutLeaf(T, rest.work, rest.begin)
        BY <1>3, <2>2, <3>3
      <4>2. ~rest.work.updates[rest.begin].deletion /\ ~Several({})
        BY <1>7, <3>1, <3>2 DEF Several
      <4> QED  BY <1>6, <3>1, <3>3, <4>1, <4>2, PutLeafMeets
    <3>4. CASE After(rest.work.updates, rest.begin) # end
      <4>1. PICK k \in Window(rest.work.updates, rest.begin, end) : k # rest.begin
        BY <3>1, <3>4
      <4>2. d \in 0 .. Depth - 1
        BY <1>1, <1>7, <3>1, <4>1, RoomBelow
      <4>3. Meets(T, deeper, d + 1)
        BY <4>2, DepthAssumption
      <4>4. TwoPuts(Q2)
        <5>1. /\ Q2[k] # NoEntry /\ Q2[k] = rest.work.updates[k]
              /\ Q2[rest.begin] # NoEntry /\ Q2[rest.begin] = rest.work.updates[rest.begin]
          BY <1>7, <3>1, <3>2, <4>1, AsksOfWindow
        <5>2. ~Q2[k].deletion /\ ~Q2[rest.begin].deletion /\ k \in KeySpace /\ rest.begin \in KeySpace
          BY <1>7, <3>1, <3>2, <4>1, <5>1
        <5> HIDE DEF Q2
        <5> QED  BY <4>1, <5>1, <5>2 DEF TwoPuts
      <4>5. Below(T, d, I, {}, EmptyNode, rest.begin, rest.work)
        BY EmptyIsATree DEF Below, EmptyNode, SidesOK
      <4>6. MetWithMany(T, d, I, b, {}, Q2, rest.work,
                        PutBelow(Frame(T, d, deeper), EmptyNode, rest.begin, end, rest.work, FALSE))
        BY <1>6, <4>2, <4>3, <4>4, <4>5, PutBelowMeets
      <4>7. out = PutBelow(Frame(T, d, deeper), EmptyNode, rest.begin, end, rest.work, FALSE)
        BY <1>3, <2>2, <3>4
      <4> QED  BY <4>6, <4>7 DEF MetWithMany
    <3> QED  BY <3>3, <3>4
  <2> QED  BY <2>1, <2>2
<1>10. Met(T, d, I, b, {}, Q, work, out)
  <2> HIDE DEF Q, Q2
  <2> QED  BY <1>5, <1>9, MeetsAsAsked
<1> QED  BY <1>10 DEF out

---------------------------------------------------------------------------
(* A leaf that is met, and its own entry.                                  *)

(* The entry of the leaf itself, as the only one.                          *)
OwnEntry(T, id, begin, end, work, k) ==
  /\ id # Empty /\ id \in Nat /\ StoredLeaf(T, id) /\ k = T[id].key
  /\ Window(work.updates, begin, end) = {k}

(* What is asked of a leaf by its own entry.                               *)
AskedOfItself(T, id, k, Q, work) ==
  /\ k \in KeySpace /\ Q[k] = work.updates[k] /\ Q[k] # NoEntry /\ EntryOK(T, Q[k], {id})
  /\ Q[k].override = Empty => work.output[k] = Empty
  /\ For(T, {id}, k) = {id}
  /\ \A j \in KeySpace : j # k => Q[j] = NoEntry /\ For(T, {id}, j) = {}

(* So it is.                                                               *)
LEMMA OwnEntryAsks ==
  ASSUME NEW T, NEW d, NEW I, NEW b, NEW id, NEW begin, NEW end, NEW work, NEW k,
         Asked(T, d, I, b, {id}, begin, end, work), OwnEntry(T, id, begin, end, work, k)
  PROVE  AskedOfItself(T, id, k, Asks(work, begin, end), work)
<1> DEFINE Q == Asks(work, begin, end)
<1>0. Q = Asks(work, begin, end)
  OBVIOUS
<1>1. k \in KeySpace /\ k = T[id].key /\ Window(work.updates, begin, end) = {k}
  BY DEF OwnEntry, StoredLeaf
<1>4. \A j \in KeySpace : j # k => Q[j] = NoEntry
  BY <1>1 DEF Asks
<1> HIDE DEF Q
<1>2. Q[k] # NoEntry => /\ Q[k] = work.updates[k] /\ EntryOK(T, Q[k], {id})
                        /\ Q[k].override = Empty => work.output[k] = Empty
  BY <1>0, <1>1, AskedOf
<1>3. k \in Window(work.updates, begin, end) => Q[k] # NoEntry
  BY <1>0, <1>1, AskedOf
<1>5. For(T, {id}, k) = {id} /\ \A j \in KeySpace : j # k => For(T, {id}, j) = {}
  BY <1>1 DEF For
<1>6. AskedOfItself(T, id, k, Q, work)
  BY <1>1, <1>2, <1>3, <1>4, <1>5 DEF AskedOfItself
<1> QED  BY <1>6 DEF Q

(* Its deletion.                                                           *)
LEMMA LeafDeleted ==
  ASSUME NEW T, NEW d \in 0 .. Depth, NEW I, NEW b, NEW id, NEW begin, NEW end, NEW work, NEW k,
         Asked(T, d, I, b, {id}, begin, end, work), OwnEntry(T, id, begin, end, work, k),
         work.updates[k].deletion
  PROVE  Met(T, d, I, b, {id}, Asks(work, begin, end), work, Return(Report(work, k, id), BuiltEmpty, TRUE))
<1> DEFINE Q     == Asks(work, begin, end)
           Q2    == [j \in KeySpace |-> NoEntry]
           work2 == Report(work, k, id)
           out   == Return(work2, Reuse(T, Empty), TRUE)
<1>0. Q = Asks(work, begin, end)
  OBVIOUS
<1> HIDE DEF Q
<1>1. /\ k \in KeySpace /\ Q[k] = work.updates[k] /\ Q[k] # NoEntry /\ EntryOK(T, Q[k], {id})
      /\ For(T, {id}, k) = {id}
      /\ \A j \in KeySpace : j # k => Q[j] = NoEntry /\ For(T, {id}, j) = {}
  <2>1. AskedOfItself(T, id, k, Q, work)
    BY <1>0, OwnEntryAsks
  <2> QED  BY <2>1 DEF AskedOfItself
<1>2. Running(T, work) /\ RoomAbove(work.used, b) /\ work \in Works /\ id \in Nat /\ id # Empty
  BY DEF Asked, Running, OwnEntry
<1>3. ReportedTo(work, k, id, work2)
  BY <1>1, <1>2, Reported
<1> HIDE DEF work2
<1>4. Running(T, work2) /\ RoomAbove(work2.used, b)
  BY <1>2, <1>3 DEF Running, ReportedTo
<1>5. \A j \in KeySpace : Q2[j] = NoEntry
  OBVIOUS
<1> HIDE DEF Q2
<1>6. SubOK(T, Empty, d) /\ Leaves(T, Empty) = {}
  BY EmptyIsATree
<1>7. \A x \in Leaves(T, Empty) : T[x].key \in I
  BY <1>6
<1>8. Met(T, d, I, b, Leaves(T, Empty), Q2, work2, out)
  BY <1>4, <1>5, <1>6, <1>7, ReturnMeets
<1>9. Met(T, d, I, b, {}, Q2, work2, out)
  BY <1>6, <1>8
<1>10. ASSUME NEW j \in KeySpace
       PROVE  Restated(T, {id}, {}, j, Q[j], work.output[j], Q2[j], work2.output[j])
  <2>1. For(T, {}, j) = {} /\ Q2[j] = NoEntry
    BY <1>5 DEF For
  <2>2. CASE j # k
    <3>1. work2.output[j] = work.output[j]
      BY <1>3, <2>2 DEF ReportedTo
    <3> QED  BY <1>1, <2>1, <2>2, <3>1 DEF Restated
  <2>3. CASE j = k
    <3>1. work2.output[j] = id /\ Q[j].deletion /\ Q[j].override = Empty
      BY <1>1, <1>3, <2>3 DEF ReportedTo, EntryOK
    <3> QED  BY <1>1, <1>2, <2>1, <2>3, <3>1 DEF Restated
  <2> QED  BY <2>2, <2>3
<1>11. RestatedAll(T, I, {id}, Q, work, {}, Q2, work2)
  BY <1>3, <1>10 DEF RestatedAll, ReportedTo
<1>12. ManyLeft(T, out) /\ ~Several({id})
  BY DEF ManyLeft, Return, Several
<1> HIDE DEF out
<1>13. Met(T, d, I, b, {id}, Q, work, out)
  BY <1>9, <1>11, <1>12, MeetsAsAsked
<1>14. BuiltEmpty = Reuse(T, Empty)
  BY DEF BuiltEmpty, Reuse, ParsedNode
<1> QED  BY <1>13, <1>14 DEF out, Q, work2

(* A put of the value it has.                                              *)
LEMMA LeafKept ==
  ASSUME NEW T, NEW d \in 0 .. Depth, NEW I, NEW b, NEW id, NEW begin, NEW end, NEW work, NEW k,
         Asked(T, d, I, b, {id}, begin, end, work), OwnEntry(T, id, begin, end, work, k),
         ~work.updates[k].deletion, work.updates[k].val = T[id].val
  PROVE  Met(T, d, I, b, {id}, Asks(work, begin, end), work, Return(work, Reuse(T, id), FALSE))
<1> DEFINE Q   == Asks(work, begin, end)
           Q2  == [j \in KeySpace |-> NoEntry]
           out == Return(work, Reuse(T, id), FALSE)
           U   == With(T, out.written)
           new == Leaves(U, out.built.id)
<1>0. Q = Asks(work, begin, end)
  OBVIOUS
<1>u. U = With(T, out.written) /\ out.work = work /\ out.written = NoTable /\ ~out.thrown
  BY DEF Return
<1> HIDE DEF Q, U
<1>1. /\ k \in KeySpace /\ Q[k] = work.updates[k] /\ Q[k] # NoEntry /\ EntryOK(T, Q[k], {id})
      /\ Q[k].override = Empty => work.output[k] = Empty
      /\ For(T, {id}, k) = {id}
      /\ \A j \in KeySpace : j # k => Q[j] = NoEntry /\ For(T, {id}, j) = {}
  <2>1. AskedOfItself(T, id, k, Q, work)
    BY <1>0, OwnEntryAsks
  <2> QED  BY <2>1 DEF AskedOfItself
<1>2. Running(T, work) /\ RoomAbove(work.used, b) /\ id \in Nat /\ id # Empty /\ StoredLeaf(T, id)
  BY DEF Asked, OwnEntry
<1>3. Q[k].override = Empty /\ work.output[k] = Empty
  <2>1. Q[k].override # Empty => Q[k].val = EmptyVal /\ T[id].val # EmptyVal
    BY <1>1 DEF EntryOK
  <2> QED  BY <1>1, <2>1
<1>4. SubOK(T, id, d) /\ Leaves(T, id) = {id} /\ T[id].key \in I
  BY <1>2, LeafIsATree DEF Asked
<1>5. \A x \in Leaves(T, id) : T[x].key \in I
  BY <1>4
<1>6. \A j \in KeySpace : Q2[j] = NoEntry
  OBVIOUS
<1> HIDE DEF Q2
<1>7. Met(T, d, I, b, Leaves(T, id), Q2, work, out)
  BY <1>2, <1>4, <1>5, <1>6, ReturnMeets
<1>8. Met(T, d, I, b, {id}, Q2, work, out)
  BY <1>4, <1>7
<1> HIDE DEF out
<1>9. Wrote(T, I, b, Q2, work, out) /\ Right(T, U, d, I, {id}, Q2, work, out)
  BY <1>8, <1>u DEF Met
<1>10. Fresh(Q2) = {}
  <2>1. NoEntry.override # Empty
    BY DEF NoEntry, Empty
  <2> QED  BY <1>6, <2>1 DEF Fresh
<1>11. Wrote(T, I, b, Q, work, out)
  <2>1. Cardinality(Fresh(Q2)) = 0 /\ Cardinality(Fresh(Q)) \in Nat
    BY <1>10, FS_EmptySet, FreshAreCounted
  <2>2. RoomAbove(out.work.used, b + Cardinality(Fresh(Q)))
    <3> DEFINE n == Cardinality(Fresh(Q))
    <3>1. n \in Nat /\ b \in Nat \ {0}
      BY <2>1, <1>2 DEF RoomAbove
    <3> HIDE DEF n
    <3>2. \A x \in work.used : x \in Nat
      BY <1>2 DEF Running, Works
    <3>3. RoomAbove(work.used, b + n)
      BY <1>2, <3>1, <3>2, FirstInteriorAssumption DEF RoomAbove
    <3> QED  BY <3>3, <1>u DEF n
  <2>3. WrittenOK(T, Q, out.written)
    BY <1>u DEF WrittenOK, NoTable
  <2> QED  BY <1>9, <2>2, <2>3 DEF Wrote
<1>12. ~Refuses(T, Q)
  <2>1. \A j \in KeySpace : j # k => ~Foreign(T, j, Q[j])
    BY <1>1 DEF Foreign
  <2>2. ~Foreign(T, k, Q[k])
    BY <1>3 DEF Foreign
  <2> QED  BY <2>1, <2>2 DEF Refuses
<1>13. Right(T, U, d, I, {id}, Q, work, out)
  <2>1. /\ SubOK(U, out.built.id, d) /\ out.built = Reuse(U, out.built.id)
        /\ \A x \in new : U[x].key \in I
        /\ \A j \in KeySpace : Settled(T, U, {id}, new, j, Q2[j], work.output[j], out.work.output[j])
        /\ out.bubble \/ (({id} # {} => new # {}) /\ (Several({id}) => Several(new)))
    BY <1>9 DEF Right
  <2> HIDE DEF new
  <2>2. ASSUME NEW j \in KeySpace
        PROVE  Settled(T, U, {id}, new, j, Q[j], work.output[j], out.work.output[j])
    <3>1. Settled(T, U, {id}, new, j, NoEntry, work.output[j], out.work.output[j])
      BY <1>6, <2>1
    <3>2. For(U, new, j) = For(T, {id}, j)
      BY <3>1 DEF Settled
    <3>3. CASE j # k
      BY <1>1, <3>1, <3>3
    <3>4. CASE j = k
      <4>1. U[id].val = T[id].val
        BY <1>2, <1>u DEF With, NoTable, StoredLeaf
      <4>2. For(U, new, k) = {id} /\ id \in new
        BY <1>1, <3>2, <3>4 DEF For
      <4>3. out.work.output[k] = Empty
        BY <1>3, <1>u
      <4> QED  BY <1>1, <1>3, <3>4, <4>1, <4>2, <4>3 DEF Settled
    <3> QED  BY <3>3, <3>4
  <2> QED  BY <2>1, <2>2 DEF Right, new
<1>14. Met(T, d, I, b, {id}, Q, work, out)
  BY <1>11, <1>12, <1>13, <1>u DEF Met
<1> QED  BY <1>14 DEF out, Q

(* Every entry of a leaf's own key.                                        *)
LEMMA UpdateLeafMeets ==
  ASSUME NEW T, NEW d \in 0 .. Depth, NEW I, NEW b, NEW id, NEW begin, NEW end, NEW work, NEW k,
         Asked(T, d, I, b, {id}, begin, end, work), OwnEntry(T, id, begin, end, work, k)
  PROVE  Met(T, d, I, b, {id}, Asks(work, begin, end), work, UpdateLeaf(T, id, k, work))
<1> DEFINE out == UpdateLeaf(T, id, k, work)
<1>1. CASE work.updates[k].deletion
  <2>1. out = Return(Report(work, k, id), BuiltEmpty, TRUE)
    BY <1>1 DEF UpdateLeaf
  <2> QED  BY <1>1, <2>1, LeafDeleted
<1>2. CASE ~work.updates[k].deletion /\ work.updates[k].val = T[id].val
  <2>1. T[id].type = "Leaf"
    BY DEF OwnEntry, StoredLeaf
  <2>2. out = Return(work, Reuse(T, id), FALSE)
    BY <1>2, <2>1 DEF UpdateLeaf
  <2> QED  BY <1>2, <2>2, LeafKept
<1>3. CASE ~work.updates[k].deletion /\ work.updates[k].val # T[id].val
  <2>1. out = PutLeaf(T, work, k)
    BY <1>3 DEF UpdateLeaf
  <2>2. Window(work.updates, begin, end) = {k} /\ (\A x \in {id} : T[x].key = k) /\ ~Several({id})
    BY DEF OwnEntry, Several
  <2> QED  BY <1>3, <2>1, <2>2, PutLeafMeets
<1> QED  BY <1>1, <1>2, <1>3

(* The leaf that is split has joined the updates of the window, which are  *)
(* all still there but for deletions.                                      *)
SplitKey(id, key, updates, window, updates2, window2) ==
  /\ key \in window2
  /\ \/ key \in window /\ updates2[key] = updates[key]
     \/ key \notin window /\ updates2[key] = PutReuse(id)

OtherKey(k, updates, window, updates2, window2) ==
  \/ k \notin window /\ k \notin window2
  \/ k \in window /\ k \in window2 /\ updates2[k] = updates[k]
  \/ k \in window /\ k \notin window2 /\ updates[k].deletion

Splits(I, id, key, begin, end, work, split) ==
  /\ split.work \in Works /\ split.work.used = work.used /\ split.work.output = work.output
  /\ Iterators(split.work.updates, split.begin, end)
  /\ Window(split.work.updates, split.begin, end) \subseteq I
  /\ \A k \in KeySpace \ I : split.work.updates[k] = work.updates[k]
  /\ SplitKey(id, key, work.updates, Window(work.updates, begin, end),
              split.work.updates, Window(split.work.updates, split.begin, end))
  /\ \A k \in KeySpace \ {key} :
       OtherKey(k, work.updates, Window(work.updates, begin, end),
                split.work.updates, Window(split.work.updates, split.begin, end))

(* What a leaf is asked, of which the entry is no deletion.                *)
LeafStays(I, id, key, begin, end, work) ==
  /\ id \in Nat /\ id # Empty /\ key \in I /\ work \in Works
  /\ I \in SUBSET KeySpace /\ (\A j, k \in I, x \in KeySpace : j < x /\ x < k => x \in I)
  /\ \A k \in I : k < end
  /\ \A k \in I : k \in Present(work.updates) => begin <= k
  /\ Iterators(work.updates, begin, end) /\ Window(work.updates, begin, end) \subseteq I
  /\ key \in Window(work.updates, begin, end) => ~work.updates[key].deletion

(* A map to which one entry is added.                                      *)
Added(work, key, id, more) ==
  /\ more \in Works /\ more.used = work.used /\ more.output = work.output
  /\ more.updates[key] = PutReuse(id)
  /\ \A k \in KeySpace : k # key => more.updates[k] = work.updates[k]
  /\ Present(more.updates) = Present(work.updates) \cup {key}

(* It has the others as they were.                                         *)
LEMMA OneMore ==
  ASSUME NEW work \in Works, NEW key \in KeySpace, NEW id \in Nat
  PROVE  Added(work, key, id, [work EXCEPT !.updates[key] = PutReuse(id)])
<1> DEFINE more == [work EXCEPT !.updates[key] = PutReuse(id)]
<1>1. PutReuse(id) \in Update /\ PutReuse(id) # NoEntry
  BY DEF PutReuse, Update, NoEntry
<1>2. /\ work.updates \in [KeySpace -> Update \cup {NoEntry}]
      /\ work = [used |-> work.used, updates |-> work.updates, output |-> work.output]
      /\ work.used \in SUBSET Nat /\ work.output \in [KeySpace -> Nat]
  BY DEF Works
<1>3. /\ more.used = work.used /\ more.output = work.output
      /\ more.updates = [work.updates EXCEPT ![key] = PutReuse(id)]
      /\ more = [used |-> more.used, updates |-> more.updates, output |-> more.output]
  BY <1>2
<1> HIDE DEF more
<1>4. more.updates[key] = PutReuse(id) /\ \A k \in KeySpace : k # key => more.updates[k] = work.updates[k]
  BY <1>2, <1>3
<1>5. more.updates \in [KeySpace -> Update \cup {NoEntry}]
  BY <1>1, <1>2, <1>3
<1>6. more \in Works
  BY <1>2, <1>3, <1>5 DEF Works
<1>7. Present(more.updates) = Present(work.updates) \cup {key}
  BY <1>1, <1>4 DEF Present
<1>8. Added(work, key, id, more)
  BY <1>3, <1>4, <1>6, <1>7 DEF Added
<1> QED  BY <1>8 DEF more

(* AddSplitLeaf, after the deletions are erased.                           *)
LEMMA LeafSplits ==
  ASSUME NEW I, NEW id, NEW key, NEW begin, NEW end, NEW work,
         LeafStays(I, id, key, begin, end, work),
         NEW rest, Erased(work, begin, end, rest), rest.begin # end
  PROVE  Splits(I, id, key, begin, end, work, AddSplitLeaf(rest.work, key, id, rest.begin))
<1> DEFINE split  == AddSplitLeaf(rest.work, key, id, rest.begin)
           W      == Window(work.updates, begin, end)
           W1     == Window(rest.work.updates, rest.begin, end)
           W2     == Window(split.work.updates, split.begin, end)
           P      == Present(work.updates)
           P1     == Present(rest.work.updates)
<1>1. /\ id \in Nat /\ id # Empty /\ key \in I /\ work \in Works /\ key \in KeySpace
      /\ I \in SUBSET KeySpace /\ (\A j, k \in I, x \in KeySpace : j < x /\ x < k => x \in I)
      /\ \A k \in I : k < end
      /\ \A k \in I : k \in P => begin <= k
      /\ Iterators(work.updates, begin, end) /\ W \subseteq I
      /\ key \in W => ~work.updates[key].deletion
  BY DEF LeafStays
<1>2. /\ rest.work \in Works /\ rest.work.used = work.used /\ rest.work.output = work.output
      /\ begin <= rest.begin /\ Iterators(rest.work.updates, rest.begin, end)
      /\ \A k \in KeySpace :
           /\ k \in W1 <=> k \in W /\ ~work.updates[k].deletion
           /\ \/ rest.work.updates[k] = work.updates[k]
              \/ k \in W /\ work.updates[k].deletion /\ rest.work.updates[k] = NoEntry
           /\ k \in P1 /\ begin <= k /\ k < rest.begin => k \in W /\ work.updates[k].deletion
  BY DEF Erased
<1>3. /\ \A k : k \in W <=> k \in P /\ begin <= k /\ k < end
      /\ \A k : k \in W1 <=> k \in P1 /\ rest.begin <= k /\ k < end
      /\ \A k : k \in W2 <=> k \in Present(split.work.updates) /\ split.begin <= k /\ k < end
  BY DEF Window
<1>4. /\ \A k : k \in P <=> k \in KeySpace /\ work.updates[k] # NoEntry
      /\ \A k : k \in P1 <=> k \in KeySpace /\ rest.work.updates[k] # NoEntry
  BY DEF Present
<1>5. KeySpace \subseteq Nat /\ MapEnd \in Nat /\ KeySpace = 0 .. MapEnd - 1
  BY EndOfMap
<1>6. /\ begin \in Nat /\ end \in Nat /\ rest.begin \in Nat /\ begin < end /\ rest.begin < end /\ end <= MapEnd
      /\ rest.begin \in P1 /\ end \in P1 \cup {MapEnd}
  BY <1>1, <1>2, <1>5 DEF Iterators
<1> HIDE DEF W, W1, W2, P, P1, split
<1>7. rest.begin \in W1 /\ rest.begin \in I /\ rest.begin \in KeySpace
  BY <1>1, <1>2, <1>3, <1>4, <1>6
<1>8. CASE key \in P1
  <2>1. split = [work |-> rest.work, begin |-> rest.begin]
    BY <1>8 DEF split, AddSplitLeaf, P1
  <2>2. split.work = rest.work /\ split.begin = rest.begin /\ W2 = W1
    BY <2>1 DEF W1, W2
  <2>3. key \in W /\ key \in W1 /\ rest.work.updates[key] = work.updates[key]
    <3>1. rest.work.updates[key] = work.updates[key]
      BY <1>1, <1>2, <1>4, <1>8
    <3>2. key \in P
      BY <1>1, <1>4, <1>8, <3>1
    <3>3. key \in W
      BY <1>1, <1>3, <3>2
    <3> QED  BY <1>1, <1>2, <3>1, <3>3
  <2>4. ASSUME NEW k \in KeySpace \ {key}
        PROVE  OtherKey(k, work.updates, W, rest.work.updates, W1)
    <3>1. NoEntry # work.updates[k] => rest.work.updates[k] = work.updates[k] \/ work.updates[k].deletion
      BY <1>2
    <3>2. k \in W1 => rest.work.updates[k] = work.updates[k]
      BY <1>2
    <3>3. k \in W1 <=> k \in W /\ ~work.updates[k].deletion
      BY <1>2
    <3> QED  BY <3>2, <3>3 DEF OtherKey
  <2>5. W1 \subseteq I
    <3>1. W1 \subseteq KeySpace
      BY <1>3, <1>4
    <3> QED  BY <1>1, <1>2, <3>1
  <2>6. SplitKey(id, key, work.updates, W, rest.work.updates, W1)
    BY <2>3 DEF SplitKey
  <2>7. \A k \in KeySpace \ I : rest.work.updates[k] = work.updates[k]
    BY <1>1, <1>2
  <2>8. Splits(I, id, key, begin, end, work, split)
    BY <1>2, <2>2, <2>4, <2>5, <2>6, <2>7 DEF Splits, W, W1
  <2> QED  BY <2>8 DEF split
<1>9. CASE key \notin P1
  <2> DEFINE more == [rest.work EXCEPT !.updates[key] = PutReuse(id)]
             P2   == Present(more.updates)
  <2>1. split = [work |-> more, begin |-> IF key < rest.begin THEN key ELSE rest.begin]
    BY <1>9 DEF split, AddSplitLeaf, P1
  <2>2. /\ more \in Works /\ more.used = work.used /\ more.output = work.output
        /\ more.updates[key] = PutReuse(id)
        /\ \A k \in KeySpace : k # key => more.updates[k] = rest.work.updates[k]
        /\ P2 = P1 \cup {key}
    <3>1. Added(rest.work, key, id, more)
      BY <1>1, <1>2, OneMore
    <3>2. Present(more.updates) = Present(rest.work.updates) \cup {key}
      BY <3>1 DEF Added
    <3>3. P2 = P1 \cup {key}
      BY <3>2 DEF P1
    <3> HIDE DEF more, P2
    <3>4. /\ more \in Works /\ more.used = rest.work.used /\ more.output = rest.work.output
          /\ more.updates[key] = PutReuse(id)
      BY <3>1 DEF Added
    <3>5. \A k \in KeySpace : k # key => more.updates[k] = rest.work.updates[k]
      BY <3>1 DEF Added
    <3> QED  BY <1>2, <3>3, <3>4, <3>5
  <2> HIDE DEF more
  <2>3. split.work = more /\ split.begin = IF key < rest.begin THEN key ELSE rest.begin
    BY <2>1
  <2>4. \A k : k \in W2 <=> k \in P2 /\ split.begin <= k /\ k < end
    BY <1>3, <2>3
  <2> HIDE DEF P2
  <2>5. /\ split.begin \in Nat /\ split.begin \in P2 /\ split.begin <= key /\ split.begin <= rest.begin
        /\ key \in Nat /\ key < end
    BY <1>1, <1>5, <1>6, <2>2, <2>3
  <2>6. Iterators(more.updates, split.begin, end)
    <3>1. split.begin < end /\ split.begin \in 0 .. MapEnd /\ end \in 0 .. MapEnd
      BY <1>5, <1>6, <2>5
    <3>2. end \in P2 \cup {MapEnd}
      BY <1>6, <2>2
    <3> QED  BY <2>5, <3>1, <3>2 DEF Iterators, P2
  <2>7. key \notin W
    <3>1. key \in W => key \in W1
      BY <1>1, <1>2
    <3> QED  BY <1>3, <1>9, <3>1
  <2>8. SplitKey(id, key, work.updates, W, more.updates, W2)
    <3>1. key \in W2
      BY <2>2, <2>4, <2>5
    <3> QED  BY <2>2, <2>7, <3>1 DEF SplitKey
  <2>9. ASSUME NEW k \in W2, k # key
        PROVE  k \in KeySpace /\ k \in W /\ more.updates[k] = work.updates[k]
    <3>1. k \in P1 /\ k \in KeySpace /\ split.begin <= k /\ k < end /\ k \in Nat
      BY <1>4, <1>5, <2>2, <2>4, <2>9
    <3>2. more.updates[k] = rest.work.updates[k] /\ rest.work.updates[k] # NoEntry
      BY <1>4, <2>2, <2>9, <3>1
    <3>3. rest.work.updates[k] = work.updates[k]
      BY <1>2, <3>1, <3>2
    <3>4. CASE rest.begin <= k
      <4>1. k \in W1
        BY <1>3, <3>1, <3>4
      <4> QED  BY <1>2, <3>1, <3>2, <3>3, <4>1
    <3>5. CASE k < rest.begin
      <4>1. key <= k
        BY <1>6, <2>3, <2>5, <3>1, <3>5
      <4>2. key < k
        BY <2>5, <2>9, <3>1, <4>1
      <4>3. k \in I
        BY <1>1, <1>7, <3>1, <3>5, <4>2
      <4>4. k \in P
        BY <1>4, <3>1, <3>2, <3>3
      <4>5. begin <= k
        BY <1>1, <4>3, <4>4
      <4>6. k \in W
        BY <1>3, <3>1, <4>4, <4>5
      <4> QED  BY <3>1, <3>2, <3>3, <4>6
    <3> QED  BY <1>6, <3>1, <3>4, <3>5
  <2>10. ASSUME NEW k \in KeySpace \ {key}
         PROVE  OtherKey(k, work.updates, W, more.updates, W2)
    <3>1. CASE k \in W2
      BY <2>9, <3>1 DEF OtherKey
    <3>2. CASE k \notin W2 /\ k \in W
      <4>1. CASE work.updates[k].deletion
        BY <3>2, <4>1 DEF OtherKey
      <4>2. CASE ~work.updates[k].deletion
        <5>1. k \in W1
          BY <1>2, <3>2, <4>2
        <5>2. k \in P2 /\ rest.begin <= k /\ k < end /\ k \in Nat
          BY <1>3, <1>5, <2>2, <5>1
        <5>3. split.begin <= k
          BY <1>6, <2>5, <5>2
        <5> QED  BY <2>4, <3>2, <5>2, <5>3
      <4> QED  BY <4>1, <4>2
    <3>3. CASE k \notin W2 /\ k \notin W
      BY <3>3 DEF OtherKey
    <3> QED  BY <3>1, <3>2, <3>3
  <2>11. W2 \subseteq I
    BY <1>1, <2>9
  <2>12. ASSUME NEW k \in KeySpace \ I
         PROVE  more.updates[k] = work.updates[k]
    <3>1. k # key /\ k \notin W
      BY <1>1
    <3> QED  BY <1>2, <2>2, <3>1
  <2>13. Splits(I, id, key, begin, end, work, split)
    BY <2>2, <2>3, <2>6, <2>8, <2>10, <2>11, <2>12 DEF Splits, W, W2
  <2> QED  BY <2>13 DEF split
<1> QED  BY <1>8, <1>9

(* What a call is asked that meets a leaf.                                 *)
AtLeaf(T, d, I, b, id, begin, end, work) ==
  /\ Asked(T, d, I, b, {id}, begin, end, work) /\ begin # end
  /\ id \in Nat /\ id # Empty /\ StoredLeaf(T, id)
  /\ \A k \in I : k \in Present(work.updates) => begin <= k

(* The leaf that is split is asked for, in the place of what is there.     *)
LEMMA SplitRestated ==
  ASSUME NEW T, NEW d, NEW I, NEW b, NEW id, NEW begin, NEW end, NEW work,
         AtLeaf(T, d, I, b, id, begin, end, work), NEW key, key = T[id].key,
         key \in Window(work.updates, begin, end) => ~work.updates[key].deletion,
         NEW split, Splits(I, id, key, begin, end, work, split)
  PROVE  RestatedAll(T, I, {id}, Asks(work, begin, end), work, {}, Asks(split.work, split.begin, end), split.work)
<1> DEFINE Q  == Asks(work, begin, end)
           Q2 == Asks(split.work, split.begin, end)
           W  == Window(work.updates, begin, end)
           W2 == Window(split.work.updates, split.begin, end)
<1>1. /\ split.work \in Works /\ split.work.used = work.used /\ split.work.output = work.output
      /\ \A k \in KeySpace \ I : split.work.updates[k] = work.updates[k]
      /\ SplitKey(id, key, work.updates, W, split.work.updates, W2)
      /\ \A k \in KeySpace \ {key} : OtherKey(k, work.updates, W, split.work.updates, W2)
  BY DEF Splits
<1>2. Asked(T, d, I, b, {id}, begin, end, work) /\ key \in KeySpace /\ id # Empty /\ id \in Nat
  BY DEF AtLeaf, StoredLeaf
<1>3. work \in Works
  BY <1>2 DEF Asked, Running
<1>4. \A k \in KeySpace : /\ Q[k] = IF k \in W THEN work.updates[k] ELSE NoEntry
                          /\ Q2[k] = IF k \in W2 THEN split.work.updates[k] ELSE NoEntry
  BY DEF Asks
<1>5. ASSUME NEW k \in KeySpace, Q[k] # NoEntry
      PROVE  /\ k \in W /\ Q[k] = work.updates[k] /\ EntryOK(T, Q[k], {id})
             /\ Q[k].override = Empty => work.output[k] = Empty
  <2> HIDE DEF Q
  <2>1. Q = Asks(work, begin, end)
    BY DEF Q
  <2> QED  BY <1>2, <1>5, <2>1, AskedOf
<1>6. \A k \in W : k \in KeySpace /\ work.updates[k] # NoEntry
  BY DEF Window, Present
<1> HIDE DEF Q, Q2, W, W2
<1>7. ASSUME NEW k \in KeySpace
      PROVE  Restated(T, {id}, {}, k, Q[k], work.output[k], Q2[k], split.work.output[k])
  <2>1. For(T, {}, k) = {}
    BY DEF For
  <2>2. CASE k = key
    <3>1. For(T, {id}, k) = {id}
      BY <2>2 DEF For
    <3>2. CASE key \in W /\ key \in W2 /\ split.work.updates[key] = work.updates[key]
      <4>1. Q2[k] = Q[k] /\ Q[k] # NoEntry /\ ~Q[k].deletion
        BY <1>4, <1>6, <2>2, <3>2 DEF W
      <4> QED  BY <1>1, <2>1, <4>1 DEF Restated
    <3>3. CASE key \notin W /\ key \in W2 /\ split.work.updates[key] = PutReuse(id)
      <4>1. Q[k] = NoEntry /\ Q2[k] = PutReuse(id)
        BY <1>4, <2>2, <3>3
      <4> QED  BY <1>2, <2>1, <2>2, <3>1, <4>1 DEF Restated
    <3> QED  BY <1>1, <3>2, <3>3 DEF SplitKey
  <2>3. CASE k # key
    <3>1. For(T, {id}, k) = {}
      BY <2>3 DEF For
    <3>2. OtherKey(k, work.updates, W, split.work.updates, W2)
      BY <1>1, <2>3
    <3>3. CASE k \notin W /\ k \notin W2
      <4>1. Q2[k] = Q[k]
        BY <1>4, <3>3
      <4> QED  BY <1>1, <2>1, <3>1, <4>1 DEF Restated
    <3>4. CASE k \in W /\ k \in W2 /\ split.work.updates[k] = work.updates[k]
      <4>1. Q2[k] = Q[k]
        BY <1>4, <3>4
      <4> QED  BY <1>1, <2>1, <3>1, <4>1 DEF Restated
    <3>5. CASE k \in W /\ k \notin W2 /\ work.updates[k].deletion
      <4>1. Q[k] # NoEntry /\ Q[k].deletion /\ Q2[k] = NoEntry
        BY <1>4, <1>6, <3>5
      <4>2. Q[k].override = Empty /\ work.output[k] = Empty
        BY <1>5, <4>1 DEF EntryOK
      <4> QED  BY <1>1, <2>1, <3>1, <4>1, <4>2 DEF Restated
    <3> QED  BY <3>2, <3>3, <3>4, <3>5 DEF OtherKey
  <2> QED  BY <2>2, <2>3
<1>8. RestatedAll(T, I, {id}, Q, work, {}, Q2, split.work)
  BY <1>1, <1>7 DEF RestatedAll
<1> QED  BY <1>8 DEF Q, Q2

(* And it can be asked for.                                                *)
LEMMA SplitIsAsked ==
  ASSUME NEW T, NEW d, NEW I, NEW b, NEW id, NEW begin, NEW end, NEW work,
         AtLeaf(T, d, I, b, id, begin, end, work), NEW key, key = T[id].key,
         key \in Window(work.updates, begin, end) => ~work.updates[key].deletion,
         NEW split, Splits(I, id, key, begin, end, work, split)
  PROVE  Asked(T, d, I, b, {}, split.begin, end, split.work)
<1> DEFINE W  == Window(work.updates, begin, end)
           W2 == Window(split.work.updates, split.begin, end)
<1>1. /\ split.work \in Works /\ split.work.output = work.output
      /\ Iterators(split.work.updates, split.begin, end) /\ W2 \subseteq I
      /\ SplitKey(id, key, work.updates, W, split.work.updates, W2)
      /\ \A k \in KeySpace \ {key} : OtherKey(k, work.updates, W, split.work.updates, W2)
  BY DEF Splits
<1>2. /\ Asked(T, d, I, b, {id}, begin, end, work) /\ id # Empty /\ StoredLeaf(T, id)
  BY DEF AtLeaf
<1>3. /\ \A k \in W : EntryOK(T, work.updates[k], {id}) /\ (work.updates[k].override = Empty => work.output[k] = Empty)
      /\ I \subseteq KeySpace
  BY <1>2 DEF Asked, Region
<1> HIDE DEF W, W2
<1>4. ASSUME NEW k \in W2
      PROVE  /\ EntryOK(T, split.work.updates[k], {})
             /\ split.work.updates[k].override = Empty => split.work.output[k] = Empty
  <2>1. \/ k \in W /\ split.work.updates[k] = work.updates[k]
        \/ split.work.updates[k] = PutReuse(id)
    BY <1>1, <1>3 DEF SplitKey, OtherKey
  <2>2. CASE k \in W /\ split.work.updates[k] = work.updates[k]
    <3>1. EntryOK(T, work.updates[k], {id}) /\ (work.updates[k].override = Empty => work.output[k] = Empty)
      BY <1>3, <2>2
    <3>2. EntryOK(T, work.updates[k], {})
      BY <3>1 DEF EntryOK
    <3> QED  BY <1>1, <2>2, <3>1, <3>2
  <2>3. CASE split.work.updates[k] = PutReuse(id)
    <3>1. PutReuse(id).override = id /\ ~PutReuse(id).deletion /\ PutReuse(id).val = EmptyVal
      BY DEF PutReuse
    <3>2. EntryOK(T, PutReuse(id), {})
      BY <1>2, <3>1 DEF EntryOK
    <3> QED  BY <1>2, <2>3, <3>1, <3>2
  <2> QED  BY <2>1, <2>2, <2>3
<1>5. {} \subseteq {id}
  OBVIOUS
<1>6. RestatedAll(T, I, {id}, Asks(work, begin, end), work, {}, Asks(split.work, split.begin, end), split.work)
  BY SplitRestated
<1> QED  BY <1>1, <1>2, <1>4, <1>5, <1>6, AskedAgain DEF W2

(* A window that has more than the entry of the leaf has deletions, or two *)
(* leaves at least are asked for.                                          *)
LEMMA SplitLeavesTwo ==
  ASSUME NEW T, NEW d, NEW I, NEW b, NEW id, NEW begin, NEW end, NEW work,
         AtLeaf(T, d, I, b, id, begin, end, work), NEW key, key = T[id].key,
         key \in Window(work.updates, begin, end) => ~work.updates[key].deletion,
         NEW split, Splits(I, id, key, begin, end, work, split),
         NEW k \in Window(work.updates, begin, end), k # key, ~work.updates[k].deletion
  PROVE  TwoPuts(Asks(split.work, split.begin, end))
<1> DEFINE Q2 == Asks(split.work, split.begin, end)
           W  == Window(work.updates, begin, end)
           W2 == Window(split.work.updates, split.begin, end)
<1>1. /\ SplitKey(id, key, work.updates, W, split.work.updates, W2)
      /\ \A j \in KeySpace \ {key} : OtherKey(j, work.updates, W, split.work.updates, W2)
  BY DEF Splits
<1>2. key \in KeySpace /\ k \in KeySpace
  BY WindowsHaveKeys DEF AtLeaf, StoredLeaf
<1>3. \A j \in W2 : j \in KeySpace /\ Q2[j] = split.work.updates[j] /\ split.work.updates[j] # NoEntry
  BY DEF Asks, Window, Present
<1>4. ~PutReuse(id).deletion
  BY DEF PutReuse
<1>5. k \in W
  OBVIOUS
<1> HIDE DEF Q2, W2
<1>6. k \in W2 /\ split.work.updates[k] = work.updates[k]
  <2> HIDE DEF W
  <2> QED  BY <1>1, <1>2, <1>5 DEF OtherKey
<1>7. key \in W2 /\ ~split.work.updates[key].deletion
  BY <1>1, <1>4 DEF SplitKey
<1>8. /\ Q2[k] # NoEntry /\ ~Q2[k].deletion /\ Q2[key] # NoEntry /\ ~Q2[key].deletion
  BY <1>3, <1>6, <1>7
<1>9. TwoPuts(Q2)
  BY <1>2, <1>8 DEF TwoPuts
<1> QED  BY <1>9 DEF Q2

(* A leaf that is deleted, with other entries in its window.               *)
LEMMA LeafGone ==
  ASSUME NEW T, NEW d \in 0 .. Depth - 1, NEW I, NEW b, NEW id, NEW begin, NEW end, NEW work,
         AtLeaf(T, d, I, b, id, begin, end, work), NEW key, key = T[id].key,
         key \in Window(work.updates, begin, end), work.updates[key].deletion,
         NEW deeper, Meets(T, deeper, d + 1),
         NEW rest, Erased(Report(work, key, id), begin, end, rest)
  PROVE  Met(T, d, I, b, {id}, Asks(work, begin, end), work,
             IF rest.begin = end THEN Return(rest.work, BuiltEmpty, TRUE)
             ELSE PutBelow(Frame(T, d, deeper), T[id], rest.begin, end, rest.work, TRUE))
<1> DEFINE Q     == Asks(work, begin, end)
           Q2    == Asks(rest.work, rest.begin, end)
           work1 == Report(work, key, id)
           out1  == Return(rest.work, Reuse(T, Empty), TRUE)
           out2  == PutBelow(Frame(T, d, deeper), T[id], rest.begin, end, rest.work, TRUE)
<1>1. /\ Asked(T, d, I, b, {id}, begin, end, work) /\ id # Empty /\ id \in Nat /\ StoredLeaf(T, id)
      /\ key \in KeySpace /\ d \in 0 .. Depth
  BY DepthAssumption DEF AtLeaf, StoredLeaf
<1>2. work \in Works
  BY <1>1 DEF Asked, Running
<1>3. ReportedTo(work, key, id, work1)
  BY <1>1, <1>2, Reported
<1>4. Erased(work1, begin, end, rest)
  OBVIOUS
<1> HIDE DEF work1
<1>5. work1 \in Works /\ work1.used = work.used /\ work1.updates = work.updates
  BY <1>3 DEF ReportedTo
<1>6. \A k \in KeySpace : k # key => work1.output[k] = work.output[k] /\ For(T, {id}, k) = {}
  BY <1>3 DEF ReportedTo, For
<1>7. work1.output[key] = id /\ For(T, {id}, key) = {id} /\ \A k : For(T, {}, k) = {}
  BY <1>3 DEF ReportedTo, For
<1>8. Q[key] # NoEntry /\ Q[key].deletion
  <2>1. Q[key] = work.updates[key]
    BY <1>1 DEF Asks
  <2>2. work.updates[key] # NoEntry
    BY DEF Window, Present
  <2> QED  BY <2>1, <2>2
<1> HIDE DEF Q
<1>9. \A k \in KeySpace :
        \/ work1.output[k] = work.output[k] /\ For(T, {id}, k) = For(T, {}, k)
           /\ (Q[k].deletion => For(T, {id}, k) = {})
        \/ /\ Q[k] # NoEntry /\ Q[k].deletion
           /\ work1.output[k] # Empty /\ For(T, {id}, k) = {work1.output[k]} /\ For(T, {}, k) = {}
  BY <1>1, <1>6, <1>7, <1>8
<1>10. RestatedAll(T, I, {id}, Q, work, {}, Q2, rest.work)
  BY <1>1, <1>4, <1>5, <1>9, DeletionsRestated DEF Q
<1>11. Asked(T, d, I, b, {}, rest.begin, end, rest.work)
  <2>1. \A k \in KeySpace : ~Q[k].deletion => work1.output[k] = work.output[k]
    BY <1>6, <1>8
  <2>2. {} \subseteq {id}
    OBVIOUS
  <2> QED  BY <1>1, <1>4, <1>5, <1>10, <2>1, <2>2, RestIsAsked DEF Q
<1>12. ~Several({id})
  BY DEF Several
<1>13. CASE rest.begin = end
  <2>1. Running(T, rest.work) /\ RoomAbove(rest.work.used, b) /\ Iterators(rest.work.updates, rest.begin, end)
    BY <1>11 DEF Asked
  <2>2. \A k \in KeySpace : Q2[k] = NoEntry
    <3>1. rest.begin \in Nat /\ Present(rest.work.updates) \subseteq Nat
      BY <2>1, EndOfMap, WindowsHaveKeys DEF Iterators
    <3>2. Window(rest.work.updates, rest.begin, end) = {}
      BY <1>13, <3>1 DEF Window
    <3> QED  BY <3>2 DEF Asks
  <2> HIDE DEF Q2
  <2>3. SubOK(T, Empty, d) /\ Leaves(T, Empty) = {}
    BY EmptyIsATree
  <2>4. \A x \in Leaves(T, Empty) : T[x].key \in I
    BY <2>3
  <2>5. Met(T, d, I, b, Leaves(T, Empty), Q2, rest.work, out1)
    BY <1>1, <2>1, <2>2, <2>3, <2>4, ReturnMeets
  <2>6. Met(T, d, I, b, {}, Q2, rest.work, out1)
    BY <2>3, <2>5
  <2>7. ManyLeft(T, out1)
    BY DEF ManyLeft, Return
  <2> HIDE DEF out1
  <2>8. Met(T, d, I, b, {id}, Q, work, out1)
    BY <1>10, <1>12, <2>6, <2>7, MeetsAsAsked
  <2>9. out1 = Return(rest.work, BuiltEmpty, TRUE)
    BY DEF out1, BuiltEmpty, Reuse, ParsedNode
  <2> QED  BY <1>13, <2>8, <2>9 DEF Q
<1>14. CASE rest.begin # end
  <2>1. T[id].left = Empty /\ T[id].right = Empty
    BY <1>1 DEF StoredLeaf
  <2>2. Below(T, d, I, {}, T[id], rest.begin, rest.work)
    <3>1. SubOK(T, Empty, d + 1) /\ Leaves(T, Empty) = {}
      BY EmptyIsATree
    <3> QED  BY <2>1, <3>1 DEF Below, SidesOK
  <2>3. MetWithMany(T, d, I, b, {}, Q2, rest.work, out2)
    BY <1>11, <2>2, PutBelowMeets
  <2> HIDE DEF Q2, out2
  <2>4. Met(T, d, I, b, {}, Q2, rest.work, out2) /\ ManyLeft(T, out2)
    BY <2>3 DEF MetWithMany
  <2>5. Met(T, d, I, b, {id}, Q, work, out2)
    BY <1>10, <1>12, <2>4, MeetsAsAsked
  <2> QED  BY <1>14, <2>5 DEF Q, out2
<1> QED  BY <1>13, <1>14

(* One that is not, when only deletions of other keys are there.           *)
LEMMA LeafAlone ==
  ASSUME NEW T, NEW d \in 0 .. Depth, NEW I, NEW b, NEW id, NEW begin, NEW end, NEW work,
         AtLeaf(T, d, I, b, id, begin, end, work), NEW key, key = T[id].key,
         key \in Window(work.updates, begin, end) => ~work.updates[key].deletion,
         NEW rest, Erased(work, begin, end, rest), rest.begin = end
  PROVE  Met(T, d, I, b, {id}, Asks(work, begin, end), work, Return(rest.work, Reuse(T, id), FALSE))
<1> DEFINE Q   == Asks(work, begin, end)
           Q2  == Asks(rest.work, rest.begin, end)
           out == Return(rest.work, Reuse(T, id), FALSE)
<1>1. /\ Asked(T, d, I, b, {id}, begin, end, work) /\ id # Empty /\ id \in Nat /\ StoredLeaf(T, id)
      /\ key \in KeySpace
  BY DEF AtLeaf, StoredLeaf
<1>2. work \in Works /\ T[id].key \in I
  BY <1>1 DEF Asked, Running
<1>3. \A k \in KeySpace : Q[k].deletion => For(T, {id}, k) = {}
  <2>1. ~NoEntry.deletion
    BY DEF NoEntry
  <2>2. ~Q[key].deletion
    BY <1>1, <2>1 DEF Asks
  <2>3. \A k : k # key => For(T, {id}, k) = {}
    BY DEF For
  <2> QED  BY <2>2, <2>3
<1> HIDE DEF Q
<1>4. RestatedAll(T, I, {id}, Q, work, {id}, Q2, rest.work)
  BY <1>1, <1>2, <1>3, DeletionsRestated DEF Q
<1>5. Asked(T, d, I, b, {id}, rest.begin, end, rest.work)
  BY <1>1, <1>2, <1>4, RestIsAsked DEF Q
<1>6. Running(T, rest.work) /\ RoomAbove(rest.work.used, b) /\ Iterators(rest.work.updates, rest.begin, end)
  BY <1>5 DEF Asked
<1>7. \A k \in KeySpace : Q2[k] = NoEntry
  <2>1. rest.begin \in Nat /\ Present(rest.work.updates) \subseteq Nat
    BY <1>6, EndOfMap, WindowsHaveKeys DEF Iterators
  <2>2. Window(rest.work.updates, rest.begin, end) = {}
    BY <2>1 DEF Window
  <2> QED  BY <2>2 DEF Asks
<1> HIDE DEF Q2
<1>8. SubOK(T, id, d) /\ Leaves(T, id) = {id}
  BY <1>1, LeafIsATree
<1>9. \A x \in Leaves(T, id) : T[x].key \in I
  BY <1>2, <1>8
<1>10. Met(T, d, I, b, Leaves(T, id), Q2, rest.work, out)
  BY <1>6, <1>7, <1>8, <1>9, ReturnMeets
<1>11. Met(T, d, I, b, {id}, Q2, rest.work, out)
  BY <1>8, <1>10
<1> HIDE DEF out
<1>12. Met(T, d, I, b, {id}, Q, work, out)
  BY <1>4, <1>11, MeetsAsAsked
<1> QED  BY <1>12 DEF Q, out

(* And one that is split.                                                  *)
LEMMA LeafIsSplit ==
  ASSUME NEW T, NEW d \in 0 .. Depth - 1, NEW I, NEW b, NEW id, NEW begin, NEW end, NEW work,
         AtLeaf(T, d, I, b, id, begin, end, work), NEW key, key = T[id].key,
         key \in Window(work.updates, begin, end) => ~work.updates[key].deletion,
         NEW deeper, Meets(T, deeper, d + 1),
         NEW split, Splits(I, id, key, begin, end, work, split),
         NEW check, check \/ TwoPuts(Asks(split.work, split.begin, end))
  PROVE  Met(T, d, I, b, {id}, Asks(work, begin, end), work,
             PutBelow(Frame(T, d, deeper), T[id], split.begin, end, split.work, check))
<1> DEFINE Q   == Asks(work, begin, end)
           Q2  == Asks(split.work, split.begin, end)
           out == PutBelow(Frame(T, d, deeper), T[id], split.begin, end, split.work, check)
<1>1. RestatedAll(T, I, {id}, Q, work, {}, Q2, split.work)
  BY SplitRestated
<1>2. Asked(T, d, I, b, {}, split.begin, end, split.work)
  BY SplitIsAsked
<1>3. T[id].left = Empty /\ T[id].right = Empty
  BY DEF AtLeaf, StoredLeaf
<1>4. Below(T, d, I, {}, T[id], split.begin, split.work)
  <2>1. SubOK(T, Empty, d + 1) /\ Leaves(T, Empty) = {}
    BY EmptyIsATree
  <2> QED  BY <1>3, <2>1 DEF Below, SidesOK
<1>5. MetWithMany(T, d, I, b, {}, Q2, split.work, out)
  BY <1>2, <1>4, PutBelowMeets
<1> HIDE DEF Q, Q2, out
<1>6. Met(T, d, I, b, {}, Q2, split.work, out) /\ ManyLeft(T, out) /\ ~Several({id})
  BY <1>5 DEF MetWithMany, Several
<1>7. Met(T, d, I, b, {id}, Q, work, out)
  BY <1>1, <1>6, MeetsAsAsked
<1> QED  BY <1>7 DEF Q, out

(* Updates of a leaf.                                                      *)
LEMMA PutIntoLeafMeets ==
  ASSUME NEW T, NEW d \in 0 .. Depth, NEW I, NEW b, NEW id, NEW begin, NEW end, NEW work,
         AtLeaf(T, d, I, b, id, begin, end, work),
         NEW deeper, d < Depth => Meets(T, deeper, d + 1)
  PROVE  Met(T, d, I, b, {id}, Asks(work, begin, end), work,
             PutIntoLeaf(Frame(T, d, deeper), id, begin, end, work))
<1> DEFINE key     == T[id].key
           window  == Window(work.updates, begin, end)
           deleted == {k \in window : work.updates[k].deletion}
           out     == PutIntoLeaf(Frame(T, d, deeper), id, begin, end, work)
<1>1. /\ Asked(T, d, I, b, {id}, begin, end, work) /\ id # Empty /\ id \in Nat /\ StoredLeaf(T, id)
      /\ key \in KeySpace /\ begin # end
  BY DEF AtLeaf, StoredLeaf
<1>2. /\ Region(I, d) /\ Iterators(work.updates, begin, end) /\ window \subseteq I /\ key \in I /\ work \in Works
      /\ \A k \in I : k < end
  BY <1>1 DEF Asked, Running
<1>3. begin \in window
  BY <1>1, <1>2, OneInWindow
<1>4. Frame(T, d, deeper).nodes = T
  BY DEF Frame
<1>5. CASE window = {key}
  <2>1. begin = key
    BY <1>3, <1>5
  <2>2. out = UpdateLeaf(T, id, key, work)
    BY <1>4, <1>5, <2>1 DEF PutIntoLeaf
  <2>3. OwnEntry(T, id, begin, end, work, key)
    BY <1>1, <1>5 DEF OwnEntry
  <2> QED  BY <1>1, <2>2, <2>3, UpdateLeafMeets
<1>6. CASE window # {key}
  <2>1. PICK k \in window : k # key
    BY <1>3, <1>6
  <2>2. d \in 0 .. Depth - 1
    BY <1>2, <2>1, RoomBelow
  <2>3. Meets(T, deeper, d + 1)
    BY <2>2, DepthAssumption
  <2>4. CASE key \in deleted
    <3> DEFINE work1 == Report(work, key, id)
               rest  == EraseDeletions(work1, begin, end)
    <3>1. out = IF rest.begin # end
                THEN PutBelow(Frame(T, d, deeper), T[id], rest.begin, end, rest.work, deleted # {})
                ELSE Return(rest.work, BuiltEmpty, TRUE)
      BY <1>4, <1>6, <2>4 DEF PutIntoLeaf
    <3>2. ReportedTo(work, key, id, work1)
      BY <1>1, <1>2, Reported
    <3> HIDE DEF work1
    <3>3. work1 \in Works /\ Iterators(work1.updates, begin, end)
      BY <1>2, <3>2 DEF ReportedTo
    <3>4. Erased(work1, begin, end, rest)
      BY <1>1, <3>3, DeletionsErased
    <3> HIDE DEF rest
    <3>5. Erased(Report(work, key, id), begin, end, rest)
      BY <3>4 DEF work1
    <3>6. (deleted # {}) = TRUE /\ key \in window /\ work.updates[key].deletion
      BY <2>4
    <3>7. Met(T, d, I, b, {id}, Asks(work, begin, end), work,
             IF rest.begin = end THEN Return(rest.work, BuiltEmpty, TRUE)
             ELSE PutBelow(Frame(T, d, deeper), T[id], rest.begin, end, rest.work, TRUE))
      BY <2>2, <2>3, <3>5, <3>6, LeafGone
    <3> HIDE DEF out, deleted
    <3> QED  BY <3>1, <3>6, <3>7 DEF out
  <2>5. CASE key \notin deleted
    <3> DEFINE rest  == EraseDeletions(work, begin, end)
               split == AddSplitLeaf(rest.work, key, id, rest.begin)
    <3>1. out = IF rest.begin # end
                THEN PutBelow(Frame(T, d, deeper), T[id], split.begin, end, split.work, deleted # {})
                ELSE Return(rest.work, Reuse(T, id), FALSE)
      BY <1>4, <1>6, <2>5 DEF PutIntoLeaf
    <3>2. Erased(work, begin, end, rest)
      BY <1>1, <1>2, DeletionsErased
    <3> HIDE DEF rest
    <3>3. key \in window => ~work.updates[key].deletion
      BY <2>5
    <3>4. CASE rest.begin = end
      <4>1. out = Return(rest.work, Reuse(T, id), FALSE)
        BY <3>1, <3>4
      <4> QED  BY <3>2, <3>3, <3>4, <4>1, LeafAlone
    <3>5. CASE rest.begin # end
      <4>1. LeafStays(I, id, key, begin, end, work)
        BY <1>1, <1>2, <3>3 DEF LeafStays, AtLeaf, Region
      <4>2. Splits(I, id, key, begin, end, work, split)
        BY <3>2, <3>5, <4>1, LeafSplits
      <4> HIDE DEF split
      <4>3. (deleted # {}) \/ TwoPuts(Asks(split.work, split.begin, end))
        <5>1. CASE deleted # {}
          BY <5>1
        <5>2. CASE deleted = {}
          <6>1. ~work.updates[k].deletion
            BY <2>1, <5>2
          <6> QED  BY <2>1, <3>3, <4>2, <6>1, SplitLeavesTwo
        <5> QED  BY <5>1, <5>2
      <4> DEFINE check == deleted # {}
      <4>4. check \/ TwoPuts(Asks(split.work, split.begin, end))
        BY <4>3
      <4>5. out = PutBelow(Frame(T, d, deeper), T[id], split.begin, end, split.work, check)
        BY <3>1, <3>5
      <4> HIDE DEF check, out
      <4>6. Met(T, d, I, b, {id}, Asks(work, begin, end), work,
             PutBelow(Frame(T, d, deeper), T[id], split.begin, end, split.work, check))
        BY <2>2, <2>3, <3>3, <4>2, <4>4, LeafIsSplit
      <4> QED  BY <4>5, <4>6 DEF out
    <3> QED  BY <3>4, <3>5
  <2> QED  BY <2>4, <2>5
<1> QED  BY <1>5, <1>6

---------------------------------------------------------------------------
(* All of putAux, and all calls of it, from the last level up.             *)

(* A call of putAux.                                                       *)
LEMMA PutAuxMeets ==
  ASSUME NEW T, NEW d \in 0 .. Depth, NEW I, NEW b, NEW id, NEW begin, NEW end, NEW work,
         Ready(T, d, I, b, id, begin, end, work),
         NEW deeper, d < Depth => Meets(T, deeper, d + 1)
  PROVE  Met(T, d, I, b, Leaves(T, id), Asks(work, begin, end), work,
             PutAux(Frame(T, d, deeper), PutCall(id, begin, end, work)))
<1> DEFINE call  == PutCall(id, begin, end, work)
           frame == Frame(T, d, deeper)
           out   == PutAux(frame, call)
           Q     == Asks(work, begin, end)
<1>1. /\ call.id = id /\ call.begin = begin /\ call.end = end /\ call.work = work
      /\ frame.nodes = T
  BY DEF PutCall, Frame
<1>2. /\ SubOK(T, id, d) /\ Asked(T, d, I, b, Leaves(T, id), begin, end, work)
      /\ id # Empty => \A k \in I : k \in Present(work.updates) => begin <= k
  BY DEF Ready
<1>3. /\ Running(T, work) /\ RoomAbove(work.used, b) /\ Iterators(work.updates, begin, end)
      /\ \A x \in Leaves(T, id) : T[x].key \in I
  BY <1>2 DEF Asked
<1> HIDE DEF call
<1>4. CASE begin = end
  <2>1. out = Return(work, Reuse(T, id), FALSE)
    BY <1>1, <1>4 DEF PutAux
  <2>2. \A k \in KeySpace : Q[k] = NoEntry
    <3>1. begin \in Nat /\ Present(work.updates) \subseteq Nat
      BY <1>3, EndOfMap, WindowsHaveKeys DEF Iterators
    <3>2. Window(work.updates, begin, end) = {}
      BY <1>4, <3>1 DEF Window
    <3> QED  BY <3>2 DEF Asks
  <2> HIDE DEF Q, out
  <2>3. Met(T, d, I, b, Leaves(T, id), Q, work, Return(work, Reuse(T, id), FALSE))
    BY <1>2, <1>3, <2>2, ReturnMeets
  <2> QED  BY <2>1, <2>3 DEF Q, out, call
<1>5. CASE begin # end
  <2>1. \/ id = Empty /\ ParsedNode(T, id) = EmptyNode /\ Leaves(T, id) = {}
        \/ /\ id # Empty /\ ParsedNode(T, id) = T[id] /\ StoredLeaf(T, id)
           /\ IsLeaf(T[id]) /\ ~IsBranch(T[id]) /\ Leaves(T, id) = {id}
        \/ /\ id # Empty /\ ParsedNode(T, id) = T[id] /\ StoredBranch(T, id, d)
           /\ IsBranch(T[id]) /\ ~IsLeaf(T[id]) /\ d \in 0 .. Depth - 1
           /\ SubOK(T, T[id].left, d + 1) /\ SubOK(T, T[id].right, d + 1)
           /\ Leaves(T, id) = Leaves(T, T[id].left) \cup Leaves(T, T[id].right)
    BY <1>2, KindsOfTrees
  <2>2. CASE id = Empty /\ ParsedNode(T, id) = EmptyNode /\ Leaves(T, id) = {}
    <3>0. EmptyNode.type = "Empty" /\ ~IsLeaf(EmptyNode) /\ ~IsBranch(EmptyNode)
      BY DEF EmptyNode, IsLeaf, IsBranch
    <3>1. out = PutIntoEmpty(frame, begin, end, work)
      BY <1>1, <1>5, <2>2, <3>0 DEF PutAux
    <3>2. Asked(T, d, I, b, {}, begin, end, work)
      BY <1>2, <2>2
    <3>3. Met(T, d, I, b, {}, Q, work, PutIntoEmpty(frame, begin, end, work))
      BY <1>5, <3>2, PutIntoEmptyMeets
    <3> HIDE DEF out
    <3> QED  BY <2>2, <3>1, <3>3 DEF out, call
  <2>3. CASE /\ id # Empty /\ ParsedNode(T, id) = T[id] /\ StoredLeaf(T, id)
             /\ IsLeaf(T[id]) /\ ~IsBranch(T[id]) /\ Leaves(T, id) = {id}
    <3>1. T[id].type = "Leaf" /\ id \in DOMAIN T
      BY <2>3 DEF StoredLeaf
    <3>2. out = PutIntoLeaf(frame, id, begin, end, work)
      BY <1>1, <1>5, <2>3, <3>1 DEF PutAux
    <3>3. id \in Nat
      BY <1>3, <3>1 DEF Running, Works
    <3>4. AtLeaf(T, d, I, b, id, begin, end, work)
      BY <1>2, <1>5, <2>3, <3>3 DEF AtLeaf
    <3>5. Met(T, d, I, b, {id}, Q, work, PutIntoLeaf(frame, id, begin, end, work))
      BY <3>4, PutIntoLeafMeets
    <3> HIDE DEF out
    <3> QED  BY <2>3, <3>2, <3>5 DEF out, call
  <2>4. CASE /\ id # Empty /\ ParsedNode(T, id) = T[id] /\ StoredBranch(T, id, d)
             /\ IsBranch(T[id]) /\ ~IsLeaf(T[id]) /\ d \in 0 .. Depth - 1
             /\ SubOK(T, T[id].left, d + 1) /\ SubOK(T, T[id].right, d + 1)
             /\ Leaves(T, id) = Leaves(T, T[id].left) \cup Leaves(T, T[id].right)
    <3>1. T[id].type # "Witness" /\ T[id].type # "Empty"
      BY <2>4 DEF IsBranch
    <3>2. out = PutBelow(frame, T[id], begin, end, work, FALSE)
      BY <1>1, <1>5, <2>4, <3>1 DEF PutAux
    <3>3. SidesOK(T, T[id].left, T[id].right, d) /\ Several(Leaves(T, id))
      BY <2>4 DEF StoredBranch
    <3>4. Below(T, d, I, Leaves(T, id), T[id], begin, work)
      BY <1>2, <2>4, <3>3 DEF Below
    <3>5. Meets(T, deeper, d + 1)
      BY <2>4, DepthAssumption
    <3>6. FALSE \/ Several(Leaves(T, id)) \/ TwoPuts(Asks(work, begin, end))
      BY <3>3
    <3>7. MetWithMany(T, d, I, b, Leaves(T, id), Q, work, PutBelow(frame, T[id], begin, end, work, FALSE))
      BY <1>2, <2>4, <3>4, <3>5, <3>6, PutBelowMeets
    <3>8. Met(T, d, I, b, Leaves(T, id), Q, work, PutBelow(frame, T[id], begin, end, work, FALSE))
      BY <3>7 DEF MetWithMany
    <3> HIDE DEF out
    <3> QED  BY <3>2, <3>8 DEF out, call
  <2> QED  BY <2>1, <2>2, <2>3, <2>4
<1> QED  BY <1>4, <1>5

(* What is asked is one of the calls that a frame knows.                   *)
LEMMA ReadyIsACall ==
  ASSUME NEW T, NEW d \in 0 .. Depth, NEW I, NEW b, NEW id, NEW begin, NEW end, NEW work,
         Ready(T, d, I, b, id, begin, end, work)
  PROVE  PutCall(id, begin, end, work) \in PutCalls
<1>1. /\ SubOK(T, id, d) /\ work \in Works /\ DOMAIN T \subseteq work.used
      /\ begin \in 0 .. MapEnd /\ end \in 0 .. MapEnd
  BY DEF Ready, Asked, Running, Iterators
<1>2. id = Empty \/ id \in DOMAIN T
  BY <1>1, KindsOfTrees DEF StoredLeaf, StoredBranch
<1>3. id \in Nat
  BY <1>1, <1>2 DEF Works, Empty
<1> QED  BY <1>1, <1>3 DEF PutCall, PutCalls

(* A frame at any depth, if the frames below it do.                        *)
LEMMA OutcomesMeet ==
  ASSUME NEW T, NEW d \in 0 .. Depth, NEW deeper, d < Depth => Meets(T, deeper, d + 1)
  PROVE  Meets(T, Outcomes(Frame(T, d, deeper)), d)
<1> SUFFICES ASSUME NEW I, NEW b, NEW id, NEW begin, NEW end, NEW work,
                    Ready(T, d, I, b, id, begin, end, work)
             PROVE  Met(T, d, I, b, Leaves(T, id), Asks(work, begin, end), work,
                        Outcomes(Frame(T, d, deeper))[PutCall(id, begin, end, work)])
  BY DEF Meets
<1>1. PutCall(id, begin, end, work) \in PutCalls
  BY ReadyIsACall
<1>2. Outcomes(Frame(T, d, deeper))[PutCall(id, begin, end, work)]
        = PutAux(Frame(T, d, deeper), PutCall(id, begin, end, work))
  BY <1>1 DEF Outcomes
<1>3. Met(T, d, I, b, Leaves(T, id), Asks(work, begin, end), work,
          PutAux(Frame(T, d, deeper), PutCall(id, begin, end, work)))
  BY PutAuxMeets
<1> QED  BY <1>2, <1>3

CallsOf == INSTANCE Recursion WITH First <- LAMBDA p : Outcomes(Frame(p, Depth, NoTable)),
                                   Step  <- LAMBDA p, n, x : Outcomes(Frame(p, Depth - n, x))

(* Calls, level by level.                                                  *)
LEMMA EachLevelOfCalls ==
  ASSUME NEW T
  PROVE  /\ CallsAbove(T, 0) = Outcomes(Frame(T, Depth, NoTable))
         /\ \A n \in Nat : CallsAbove(T, n + 1) = Outcomes(Frame(T, Depth - (n + 1), CallsAbove(T, n)))
<1>1. \A n : CallsAbove(T, n) = CallsOf!Recursive(T)[n]
  BY DEF CallsAbove, CallsOf!Recursive
<1> QED  BY <1>1, CallsOf!RecursionFollows

(* So that every call does what it is asked.                               *)
LEMMA CallsMeet ==
  ASSUME NEW T
  PROVE  \A n \in 0 .. Depth : Meets(T, CallsAbove(T, n), Depth - n)
<1> DEFINE S == {n \in Nat : n <= Depth => Meets(T, CallsAbove(T, n), Depth - n)}
<1>1. Depth \in Nat
  BY DepthAssumption
<1>2. 0 \in S
  <2>1. Depth \in 0 .. Depth /\ ~(Depth < Depth) /\ Depth - 0 = Depth
    BY <1>1
  <2>2. Meets(T, Outcomes(Frame(T, Depth, NoTable)), Depth)
    BY <2>1, OutcomesMeet
  <2> QED  BY <2>1, <2>2, EachLevelOfCalls
<1>3. ASSUME NEW n \in S
      PROVE  n + 1 \in S
  <2> SUFFICES ASSUME n + 1 <= Depth
               PROVE  Meets(T, CallsAbove(T, n + 1), Depth - (n + 1))
    OBVIOUS
  <2>1. n \in Nat /\ n <= Depth /\ Depth - (n + 1) \in 0 .. Depth /\ (Depth - (n + 1)) + 1 = Depth - n
    BY <1>1
  <2>2. Meets(T, CallsAbove(T, n), (Depth - (n + 1)) + 1)
    BY <2>1
  <2>3. Meets(T, Outcomes(Frame(T, Depth - (n + 1), CallsAbove(T, n))), Depth - (n + 1))
    BY <2>1, <2>2, OutcomesMeet
  <2>4. CallsAbove(T, n + 1) = Outcomes(Frame(T, Depth - (n + 1), CallsAbove(T, n)))
    BY <2>1, EachLevelOfCalls
  <2> QED  BY <2>3, <2>4
<1>4. S = Nat
  <2>1. S \in SUBSET Nat
    OBVIOUS
  <2> HIDE DEF S
  <2> QED  BY <1>2, <1>3, <2>1, AllNumbers
<1> QED  BY <1>1, <1>4

---------------------------------------------------------------------------
(* Trees and their contents, while more nodes are written.                 *)

(* A tree that was there still is, with its leaves.                        *)
LEMMA OldTreesStay ==
  ASSUME NEW T, NEW U, Extends(U, T), NEW root, TreeOK(T, root)
  PROVE  /\ TreeOK(U, root) /\ Leaves(U, root) = Leaves(T, root)
         /\ \A x \in Leaves(T, root) : U[x] = T[x] /\ StoredLeaf(T, x)
<1>1. root \in DOMAIN T \cup {Empty} /\ SubOK(T, root, 0)
  BY TreesAreSubtrees
<1>2. /\ SubOK(U, root, 0) /\ Leaves(U, root) = Leaves(T, root)
      /\ \A x \in Leaves(T, root) : U[x] = T[x]
  BY <1>1, TreesStay
<1>3. root \in DOMAIN U \cup {Empty}
  BY <1>1 DEF Extends
<1>4. \A x \in Leaves(T, root) : StoredLeaf(T, x)
  <2>1. 0 \in 0 .. Depth
    BY DepthAssumption
  <2> QED  BY <1>1, <2>1, LeavesAreStored
<1> QED  BY <1>2, <1>3, <1>4, TreesAreSubtrees

(* The contents of a tree, leaf by leaf.                                   *)
AreContents(T, id, map) ==
  /\ map = [k \in DOMAIN map |-> map[k]]
  /\ DOMAIN map \subseteq KeySpace
  /\ \A k \in KeySpace : k \in DOMAIN map <=> For(T, Leaves(T, id), k) # {}
  /\ \A k \in KeySpace : \A x \in For(T, Leaves(T, id), k) : map[k] = T[x].val

(* So they are, since no key has two.                                      *)
LEMMA ContentsByLeaf ==
  ASSUME NEW T, NEW id, TreeOK(T, id)
  PROVE  AreContents(T, id, Contents(T, id))
<1>1. WellFormed(T, id) /\ 0 \in 0 .. Depth
  BY DepthAssumption DEF TreeOK
<1>2. id \in Subtrees(T, id, 0)
  BY FirstLevel DEF Subtrees
<1>3. OneLeafEach(T, id)
  BY <1>1, <1>2, KeysHaveOneLeaf
<1>4. /\ DOMAIN Contents(T, id) = KeysOf(T, id)
      /\ \A x \in Leaves(T, id) : Contents(T, id)[T[x].key] = T[x].val
  BY <1>3, ContentsHaveTheRecords
<1>5. \A x \in Leaves(T, id) : T[x].key \in KeySpace
  <2>1. SubOK(T, id, 0)
    BY TreesAreSubtrees
  <2> QED  BY <1>1, <2>1, LeavesAreStored DEF StoredLeaf
<1>6. Contents(T, id) = [k \in DOMAIN Contents(T, id) |-> Contents(T, id)[k]]
  BY DEF Contents
<1> QED  BY <1>4, <1>5, <1>6 DEF AreContents, KeysOf, For

(* Nothing else is in a map.                                               *)
LEMMA OneMapOfRecords ==
  ASSUME NEW T, NEW id, NEW map, AreContents(T, id, map), NEW U, NEW new, NEW map2, AreContents(U, new, map2),
         \A k \in KeySpace : For(U, Leaves(U, new), k) = For(T, Leaves(T, id), k),
         \A x \in Leaves(T, id) : U[x].val = T[x].val
  PROVE  map2 = map
<1>1. DOMAIN map2 = DOMAIN map
  BY DEF AreContents
<1>2. ASSUME NEW k \in DOMAIN map
      PROVE  map2[k] = map[k]
  <2>1. k \in KeySpace
    BY DEF AreContents
  <2>2. PICK x \in For(T, Leaves(T, id), k) : TRUE
    BY <2>1 DEF AreContents
  <2>3. map[k] = T[x].val /\ map2[k] = U[x].val
    BY <2>1, <2>2 DEF AreContents
  <2>4. x \in Leaves(T, id)
    BY <2>2 DEF For
  <2> QED  BY <2>3, <2>4
<1> QED  BY <1>1, <1>2 DEF AreContents

(* Trees that stay keep their contents.                                    *)
LEMMA SameContents ==
  ASSUME NEW T, NEW U, NEW id, TreeOK(T, id), TreeOK(U, id), Leaves(U, id) = Leaves(T, id),
         \A x \in Leaves(T, id) : U[x] = T[x]
  PROVE  Contents(U, id) = Contents(T, id)
<1>1. AreContents(T, id, Contents(T, id)) /\ AreContents(U, id, Contents(U, id))
  BY ContentsByLeaf
<1>2. \A k \in KeySpace : For(U, Leaves(U, id), k) = For(T, Leaves(T, id), k)
  BY DEF For
<1>3. \A x \in Leaves(T, id) : U[x].val = T[x].val
  OBVIOUS
<1> DEFINE one == Contents(T, id)
           two == Contents(U, id)
<1>4. AreContents(T, id, one) /\ AreContents(U, id, two)
  BY <1>1
<1> HIDE DEF one, two
<1>5. two = one
  BY <1>2, <1>3, <1>4, OneMapOfRecords
<1> QED  BY <1>5 DEF one, two

---------------------------------------------------------------------------
(* A whole set of updates.                                                 *)

(* What is asked of apply() when it is called.                             *)
CanPut(T, root, updates) ==
  /\ TreeOK(T, root)
  /\ DOMAIN T \in SUBSET Nat /\ Bounded(DOMAIN T) /\ Empty \notin DOMAIN T
  /\ DOMAIN updates \in SUBSET KeySpace
  /\ \A k \in DOMAIN updates : updates[k] \in Update /\ EntryOK(T, updates[k], Leaves(T, root))
  /\ RoomForLeaves(T, updates)

(* What it writes.                                                         *)
NewLeafOf(x, updates, node) ==
  /\ x \in 1 .. FirstInterior - 1
  /\ \E k \in DOMAIN updates : /\ ~updates[k].deletion /\ updates[k].override = Empty
                               /\ node = LeafNode(k, updates[k].val)

NewNode(U, x, updates) == NewLeafOf(x, updates, U[x]) \/ BranchWritten(DOMAIN U, x, U[x])

(* It leaves the nodes that are there alone.                               *)
PutStored(T, updates, U) ==
  /\ Extends(U, T)
  /\ DOMAIN U \in SUBSET Nat /\ Bounded(DOMAIN U) /\ Empty \notin DOMAIN U
  /\ \A x \in DOMAIN U \ DOMAIN T : NewNode(U, x, updates)

(* The new tree has the leaves of the old one, changed as the updates say. *)
PutTree(T, root, updates, U, new, output) ==
  /\ TreeOK(U, new)
  /\ \A k \in KeySpace \ DOMAIN updates : For(U, Leaves(U, new), k) = For(T, Leaves(T, root), k)
  /\ \A k \in DOMAIN updates :
       Settled(T, U, Leaves(T, root), Leaves(U, new), k, updates[k], Empty, output[k])

HasPut(T, root, updates, put) ==
  /\ PutStored(T, updates, put.nodes)
  /\ put.thrown <=> \E k \in DOMAIN updates : Foreign(T, k, updates[k])
  /\ ~put.thrown => /\ PutTree(T, root, updates, put.nodes, put.built.id, put.output)
                     /\ put.built = Reuse(put.nodes, put.built.id)

MapOf(updates) == [k \in KeySpace |-> IF k \in DOMAIN updates THEN updates[k] ELSE NoEntry]

WorkOf(T, updates) == [used |-> DOMAIN T, updates |-> MapOf(updates), output |-> [k \in KeySpace |-> Empty]]

(* The first window has all entries.                                       *)
LEMMA FirstWindow ==
  ASSUME NEW updates
  PROVE  /\ Iterators(updates, After(updates, -1), MapEnd)
         /\ Window(updates, After(updates, -1), MapEnd) = Present(updates)
         /\ \A k \in Present(updates) : After(updates, -1) <= k
<1> DEFINE begin == After(updates, -1)
<1>1. MapEnd \in Nat /\ KeySpace = 0 .. MapEnd - 1 /\ Present(updates) \subseteq KeySpace
  BY EndOfMap, WindowsHaveKeys
<1>2. -1 \in Int /\ -1 < MapEnd
  BY <1>1
<1>3. /\ begin \in Nat /\ begin <= MapEnd /\ begin \in Present(updates) \cup {MapEnd}
      /\ \A k \in Present(updates) : -1 < k => begin <= k
  BY <1>2, AfterIsNext
<1> HIDE DEF begin
<1>4. \A k \in Present(updates) : begin <= k /\ k < MapEnd /\ k \in Nat
  BY <1>1, <1>3
<1>5. Iterators(updates, begin, MapEnd)
  BY <1>1, <1>3 DEF Iterators
<1>6. Window(updates, begin, MapEnd) = Present(updates)
  BY <1>4 DEF Window
<1> QED  BY <1>4, <1>5, <1>6 DEF begin

(* There is room for a leaf for each entry.                                *)
LEMMA RoomForEntries ==
  ASSUME NEW T, NEW root, NEW updates, CanPut(T, root, updates),
         NEW F \in SUBSET DOMAIN updates
  PROVE  RoomAbove(DOMAIN T, LeafNext(DOMAIN T)) /\ LeafNext(DOMAIN T) + Cardinality(F) <= FirstInterior
<1> DEFINE used == DOMAIN T
           S    == LeafIds(used)
           b    == LeafNext(used)
<1>1. used \in SUBSET Nat /\ Bounded(used) /\ Empty \notin used /\ RoomForLeaves(T, updates)
      /\ DOMAIN updates \in SUBSET KeySpace
  BY DEF CanPut
<1>2. \A x : x \in S <=> x \in used /\ x < FirstInterior
  BY DEF LeafIds
<1>3. b = Over(S, 1)
  BY DEF LeafNext
<1> HIDE DEF S, used, b
<1>4. S \in SUBSET Nat /\ Bounded(S) /\ 1 \in Nat /\ \A x \in S : x >= 1
  <2>1. S \in SUBSET Nat
    BY <1>1, <1>2
  <2>2. \A x \in S : x \in Nat /\ x # 0
    BY <1>1, <1>2 DEF Empty
  <2>3. \A x \in S : x >= 1
    BY <2>2
  <2> QED  BY <1>1, <1>2, <2>1, <2>3 DEF Bounded
<1>5. b \in Nat /\ b >= 1 /\ \A x \in S : x < b
  BY <1>3, <1>4, NextOver
<1>6. RoomAbove(used, b)
  BY <1>2, <1>5 DEF RoomAbove
<1>7. NextId(used, TRUE) = b
  <2>1. {x \in used : (x < FirstInterior) <=> TRUE} = S
    BY <1>2
  <2> QED  BY <1>3, <2>1 DEF NextId, Over
<1>8. IsFiniteSet(DOMAIN updates)
  <2>1. IsFiniteSet(0 .. MapEnd - 1)
    BY EndOfMap, FS_Interval
  <2> QED  BY <1>1, <2>1, EndOfMap, FS_Subset
<1>9. /\ Cardinality(F) \in Nat /\ Cardinality(DOMAIN updates) \in Nat
      /\ Cardinality(F) <= Cardinality(DOMAIN updates)
  BY <1>8, FS_Subset, FS_CardinalityType
<1>10. b + Cardinality(DOMAIN updates) <= FirstInterior
  BY <1>1, <1>7 DEF RoomForLeaves, used
<1>11. b + Cardinality(F) <= FirstInterior
  <2> DEFINE f == Cardinality(F)
             n == Cardinality(DOMAIN updates)
  <2>1. f \in Nat /\ n \in Nat /\ f <= n /\ b + n <= FirstInterior
    BY <1>9, <1>10
  <2> HIDE DEF f, n
  <2>2. b + f <= FirstInterior
    BY <1>5, <2>1, FirstInteriorAssumption
  <2> QED  BY <2>2 DEF f
<1> QED  BY <1>6, <1>11 DEF used, b

(* What the first call is asked.                                           *)
LEMMA FirstCallIsReady ==
  ASSUME NEW T, NEW root, NEW updates, CanPut(T, root, updates)
  PROVE  /\ Ready(T, 0, KeySpace, LeafNext(DOMAIN T), root, After(MapOf(updates), -1), MapEnd, WorkOf(T, updates))
         /\ \A k \in KeySpace : Asks(WorkOf(T, updates), After(MapOf(updates), -1), MapEnd)[k] = MapOf(updates)[k]
         /\ WorkOf(T, updates).used = DOMAIN T
         /\ \A k \in KeySpace : WorkOf(T, updates).output[k] = Empty
<1> DEFINE map   == MapOf(updates)
           work  == WorkOf(T, updates)
           begin == After(map, -1)
           b     == LeafNext(DOMAIN T)
           Q     == Asks(work, begin, MapEnd)
<1>1. /\ TreeOK(T, root) /\ DOMAIN T \in SUBSET Nat /\ Bounded(DOMAIN T) /\ Empty \notin DOMAIN T
      /\ DOMAIN updates \in SUBSET KeySpace
      /\ \A k \in DOMAIN updates : updates[k] \in Update /\ EntryOK(T, updates[k], Leaves(T, root))
  BY DEF CanPut
<1>2. map \in [KeySpace -> Update \cup {NoEntry}] /\ \A k \in KeySpace :
        map[k] = IF k \in DOMAIN updates THEN updates[k] ELSE NoEntry
  BY <1>1 DEF MapOf
<1>3. work.used = DOMAIN T /\ work.updates = map /\ \A k \in KeySpace : work.output[k] = Empty
  BY DEF WorkOf
<1>4. work \in Works
  BY <1>1, <1>2 DEF WorkOf, Works, Empty
<1> HIDE DEF work, map
<1>5. /\ Iterators(map, begin, MapEnd) /\ Window(map, begin, MapEnd) = Present(map)
      /\ \A k \in Present(map) : begin <= k
  BY FirstWindow
<1> HIDE DEF begin
<1>6. SubOK(T, root, 0)
  BY <1>1, TreesAreSubtrees
<1>7. \A x \in Leaves(T, root) : x \in DOMAIN T /\ T[x].key \in KeySpace
  <2>1. 0 \in 0 .. Depth
    BY DepthAssumption
  <2> QED  BY <1>6, <2>1, LeavesAreStored DEF StoredLeaf
<1>8. Running(T, work)
  BY <1>1, <1>3, <1>4 DEF Running
<1>9. Region(KeySpace, 0) /\ \A k \in KeySpace : k < MapEnd
  BY AllKeys, EndOfMap
<1>10. Present(map) \subseteq KeySpace /\ \A k \in Present(map) : k \in DOMAIN updates /\ map[k] = updates[k]
  BY <1>2 DEF Present
<1>11. \A k \in KeySpace : Q[k] = map[k]
  <2>1. \A k \in KeySpace : k \notin Present(map) => map[k] = NoEntry
    BY DEF Present
  <2> QED  BY <1>3, <1>5, <2>1 DEF Asks
<1>12. Fresh(Q) \in SUBSET DOMAIN updates
  <2>1. NoEntry.override # Empty
    BY DEF NoEntry, Empty
  <2> QED  BY <1>2, <1>11, <2>1 DEF Fresh
<1>13. RoomAbove(DOMAIN T, b) /\ b + Cardinality(Fresh(Q)) <= FirstInterior
  <2> HIDE DEF Q, b
  <2>1. b = LeafNext(DOMAIN T)
    BY DEF b
  <2> QED  BY <1>12, <2>1, RoomForEntries
<1> HIDE DEF Q, b
<1>14. Asked(T, 0, KeySpace, b, Leaves(T, root), begin, MapEnd, work)
  <2>1. \A k \in Window(work.updates, begin, MapEnd) :
          EntryOK(T, work.updates[k], Leaves(T, root)) /\ (work.updates[k].override = Empty => work.output[k] = Empty)
    BY <1>1, <1>3, <1>5, <1>10
  <2>2. Q = Asks(work, begin, MapEnd)
    BY DEF Q
  <2> QED  BY <1>3, <1>5, <1>7, <1>8, <1>9, <1>10, <1>13, <2>1, <2>2 DEF Asked
<1>15. Ready(T, 0, KeySpace, b, root, begin, MapEnd, work)
  BY <1>3, <1>5, <1>6, <1>14 DEF Ready
<1> QED  BY <1>3, <1>11, <1>15 DEF Q, b, begin, work, map

(* apply() puts a set of updates into a tree: what is stored stays, the    *)
(* nodes that it writes are leaves of the updates and branches; it throws  *)
(* when an update asks for another key's leaf and for no other reason; and *)
(* if it does not, the node it returns is the root of a tree that has the  *)
(* leaves of the old one, changed as the updates say, and outputNodeId     *)
(* names the leaf of each.                                                 *)
THEOREM PutAllPuts ==
  ASSUME NEW T, NEW root, NEW updates, CanPut(T, root, updates)
  PROVE  HasPut(T, root, updates, PutAll(T, root, updates))
<1> DEFINE map   == MapOf(updates)
           work  == WorkOf(T, updates)
           begin == After(map, -1)
           b     == LeafNext(DOMAIN T)
           Q     == Asks(work, begin, MapEnd)
           done  == CallsAbove(T, Depth)[PutCall(root, begin, MapEnd, work)]
           put   == PutAll(T, root, updates)
           U     == With(T, done.written)
           new   == Leaves(U, done.built.id)
           old   == Leaves(T, root)
<1>1. put = [thrown |-> done.thrown, nodes |-> U, built |-> done.built,
             output |-> Restrict(done.work.output, DOMAIN updates)]
  BY DEF PutAll, Stored, MapOf, WorkOf
<1>2. /\ put.thrown = done.thrown /\ put.nodes = U /\ put.built = done.built
      /\ \A k \in DOMAIN updates : put.output[k] = done.work.output[k]
  BY <1>1 DEF Restrict
<1>3. /\ Ready(T, 0, KeySpace, b, root, begin, MapEnd, work)
      /\ \A k \in KeySpace : Q[k] = map[k]
      /\ work.used = DOMAIN T /\ \A k \in KeySpace : work.output[k] = Empty
  BY FirstCallIsReady
<1>4. Meets(T, CallsAbove(T, Depth), 0)
  <2>1. Depth \in 0 .. Depth /\ Depth - Depth = 0
    BY DepthAssumption
  <2> QED  BY <2>1, CallsMeet
<1> HIDE DEF put
<1>5. Met(T, 0, KeySpace, b, old, Q, work, done)
  BY <1>3, <1>4 DEF Meets
<1>6. Wrote(T, KeySpace, b, Q, work, done) /\ (done.thrown <=> Refuses(T, Q))
  BY <1>5 DEF Met
<1>7. /\ DOMAIN updates \in SUBSET KeySpace
      /\ \A k \in KeySpace : map[k] = IF k \in DOMAIN updates THEN updates[k] ELSE NoEntry
  BY DEF CanPut, MapOf
<1>8. DOMAIN U = DOMAIN T \cup DOMAIN done.written
  BY DEF With
<1>9. ~done.thrown => Right(T, U, 0, KeySpace, old, Q, work, done)
  BY <1>5 DEF Met
<1> HIDE DEF done, work, begin, map, Q, b
<1>10. PutStored(T, updates, U)
  <2>1. /\ Running(U, done.work) /\ done.work.used = DOMAIN T \cup DOMAIN done.written
        /\ DOMAIN T \cap DOMAIN done.written = {} /\ WrittenOK(T, Q, done.written)
    BY <1>3, <1>6 DEF Wrote
  <2>2. Extends(U, T) /\ \A x \in DOMAIN done.written : U[x] = done.written[x]
    BY <2>1 DEF With, Extends
  <2>3. DOMAIN U \in SUBSET Nat /\ Bounded(DOMAIN U) /\ Empty \notin DOMAIN U
    BY <1>8, <2>1 DEF Running, Works
  <2>4. ASSUME NEW x \in DOMAIN U \ DOMAIN T
        PROVE  NewNode(U, x, updates)
    <3>1. x \in DOMAIN done.written /\ U[x] = done.written[x]
      BY <1>8, <2>2, <2>4
    <3>2. CASE LeafWritten(Q, x, U[x])
      <4>1. PICK k \in Fresh(Q) : U[x] = LeafNode(k, Q[k].val) /\ x \in 1 .. FirstInterior - 1
        BY <3>2 DEF LeafWritten
      <4>2. k \in KeySpace /\ ~Q[k].deletion /\ Q[k].override = Empty
        BY <4>1 DEF Fresh
      <4>3. NoEntry.override # Empty
        BY DEF NoEntry, Empty
      <4>4. k \in DOMAIN updates /\ Q[k] = updates[k]
        BY <1>3, <1>7, <4>2, <4>3
      <4>5. NewLeafOf(x, updates, U[x])
        BY <4>1, <4>2, <4>4 DEF NewLeafOf
      <4> QED  BY <4>5 DEF NewNode
    <3>3. CASE BranchWritten(DOMAIN T \cup DOMAIN done.written, x, U[x])
      BY <1>8, <3>3 DEF NewNode
    <3>4. LeafWritten(Q, x, U[x]) \/ BranchWritten(DOMAIN T \cup DOMAIN done.written, x, U[x])
      BY <2>1, <3>1 DEF WrittenOK
    <3> QED  BY <3>2, <3>3, <3>4
  <2> HIDE DEF U
  <2> QED  BY <2>2, <2>3, <2>4 DEF PutStored
<1>11. put.thrown <=> \E k \in DOMAIN updates : Foreign(T, k, updates[k])
  <2>1. \A k \in KeySpace : ~Foreign(T, k, NoEntry)
    BY DEF Foreign
  <2>2. ASSUME NEW k \in KeySpace
        PROVE  Foreign(T, k, Q[k]) <=> k \in DOMAIN updates /\ Foreign(T, k, updates[k])
    <3>1. Q[k] = IF k \in DOMAIN updates THEN updates[k] ELSE NoEntry
      BY <1>3, <1>7
    <3> QED  BY <2>1, <3>1
  <2>3. (\E k \in DOMAIN updates : Foreign(T, k, updates[k])) <=> Refuses(T, Q)
    BY <1>7, <2>2 DEF Refuses
  <2>4. put.thrown <=> done.thrown
    BY <1>2
  <2> QED  BY <1>6, <2>3, <2>4
<1>12. ASSUME ~put.thrown
       PROVE  PutTree(T, root, updates, U, done.built.id, put.output)
  <2>1. Right(T, U, 0, KeySpace, old, Q, work, done)
    BY <1>2, <1>9, <1>12
  <2>2. /\ SubOK(U, done.built.id, 0)
        /\ \A k \in KeySpace : Settled(T, U, old, new, k, Q[k], work.output[k], done.work.output[k])
    BY <2>1 DEF Right
  <2> HIDE DEF U, new, old
  <2>3. TreeOK(U, done.built.id)
    <3>1. done.built.id \in DOMAIN U \cup {Empty}
      <4>1. 0 \in 0 .. Depth
        BY DepthAssumption
      <4> QED  BY <2>2, <4>1, KindsOfTrees DEF StoredLeaf, StoredBranch
    <3> QED  BY <2>2, <3>1, TreesAreSubtrees
  <2>4. ASSUME NEW k \in KeySpace \ DOMAIN updates
        PROVE  For(U, new, k) = For(T, old, k)
    <3>1. Q[k] = NoEntry
      BY <1>3, <1>7
    <3>2. Settled(T, U, old, new, k, NoEntry, work.output[k], done.work.output[k])
      BY <2>2, <3>1
    <3> QED  BY <3>2 DEF Settled
  <2>5. ASSUME NEW k \in DOMAIN updates
        PROVE  Settled(T, U, old, new, k, updates[k], Empty, put.output[k])
    <3>1. k \in KeySpace /\ Q[k] = updates[k] /\ work.output[k] = Empty /\ put.output[k] = done.work.output[k]
      BY <1>2, <1>3, <1>7
    <3>2. Settled(T, U, old, new, k, Q[k], work.output[k], done.work.output[k])
      BY <2>2, <3>1
    <3> QED  BY <3>1, <3>2
  <2> QED  BY <2>3, <2>4, <2>5 DEF PutTree, new, old
<1>13. ~put.thrown => done.built = Reuse(U, done.built.id)
  BY <1>2, <1>9 DEF Right
<1> HIDE DEF U
<1>14. HasPut(T, root, updates, put)
  BY <1>2, <1>10, <1>11, <1>12, <1>13 DEF HasPut
<1> QED  BY <1>14 DEF put

---------------------------------------------------------------------------
(* Lookups                                                                 *)

(* The calls of getMultiAux at a depth, as a function that the calls at    *)
(* the depth above lead to.                                                *)
ByLevel(calls, table, root, keys) ==
  /\ calls[0] = {Call(root, keys)}
  /\ \A n \in Nat : calls[n + 1] = UNION {GetBelow(table, n, call) : call \in calls[n]}

Calling == INSTANCE Recursion WITH
  First <- LAMBDA p : {Call(p[2], p[3])},
  Step  <- LAMBDA p, n, x : UNION {GetBelow(p[1], n - 1, call) : call \in x}

(* The calls of getMultiAux are those of each level, and each level makes  *)
(* the next.                                                               *)
LEMMA CallsByLevel ==
  ASSUME NEW table, NEW root, NEW keys
  PROVE  \E calls : /\ ByLevel(calls, table, root, keys)
                     /\ \A call : call \in Calls(table, root, keys) <=>
                                    \E n \in 0 .. Depth : call \in calls[n]
<1> DEFINE calls == Calling!Recursive(<<table, root, keys>>)
<1>1. calls[0] = {Call(root, keys)}
  BY Calling!RecursionFollows
<1>2. ASSUME NEW n \in Nat
      PROVE  calls[n + 1] = UNION {GetBelow(table, n, call) : call \in calls[n]}
  <2>1. calls[n + 1] = UNION {GetBelow(table, (n + 1) - 1, call) : call \in calls[n]}
    BY Calling!RecursionFollows
  <2>2. (n + 1) - 1 = n
    OBVIOUS
  <2> HIDE DEF calls
  <2> QED  BY <2>1, <2>2
<1>3. Calls(table, root, keys) = UNION {calls[n] : n \in 0 .. Depth}
  BY DEF Calls, Calling!Recursive
<1> HIDE DEF calls
<1>4. ByLevel(calls, table, root, keys)
  BY <1>1, <1>2 DEF ByLevel
<1>5. \A call : call \in Calls(table, root, keys) <=> \E n \in 0 .. Depth : call \in calls[n]
  BY <1>3
<1> QED  BY <1>4, <1>5

(* A key goes on to the next depth, or has come to where there is no       *)
(* branch.                                                                 *)
LEMMA KeysAreHandedDown ==
  ASSUME NEW table, NEW root, NEW keys \in SUBSET KeySpace, NEW calls,
         ByLevel(calls, table, root, keys),
         NEW k \in keys
  PROVE  \A n \in Nat :
           \/ \E call \in calls[n] : k \in call.keys
           \/ \E m \in 0 .. n - 1 : \E call \in calls[m] :
                k \in call.keys /\ ~IsBranch(ParsedNode(table, call.id))
<1> DEFINE Here(n) == \E call \in calls[n] : k \in call.keys
           Last(n) == \E call \in calls[n] : k \in call.keys /\ ~IsBranch(ParsedNode(table, call.id))
           T       == {n \in Nat : Here(n) \/ \E m \in 0 .. n - 1 : Last(m)}
<1>1. 0 \in T
  <2>1. Call(root, keys) \in calls[0] /\ k \in Call(root, keys).keys
    BY DEF Call, ByLevel
  <2>2. Here(0)
    BY <2>1
  <2> HIDE DEF Here, Last
  <2> QED  BY <2>2
<1>2. ASSUME NEW n \in T
      PROVE  n + 1 \in T
  <2>1. CASE \E m \in 0 .. n - 1 : Last(m)
    <3>1. PICK m \in 0 .. n - 1 : Last(m)
      BY <2>1
    <3>2. m \in 0 .. (n + 1) - 1
      OBVIOUS
    <3> HIDE DEF Last, Here
    <3> QED  BY <3>1, <3>2
  <2>2. CASE Last(n)
    <3>1. n \in 0 .. (n + 1) - 1
      OBVIOUS
    <3> HIDE DEF Last, Here
    <3> QED  BY <2>2, <3>1
  <2>3. CASE Here(n) /\ ~Last(n)
    <3>1. PICK call \in calls[n] : k \in call.keys /\ IsBranch(ParsedNode(table, call.id))
      BY <2>3
    <3>2. PICK c \in GetBelow(table, n, call) : k \in c.keys
      BY <3>1 DEF GetBelow, Call
    <3>3. c \in calls[n + 1]
      BY <3>1, <3>2 DEF ByLevel
    <3>4. Here(n + 1)
      BY <3>2, <3>3
    <3> HIDE DEF Last, Here
    <3> QED  BY <3>4
  <2> HIDE DEF Last, Here
  <2> QED  BY <2>1, <2>2, <2>3
<1>3. T = Nat
  <2>1. T \in SUBSET Nat
    OBVIOUS
  <2> HIDE DEF T
  <2> QED  BY <1>1, <1>2, <2>1, AllNumbers
<1> QED  BY <1>3
=============================================================================

----------------------------- MODULE UpdateSet -----------------------------
(***************************************************************************)
(* Updates to a tree: the recursion of putAux over a sorted map of         *)
(* updates, which it edits while the frames above hold iterators into it.  *)
(*                                                                         *)
(* An iterator is the key of the entry it points at, and MapEnd for        *)
(* map.end().  Erasing and inserting entries leaves other iterators where  *)
(* they are, as std::map does.                                             *)
(***************************************************************************)
EXTENDS TreeNodes, Functions

Put(v)       == [deletion |-> FALSE, val |-> v, override |-> Empty]
Delete       == [deletion |-> TRUE, val |-> EmptyVal, override |-> Empty]
PutReuse(id) == [deletion |-> FALSE, val |-> EmptyVal, override |-> id]

Update   == [deletion : BOOLEAN, val : Val \cup {EmptyVal}, override : Nat]
NoEntry  == [deletion |-> FALSE, val |-> EmptyVal, override |-> -1]

MapEnd == TwoTo(Depth)

Present(updates)            == {k \in KeySpace : updates[k] # NoEntry}
After(updates, it)          == Min({k \in Present(updates) : k > it} \cup {MapEnd})
Window(updates, begin, end) == {k \in Present(updates) : begin <= k /\ k < end}

---------------------------------------------------------------------------
(* What one call of putAux leaves to the next: the ids in use, the map of  *)
(* updates, and what has been stored through outputNodeId.                 *)
Works == [used : SUBSET Nat, updates : [KeySpace -> Update \cup {NoEntry}],
          output : [KeySpace -> Nat]]

PutCalls == [id : Nat, begin : 0 .. MapEnd, end : 0 .. MapEnd, work : Works]

PutCall(id, begin, end, work) == [id |-> id, begin |-> begin, end |-> end, work |-> work]

(* The outcome of a call: the nodes it wrote, the one it returns and       *)
(* whether it set bubbleUp, or the exception that unwinds all of apply().  *)
Return(work, built, bubble) ==
  [thrown |-> FALSE, work |-> work, written |-> NoTable, built |-> built, bubble |-> bubble]

Throw(work) ==
  [thrown |-> TRUE, work |-> work, written |-> NoTable, built |-> BuiltEmpty, bubble |-> FALSE]

WriteNew(work, node) ==
  LET id == NextId(work.used, IsLeaf(node)) IN
  [thrown |-> FALSE, work |-> [work EXCEPT !.used = @ \cup {id}], written |-> Written(id, node),
   built |-> Built(id, node), bubble |-> FALSE]

Then(before, outcome) == [outcome EXCEPT !.written = With(before.written, @)]

Report(work, k, id) == [work EXCEPT !.output[k] = id]

(* eraseRange, for the deletions of a window: the one at its start stays   *)
(* in the map, and the window is moved past it instead.                    *)
EraseDeletions(work, begin, end) ==
  LET doomed == {k \in Window(work.updates, begin, end) : work.updates[k].deletion}
      kept   == [k \in KeySpace |-> IF k \in doomed \ {begin} THEN NoEntry ELSE work.updates[k]]
  IN  [work  |-> [work EXCEPT !.updates = kept],
       begin |-> IF begin \in doomed THEN After(kept, begin) ELSE begin]

(* Mutant: a leaf that is to be reused is written anew.                    *)
LeafForCopies(nodes, work, k) ==
  LET update == work.updates[k] IN
  WriteNew(work, LeafNode(k, IF update.override = Empty THEN update.val ELSE nodes[update.override].val))

(* Mutant: any leaf will do for any key.                                   *)
LeafForAnyKey(nodes, work, k) ==
  LET update == work.updates[k] IN
  IF update.override = Empty THEN WriteNew(work, LeafNode(k, update.val))
  ELSE Return(work, Reuse(nodes, update.override), FALSE)

(* newLeaf for an entry: a new leaf, or the leaf the entry asks to reuse.  *)
LeafFor(nodes, work, k) ==
  LET update == work.updates[k]
      old    == ParsedNode(nodes, update.override)
  IN  IF update.override = Empty THEN WriteNew(work, LeafNode(k, update.val))
      ELSE IF IsLeaf(old) /\ old.key = k THEN Return(work, Reuse(nodes, update.override), FALSE)
      ELSE Throw(work)

PutLeaf(nodes, work, k) ==
  LET leaf == LeafFor(nodes, work, k) IN
  IF leaf.thrown THEN leaf
  ELSE [leaf EXCEPT !.work = Report(leaf.work, k, leaf.built.id)]

(* Mutant: a leaf that is left alone under a branch is not moved up.       *)
JoinWithoutBubbling(work, l, r, check) ==
  IF check /\ {l.type, r.type} = {"Empty"} THEN Return(work, BuiltEmpty, TRUE)
  ELSE WriteNew(work, BranchNode(l, r))

(* Mutant: the new branch is not stored.                                   *)
JoinUnwritten(work, l, r, check) ==
  IF check /\ "Empty" \in {l.type, r.type}
  THEN Return(work, IF l.type = "Empty" THEN r ELSE l, TRUE)
  ELSE Return(work, WriteNew(work, BranchNode(l, r)).built, FALSE)

(* Mutant: a witness is refused whether or not anything may bubble.        *)
JoinRefusesWitness(work, l, r, check) ==
  CASE "Witness" \in {l.type, r.type}               -> Throw(work)
    [] check /\ {l.type, r.type} = {"Empty"}         -> Return(work, BuiltEmpty, TRUE)
    [] check /\ IsLeaf(l) /\ r.type = "Empty"        -> Return(work, l, TRUE)
    [] check /\ l.type = "Empty" /\ IsLeaf(r)        -> Return(work, r, TRUE)
    [] OTHER -> WriteNew(work, BranchNode(l, r))

(* The end of putAux: what becomes of a node whose children are now l, r.  *)
Join(work, l, r, check) ==
  CASE check /\ "Witness" \in {l.type, r.type}       -> Throw(work)
    [] check /\ {l.type, r.type} = {"Empty"}         -> Return(work, BuiltEmpty, TRUE)
    [] check /\ IsLeaf(l) /\ r.type = "Empty"        -> Return(work, l, TRUE)
    [] check /\ l.type = "Empty" /\ IsLeaf(r)        -> Return(work, r, TRUE)
    [] OTHER -> WriteNew(work, BranchNode(l, r))

(* Mutant: the iterator is not backed up to the leaf that is split.        *)
AddSplitLeafNoBackup(work, k, id, begin) ==
  [work  |-> IF k \in Present(work.updates) THEN work ELSE [work EXCEPT !.updates[k] = PutReuse(id)],
   begin |-> begin]

(* The leaf that is split joins the updates, unless they have its key; if  *)
(* it comes before the window, the window is backed up to include it.      *)
AddSplitLeaf(work, k, id, begin) ==
  IF k \in Present(work.updates) THEN [work |-> work, begin |-> begin]
  ELSE [work  |-> [work EXCEPT !.updates[k] = PutReuse(id)],
        begin |-> IF k < begin THEN k ELSE begin]

---------------------------------------------------------------------------
(* A frame of the recursion: the stored nodes, its depth, and the outcome  *)
(* of each call one level further down.  Below the last level there is     *)
(* none, as assertDepth says.                                              *)
Frame(nodes, depth, deeper) == [nodes |-> nodes, depth |-> depth, deeper |-> deeper]

PutBelow(frame, node, begin, end, work, check) ==
  LET middle == Min({k \in Window(work.updates, begin, end) : GetBit(k, frame.depth) = 1} \cup {end})
      left   == frame.deeper[PutCall(node.left, begin, middle, work)]
      right  == frame.deeper[PutCall(node.right, middle, end, left.work)]
  IN  IF left.thrown THEN left
      ELSE IF right.thrown THEN Then(left, right)
      ELSE Then(left, Then(right,
             Join(right.work, left.built, right.built, check \/ left.bubble \/ right.bubble)))

PutIntoEmpty(frame, begin, end, work) ==
  LET rest == EraseDeletions(work, begin, end) IN
  CASE rest.begin = end -> Return(rest.work, BuiltEmpty, FALSE)
    [] rest.begin # end /\ After(rest.work.updates, rest.begin) = end ->
         PutLeaf(frame.nodes, rest.work, rest.begin)
    [] OTHER -> PutBelow(frame, EmptyNode, rest.begin, end, rest.work, FALSE)

(* Mutant: the id of a deleted leaf is not reported.                       *)
UpdateLeafSilently(nodes, id, k, work) ==
  CASE work.updates[k].deletion -> Return(work, BuiltEmpty, TRUE)
    [] nodes[id].type = "Leaf" /\ ~work.updates[k].deletion /\ work.updates[k].val = nodes[id].val ->
         Return(work, Reuse(nodes, id), FALSE)
    [] OTHER -> PutLeaf(nodes, work, k)

(* The only update below a leaf is for its own key.                        *)
UpdateLeaf(nodes, id, k, work) ==
  CASE work.updates[k].deletion -> Return(Report(work, k, id), BuiltEmpty, TRUE)
    [] nodes[id].type = "Leaf" /\ ~work.updates[k].deletion /\ work.updates[k].val = nodes[id].val ->
         Return(work, Reuse(nodes, id), FALSE)
    [] OTHER -> PutLeaf(nodes, work, k)

PutIntoLeaf(frame, id, begin, end, work) ==
  LET key     == frame.nodes[id].key
      window  == Window(work.updates, begin, end)
      deleted == {k \in window : work.updates[k].deletion}
      gone    == key \in deleted
      rest    == EraseDeletions(IF gone THEN Report(work, key, id) ELSE work, begin, end)
      split   == IF gone THEN rest ELSE AddSplitLeaf(rest.work, key, id, rest.begin)
  IN  IF window = {key} THEN UpdateLeaf(frame.nodes, id, begin, work)
      ELSE IF rest.begin # end
           THEN PutBelow(frame, frame.nodes[id], split.begin, end, split.work, deleted # {})
      ELSE IF gone THEN Return(rest.work, BuiltEmpty, TRUE)
      ELSE Return(rest.work, Reuse(frame.nodes, id), FALSE)

PutAux(frame, call) ==
  LET node == ParsedNode(frame.nodes, call.id) IN
  IF call.begin = call.end THEN Return(call.work, Reuse(frame.nodes, call.id), FALSE)
  ELSE CASE node.type = "Witness" -> Throw(call.work)
         [] node.type = "Empty"   -> PutIntoEmpty(frame, call.begin, call.end, call.work)
         [] IsLeaf(node)          -> PutIntoLeaf(frame, call.id, call.begin, call.end, call.work)
         [] IsBranch(node)        -> PutBelow(frame, node, call.begin, call.end, call.work, FALSE)

Outcomes(frame) == [call \in PutCalls |-> PutAux(frame, call)]

(* The outcomes of all calls in a frame that has n levels below it.        *)
CallsAbove(nodes, n) ==
  LET put[m \in Nat] == IF m = 0 THEN Outcomes(Frame(nodes, Depth, NoTable))
                        ELSE Outcomes(Frame(nodes, Depth - m, put[m - 1]))
  IN  put[n]

(* apply(), up to the head: the outcome of putting the updates into the    *)
(* tree below root, and the nodes that are stored then.                    *)
Stored(nodes, updates, done) ==
  [thrown |-> done.thrown, nodes |-> With(nodes, done.written), built |-> done.built,
   output |-> Restrict(done.work.output, DOMAIN updates)]

PutAll(nodes, root, updates) ==
  LET map  == [k \in KeySpace |-> IF k \in DOMAIN updates THEN updates[k] ELSE NoEntry]
      work == [used |-> DOMAIN nodes, updates |-> map, output |-> [k \in KeySpace |-> Empty]]
  IN  Stored(nodes, updates,
        CallsAbove(nodes, Depth)[PutCall(root, After(map, -1), MapEnd, work)])

(* Bound: the ids of leaves do not reach those of interior nodes, which    *)
(* begin at 2^58; the code does not look.                                  *)
RoomForLeaves(nodes, updates) ==
  NextId(DOMAIN nodes, TRUE) + Cardinality(DOMAIN updates) <= FirstInterior
============================================================================

---------------------------- MODULE ProofStrands ----------------------------
(***************************************************************************)
(* Proofs: how a set or a range of keys becomes strands, with the commands *)
(* that join them up to the root, and how a partial tree is built from     *)
(* them and merged into another one.                                       *)
(*                                                                         *)
(* Strands and commands are sequences; offsets count from 1.  A list of    *)
(* accumulators linked by "next" is the set of the offsets that are linked *)
(* ("live"): a merge takes the successor out, and nothing else ever does.  *)
(***************************************************************************)
EXTENDS UpdateSet, SequencesExt

(* A path of n bits, and zeros behind them.                                *)
KeepPrefixBits(key, n) == key - (key % 2^(Depth - n))

Strand(type, depth, key, val) == [type |-> type, depth |-> depth, key |-> key, val |-> val]
Item(id, parent, strand)      == [nodeId |-> id, parent |-> parent, strand |-> strand]
Cmd(op, at, hash)             == [op |-> op, at |-> at, hash |-> hash]

(* What stands where the export throws: the tree is not complete enough.   *)
Unprovable == Item(Empty, Empty, Strand("Invalid", 0, 0, EmptyVal))

NextLive(live, i) == Min({j \in live : j > i} \cup {Max(live) + 1})
HasNext(live, i)  == NextLive(live, i) \in live

---------------------------------------------------------------------------
(* Export: the strands.  Each recursion has its outcomes level by level,   *)
(* as putAux has.                                                          *)

ExportCalls == [id : Nat, parent : Nat, keys : SUBSET KeySpace]

ExportCall(id, parent, keys) == [id |-> id, parent |-> parent, keys |-> keys]

(* Mutant: the right side only if there is nothing to prove on the left.   *)
ExportBelowOneSide(frame, id, keys) ==
  LET node  == frame.nodes[id]
      right == {k \in keys : GetBit(k, frame.depth) = 1}
      left  == keys \ right
  IN  IF left # {} THEN frame.deeper[ExportCall(node.left, id, left)]
      ELSE frame.deeper[ExportCall(node.right, id, right)]

(* The empty side of a branch is shown by the strands of the other side,   *)
(* if it has any.                                                          *)
ExportBelow(frame, id, keys) ==
  LET node  == frame.nodes[id]
      right == {k \in keys : GetBit(k, frame.depth) = 1}
      left  == keys \ right
  IN  (IF node.left # Empty \/ right = {}
       THEN frame.deeper[ExportCall(node.left, id, left)] ELSE <<>>)
        \o (IF node.right # Empty \/ left = {}
            THEN frame.deeper[ExportCall(node.right, id, right)] ELSE <<>>)

ExportLeaf(nodes, depth, id, parent, type) ==
  <<Item(id, parent, Strand(type, depth, nodes[id].key, nodes[id].val))>>

ExportAux(frame, call) ==
  LET node == ParsedNode(frame.nodes, call.id)
      leaf(type) == ExportLeaf(frame.nodes, frame.depth, call.id, call.parent, type)
  IN
  IF call.keys = {} THEN <<>>
  ELSE CASE node.type = "Empty" ->
              <<Item(call.id, call.parent,
                     Strand("WitnessEmpty", frame.depth, KeepPrefixBits(Min(call.keys), frame.depth),
                            EmptyVal))>>
         [] IsLeaf(node) /\ node.key \notin call.keys           -> leaf("WitnessLeaf")
         [] node.type = "Leaf" /\ node.key \in call.keys        -> leaf("Leaf")
         [] IsBranch(node)                                      -> ExportBelow(frame, call.id, call.keys)
         [] node.type = "Witness" \/ (node.type = "WitnessLeaf" /\ node.key \in call.keys) ->
              <<Unprovable>>

ExportsOf(frame) == [call \in ExportCalls |-> ExportAux(frame, call)]

ExportsAbove(nodes, n) ==
  LET export[m \in Nat] == IF m = 0 THEN ExportsOf(Frame(nodes, Depth, NoTable))
                           ELSE ExportsOf(Frame(nodes, Depth - m, export[m - 1]))
  IN  export[n]

(* path is currPath; limit is how many more branches with two children to  *)
(* go below.  A range says from where to where to go, and sent are the     *)
(* values that a leaf is sent with: all if expandLeaves is set, and those  *)
(* of at most 32 bytes if it is not.                                       *)
KeyRange(begin, end, sent) == [begin |-> begin, end |-> end, sent |-> sent]

RangeCalls == [id : Nat, parent : Nat, path : Nat, limit : Nat]

RangeCall(id, parent, path, limit) == [id |-> id, parent |-> parent, path |-> path, limit |-> limit]

ExportRangeAux(frame, range, call) ==
  LET node   == ParsedNode(frame.nodes, call.id)
      middle == call.path + TwoTo(Depth - 1 - frame.depth)
      less   == IF node.type = "BranchBoth" THEN call.limit - 1 ELSE call.limit
      below(child, path) == frame.deeper[RangeCall(child, call.id, path, less)]
  IN  CASE node.type = "Empty" ->
             <<Item(call.id, call.parent, Strand("WitnessEmpty", frame.depth, call.path, EmptyVal))>>
        [] node.type = "Leaf" ->
             ExportLeaf(frame.nodes, frame.depth, call.id, call.parent,
                        IF node.val \in range.sent THEN "Leaf" ELSE "WitnessLeaf")
        [] IsBranch(node) /\ call.limit = 0 ->
             <<Item(call.id, call.parent, Strand("Witness", frame.depth, call.path, node.hash))>>
        [] IsBranch(node) /\ call.limit # 0 ->
             (IF range.begin < middle THEN below(node.left, call.path) ELSE <<>>)
               \o (IF range.end >= middle THEN below(node.right, middle) ELSE <<>>)
        [] IsWitnessAny(node) -> <<Unprovable>>

RangesOf(frame, range) == [call \in RangeCalls |-> ExportRangeAux(frame, range, call)]

RangesAbove(nodes, range, n) ==
  LET export[m \in Nat] == IF m = 0 THEN RangesOf(Frame(nodes, Depth, NoTable), range)
                           ELSE RangesOf(Frame(nodes, Depth - m, export[m - 1]), range)
  IN  export[n]

---------------------------------------------------------------------------
(* Export: the commands                                                    *)

(* reverseMap: the parent of each node.                                    *)
Parents(nodes, root) ==
  LET walk == Walk(nodes, root) IN
  [id \in walk \ {root} |-> CHOOSE b \in walk : id \in {nodes[b].left, nodes[b].right}]

(* Strand i goes up one level: with the next strand, if they now meet, or  *)
(* with its sibling's hash.  A strand that was merged passes on what       *)
(* commands it had; they come before all those of strands merged later.    *)
Climb(nodes, reverseMap, items, st, i) ==
  LET cur       == st.accums[i]
      next      == NextLive(st.live, i)
      parent(j) == LET id == st.accums[j].nodeId IN
                   IF id = Empty THEN items[j].parent ELSE reverseMap[id]
      above     == nodes[parent(i)]
      sibling   == IF above.left = cur.nodeId THEN above.right ELSE above.left
      Up(cmd)   == [st.accums EXCEPT ![i] =
                     [depth |-> @.depth - 1, nodeId |-> parent(i), cmds |-> Append(@.cmds, cmd)]]
  IN  CASE HasNext(st.live, i) /\ parent(i) = parent(next) ->
             [accums |-> Up(Cmd("Merge", i, NullHash)),
              live   |-> st.live \ {next},
              merged |-> st.merged \o st.accums[next].cmds]
        [] sibling = Empty /\ ~(HasNext(st.live, i) /\ parent(i) = parent(next)) ->
             [st EXCEPT !.accums = Up(Cmd("HashEmpty", i, NullHash))]
        [] OTHER ->
             [st EXCEPT !.accums = Up(Cmd("HashProvided", i, nodes[sibling].hash))]

(* All strands of one depth go up, in their order.                         *)
ClimbAll(nodes, reverseMap, items, st, depth) ==
  LET climbed[n \in Nat] ==
        IF n = 0 THEN st
        ELSE LET s == climbed[n - 1] IN
             IF n \in s.live /\ s.accums[n].depth = depth THEN Climb(nodes, reverseMap, items, s, n) ELSE s
  IN  climbed[Len(items)]

(* From the bottom up; the code starts at the depth of the deepest strand, *)
(* below which there are none to go up.                                    *)
ExportCmds(nodes, root, items, startDepth) ==
  LET reverseMap == Parents(nodes, root)
      start == [live   |-> DOMAIN items,
                merged |-> <<>>,
                accums |-> [i \in DOMAIN items |->
                  [depth |-> items[i].strand.depth, nodeId |-> items[i].nodeId, cmds |-> <<>>]]]
      level[n \in Nat] ==
        IF n = 0 THEN start ELSE ClimbAll(nodes, reverseMap, items, level[n - 1], Depth + 1 - n)
      final == level[Depth - startDepth]
  IN  IF items = <<>> THEN <<>> ELSE final.merged \o final.accums[1].cmds

MakeFragment(nodes, root, items, startDepth) ==
  [strands |-> [i \in DOMAIN items |-> items[i].strand],
   cmds    |-> ExportCmds(nodes, root, items, startDepth)]

MakeProof(nodes, root, items) == MakeFragment(nodes, root, items, 0)

Provable(items) == Unprovable \notin ToSet(items)

ItemsOf(nodes, root, keys) == ExportsAbove(nodes, Depth)[ExportCall(root, Empty, keys)]

(* exportProofRange has no limit of depth and expands all leaves.          *)
ItemsInRange(nodes, root, begin, end) ==
  RangesAbove(nodes, KeyRange(begin, end, Val \cup {EmptyVal}), Depth)[RangeCall(root, Empty, 0, Depth)]

---------------------------------------------------------------------------
(* Import                                                                  *)

ImportStrand(st, strand) ==
  LET w == CASE strand.type = "Leaf"        -> NewLeaf(st.nodes, strand.key, strand.val)
             [] strand.type = "WitnessLeaf" -> NewWitnessLeaf(st.nodes, strand.key, strand.val)
             [] strand.type = "Witness"     -> NewWitness(st.nodes, strand.val)
             [] OTHER                       -> [nodes |-> st.nodes, built |-> BuiltEmpty]
  IN  [nodes  |-> w.nodes,
       accums |-> Append(st.accums, [depth |-> strand.depth, key |-> strand.key, built |-> w.built])]

(* The side of the sibling is read off the key of the strand; the strands  *)
(* are in order, so that the next one merges from the right.               *)
RunCmd(st, cmd) ==
  LET accum   == st.accums[cmd.at]
      next    == NextLive(st.live, cmd.at)
      merge   == cmd.op = "Merge"
      sibling == CASE cmd.op = "HashProvided" -> NewWitness(st.nodes, cmd.hash)
                   [] cmd.op = "HashEmpty"    -> [nodes |-> st.nodes, built |-> BuiltEmpty]
                   [] merge                   -> [nodes |-> st.nodes, built |-> st.accums[next].built]
      branch  == IF merge \/ GetBit(accum.key, accum.depth - 1) = 0
                 THEN NewBranch(sibling.nodes, accum.built, sibling.built)
                 ELSE NewBranch(sibling.nodes, sibling.built, accum.built)
  IN  IF \/ st.thrown
         \/ cmd.at \notin st.live
         \/ accum.depth = 0
         \/ merge /\ (~HasNext(st.live, cmd.at) \/ accum.depth # st.accums[next].depth)
      THEN [st EXCEPT !.thrown = TRUE]
      ELSE [thrown |-> FALSE,
            nodes  |-> branch.nodes,
            live   |-> IF merge THEN st.live \ {next} ELSE st.live,
            accums |-> [st.accums EXCEPT ![cmd.at] =
                         [depth |-> @.depth - 1, key |-> @.key, built |-> branch.built]]]

ReadStrands(nodes, strands) ==
  LET read[n \in Nat] == IF n = 0 THEN [nodes |-> nodes, accums |-> <<>>]
                         ELSE ImportStrand(read[n - 1], strands[n])
  IN  read[Len(strands)]

RunCmds(start, cmds) ==
  LET run[n \in Nat] == IF n = 0 THEN start ELSE RunCmd(run[n - 1], cmds[n])
  IN  run[Len(cmds)]

(* importProofInternal: the outcome, with the node that was rebuilt.       *)
Import(nodes, proof, expectedDepth) ==
  LET read == ReadStrands(nodes, proof.strands)
      run  == RunCmds([thrown |-> FALSE, nodes |-> read.nodes, accums |-> read.accums,
                       live |-> DOMAIN read.accums], proof.cmds)
  IN  IF \/ read.accums = <<>>
         \/ run.thrown
         \/ run.live # {1}
         \/ run.accums[1].depth # expectedDepth
      THEN [thrown |-> TRUE, nodes |-> run.nodes, built |-> BuiltEmpty]
      ELSE [thrown |-> FALSE, nodes |-> run.nodes, built |-> run.accums[1].built]

---------------------------------------------------------------------------
(* Mutant: a leaf that is known does not replace a witness leaf.           *)
KnowsMoreOfSubtrees(n, o) == o.type = "Witness" /\ n.type # "Witness"

KnowsMore(n, o) ==
  \/ IsWitnessAny(o) /\ ~IsWitnessAny(n)
  \/ o.type = "Witness" /\ n.type = "WitnessLeaf"

(* mergeProofInternal: the tree that knows what either of two trees with   *)
(* the same hash knows.                                                    *)
MergeCalls == [orig : Nat, new : Nat, work : [used : SUBSET Nat]]

MergeCall(orig, new, work) == [orig |-> orig, new |-> new, work |-> work]

MergeBelow(frame, o, n, call) ==
  LET left  == frame.deeper[MergeCall(o.left, n.left, call.work)]
      right == frame.deeper[MergeCall(o.right, n.right, left.work)]
      reuse(id) == Return(right.work, Reuse(frame.nodes, id), FALSE)
  IN  Then(left, Then(right,
        IF left.built.id = o.left /\ right.built.id = o.right THEN reuse(call.orig)
        ELSE IF left.built.id = n.left /\ right.built.id = n.right THEN reuse(call.new)
        ELSE WriteNew(right.work, BranchNode(left.built, right.built))))

MergeAux(frame, call) ==
  LET o == ParsedNode(frame.nodes, call.orig)
      n == ParsedNode(frame.nodes, call.new)
  IN  IF KnowsMore(n, o) THEN Return(call.work, Reuse(frame.nodes, call.new), FALSE)
      ELSE IF IsBranch(o) /\ IsBranch(n) THEN MergeBelow(frame, o, n, call)
      ELSE Return(call.work, Reuse(frame.nodes, call.orig), FALSE)

MergesOf(frame) == [call \in MergeCalls |-> MergeAux(frame, call)]

MergesAbove(nodes, n) ==
  LET merge[m \in Nat] == IF m = 0 THEN MergesOf(Frame(nodes, Depth, NoTable))
                          ELSE MergesOf(Frame(nodes, Depth - m, merge[m - 1]))
  IN  merge[n]

MergeTrees(nodes, orig, new) ==
  LET done == MergesAbove(nodes, Depth)[MergeCall(orig, new, [used |-> DOMAIN nodes])]
  IN  [nodes |-> With(nodes, done.written), built |-> done.built]
=============================================================================

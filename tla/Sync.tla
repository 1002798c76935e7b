-------------------------------- MODULE Sync --------------------------------
(***************************************************************************)
(* A syncer that fetches what it lacks of a provider's tree: in rounds of  *)
(* requests and responses, either of which may be cut short by a budget of *)
(* bytes, it grows a shadow of that tree until all that is missing from    *)
(* the shadow it has itself.                                               *)
(*                                                                         *)
(* The applications on both sides exchange the messages.  One may be lost, *)
(* come twice, or come when the syncer has already asked again; and the    *)
(* provider may update its tree between two answers.                       *)
(***************************************************************************)
EXTENDS UpdateSet, ProofStrands

CONSTANTS
  Key,                \* the keys in use
  ValuesOf,           \* the values the record of each key may have, some of Val
  LongVal,            \* the values of more than 32 bytes
  InitialDepthLimit, LaterDepthLimit,
  MaxRequests,        \* bound: the largest budget, in requests
  MaxCalls,           \* bound: how many messages are under way at once
  MaxLosses,          \* bound: how many are lost
  MaxChanges          \* bound: how often the provider changes its tree

ASSUME KeyAssumption     == Key \subseteq KeySpace
ASSUME ValuesAssumption  == ValuesOf \in [Key -> SUBSET Val]
ASSUME LongValAssumption == LongVal \subseteq Val
ASSUME LimitAssumption   == {InitialDepthLimit, LaterDepthLimit} \subseteq Nat \ {0}

VARIABLES
  pnodes,     \* the provider's stored nodes
  phead,      \* the root it answers from
  versions,   \* the roots it has answered from so far
  nodes,      \* the syncer's stored nodes, without those of no tree
  nodeIdLocal,
  nodeIdShadow,
  inited,
  finishedNodes,
  diffedNodes,
  told,       \* what the callback was called with
  requests,   \* lists of requests on their way to the provider
  responses,  \* responses on their way back, each with the requests they are for
  losses,     \* how many messages were lost
  done        \* the syncer has left its loop

provider == <<pnodes, phead, versions>>
syncer   == <<nodes, nodeIdLocal, nodeIdShadow, inited, finishedNodes, diffedNodes, told, done>>
network  == <<requests, responses, losses>>
vars     == <<provider, syncer, network>>

Request(path, depth, limit, expand) ==
  [path |-> path, startDepth |-> depth, depthLimit |-> limit, expandLeaves |-> expand]

(* Where a list that is sorted by path divides, going by a bit of it.      *)
Middle(paths, depth) == Min({i \in DOMAIN paths : GetBit(paths[i], depth) = 1} \cup {Len(paths) + 1})
LeftOf(list, paths, depth)  == SubSeq(list, 1, Middle(paths, depth) - 1)
RightOf(list, paths, depth) == SubSeq(list, Middle(paths, depth), Len(list))

---------------------------------------------------------------------------
(* The provider: handleSyncRequests                                        *)

(* What stands where it throws.                                            *)
Unavailable == [strands |-> <<Unprovable.strand>>, cmds |-> <<>>]

(* exportProofFragment                                                     *)
Fragment(id, req) ==
  MakeFragment(pnodes, id,
    RangesAbove(pnodes, KeyRange(0, 2^Depth - 1, IF req.expandLeaves THEN Val ELSE Val \ LongVal),
                Depth - req.startDepth)
      [RangeCall(id, Empty, KeepPrefixBits(req.path, req.startDepth), req.depthLimit)],
    req.startDepth)

(* The answers to all requests, in order, as far as the tree has what they *)
(* ask for.                                                                *)
RECURSIVE Answers(_, _, _)
Answers(id, depth, reqs) ==
  LET node  == ParsedNode(pnodes, id)
      paths == [i \in DOMAIN reqs |-> reqs[i].path]
      left  == LeftOf(reqs, paths, depth)
      right == RightOf(reqs, paths, depth)
  IN  CASE reqs = <<>> -> <<>>
        [] Len(reqs) = 1 /\ reqs[1].startDepth = depth -> <<Fragment(id, reqs[1])>>
        [] Len(reqs) > 0 /\ ~(Len(reqs) = 1 /\ reqs[1].startDepth = depth) /\ IsBranch(node) ->
             (IF node.left # Empty \/ right = <<>> THEN Answers(node.left, depth + 1, left) ELSE <<>>)
               \o (IF node.right # Empty \/ left = <<>>
                   THEN Answers(node.right, depth + 1, right) ELSE <<>>)
        [] OTHER -> <<Unavailable>>

---------------------------------------------------------------------------
(* The syncer: importSyncResponses                                         *)

Refused(table)  == [thrown |-> TRUE, nodes |-> table, built |-> BuiltEmpty]
Kept(table, id) == [thrown |-> FALSE, nodes |-> table, built |-> Reuse(table, id)]

IsStub(node, depth) == depth = 0 /\ node.type = "Witness" /\ node.hash = NullHash

(* What a response has grown in the place of a node.                       *)
InPlaceOf(table, node, depth, new) ==
  IF \/ ~IsWitnessAny(node)
     \/ new.thrown
     \/ new.built.hash # node.hash /\ ~IsStub(node, depth)
  THEN Refused(table) ELSE new

Expand(table, node, depth, proof) == InPlaceOf(table, node, depth, Import(table, proof, depth))

(* The branch over two subtrees, unless one of them threw.                 *)
Rebuilt(l, r) ==
  LET branch == NewBranch(r.nodes, l.built, r.built) IN
  IF l.thrown THEN l ELSE IF r.thrown THEN r
  ELSE [thrown |-> FALSE, nodes |-> branch.nodes, built |-> branch.built]

(* importSyncResponsesAux, with the responses paired with their requests:  *)
(* every branch is built anew.                                             *)
RECURSIVE Grow(_, _, _, _)
Grow(table, id, depth, pairs) ==
  LET node   == ParsedNode(table, id)
      paths  == [i \in DOMAIN pairs |-> pairs[i].req.path]
      left   == LeftOf(pairs, paths, depth)
      right  == RightOf(pairs, paths, depth)
      single == Len(pairs) = 1 /\ pairs[1].req.startDepth = depth
      l      == IF node.left # Empty \/ right = <<>>
                THEN Grow(table, node.left, depth + 1, left) ELSE Kept(table, node.left)
      r      == IF node.right # Empty \/ left = <<>>
                THEN Grow(l.nodes, node.right, depth + 1, right) ELSE Kept(l.nodes, node.right)
  IN  CASE single -> Expand(table, node, depth, pairs[1].proof)
        [] ~single /\ IsBranch(node) -> Rebuilt(l, r)
        [] OTHER -> Kept(table, id)

Pairs(reqs, resps) == [i \in DOMAIN resps |-> [req |-> reqs[i], proof |-> resps[i]]]

(* The first shadow may have any root, the next ones have the same.        *)
WithSameRoot(grown) ==
  IF inited /\ grown.built.hash # ParsedNode(nodes, nodeIdShadow).hash
  THEN Refused(nodes) ELSE grown

(* Mutant: responses that were cut short are not used.                     *)
AddAllResps(reqs, resps) ==
  IF Len(resps) < Len(reqs) THEN Refused(nodes)
  ELSE WithSameRoot(Grow(nodes, nodeIdShadow, 0, Pairs(reqs, resps)))

(* addResps                                                                *)
AddResps(reqs, resps) == WithSameRoot(Grow(nodes, nodeIdShadow, 0, Pairs(reqs, resps)))

---------------------------------------------------------------------------
(* The syncer: diff                                                        *)

Event(change, node) ==
  [change |-> change, key |-> node.key, val |-> IF node.type = "Leaf" THEN node.val ELSE EmptyVal]

RECURSIVE NodesInOrder(_)
NodesInOrder(id) ==
  LET node == ParsedNode(nodes, id) IN
  IF IsBranch(node) THEN NodesInOrder(node.left) \o NodesInOrder(node.right)
  ELSE IF id = Empty THEN <<>> ELSE <<node>>

Tell(change, node) == IF node.type = "Empty" THEN <<>> ELSE <<Event(change, node)>>

(* A branch on one side only: all its leaves are news, but for the one     *)
(* with the key of the single leaf on the other side.                      *)
AgainstLeaf(id, single, change, opposite) ==
  LET leaves == NodesInOrder(id)
      found  == SelectSeq(leaves, LAMBDA leaf : leaf.key = single.key)
      others == SelectSeq(leaves, LAMBDA leaf : leaf.key # single.key)
  IN  [i \in DOMAIN others |-> Event(change, others[i])]
      \o (IF found = <<>> THEN Tell(opposite, single)
          ELSE IF found[1].hash = single.hash THEN <<>>
          ELSE <<Event("Changed", IF change = "Added" THEN found[1] ELSE single)>>)

(* Mutant: what an earlier round has told is told again.                   *)
RECURSIVE DifferencesAgain(_, _, _)
DifferencesAgain(ours, theirs, diffed) ==
  LET o == ParsedNode(nodes, ours) t == ParsedNode(nodes, theirs) IN
  IF o.hash = t.hash THEN <<>>
  ELSE CASE IsBranch(o) /\ IsBranch(t) ->
              DifferencesAgain(o.left, t.left, diffed) \o DifferencesAgain(o.right, t.right, diffed)
         [] ~IsBranch(o) /\ IsBranch(t) -> AgainstLeaf(theirs, o, "Added", "Deleted")
         [] IsBranch(o) /\ ~IsBranch(t) -> AgainstLeaf(ours, t, "Deleted", "Added")
         [] OTHER -> IF IsLeaf(o) /\ IsLeaf(t) /\ o.key = t.key THEN Tell("Changed", t)
                     ELSE Tell("Deleted", o) \o Tell("Added", t)

RECURSIVE Differences(_, _, _)
Differences(ours, theirs, diffed) ==
  LET o == ParsedNode(nodes, ours) t == ParsedNode(nodes, theirs) IN
  IF o.hash = t.hash \/ ours \in diffed THEN <<>>
  ELSE CASE IsBranch(o) /\ IsBranch(t) ->
              Differences(o.left, t.left, diffed) \o Differences(o.right, t.right, diffed)
         [] ~IsBranch(o) /\ IsBranch(t) -> AgainstLeaf(theirs, o, "Added", "Deleted")
         [] IsBranch(o) /\ ~IsBranch(t) -> AgainstLeaf(ours, t, "Deleted", "Added")
         [] OTHER -> IF IsLeaf(o) /\ IsLeaf(t) /\ o.key = t.key THEN Tell("Changed", t)
                     ELSE Tell("Deleted", o) \o Tell("Added", t)

---------------------------------------------------------------------------
(* The syncer: reconcileTrees                                              *)

(* What its frames share, with the budget in requests; and its outcome.    *)
Scan(budget) ==
  [budget |-> budget, reqs |-> <<>>, finished |-> finishedNodes, diffed |-> diffedNodes, told |-> <<>>]
Found(scan, ret) == [scan |-> scan, ret |-> ret]

AskFor(scan, req) ==
  Found([scan EXCEPT !.reqs = Append(@, req), !.budget = @ - 1], FALSE)

(* Mutant: trees that are not both branches at their roots are left out.   *)
TellBelowBranches(scan, ours, theirs, depth) ==
  IF IsBranch(ParsedNode(nodes, ours)) /\ IsBranch(ParsedNode(nodes, theirs))
  THEN [scan EXCEPT !.told   = @ \o Differences(ours, theirs, scan.diffed),
                    !.diffed = @ \cup {ours}]
  ELSE scan

(* The differences below a pair of nodes, once all of them are known.      *)
TellBelow(scan, ours, theirs, depth) ==
  IF depth = 0 \/ (IsBranch(ParsedNode(nodes, ours)) /\ IsBranch(ParsedNode(nodes, theirs)))
  THEN [scan EXCEPT !.told   = @ \o Differences(ours, theirs, scan.diffed),
                    !.diffed = @ \cup {ours}]
  ELSE scan

RECURSIVE Reconcile(_, _, _, _, _)

(* Mutant: the branch that is noted as finished is the shadow's.           *)
ReconcileBelowTheirs(scan, ours, theirs, depth, path) ==
  LET o     == ParsedNode(nodes, ours)
      t     == ParsedNode(nodes, theirs)
      left  == Reconcile(scan, IF IsBranch(o) THEN o.left ELSE ours, t.left, depth + 1, path)
      right == Reconcile(left.scan, IF IsBranch(o) THEN o.right ELSE ours, t.right, depth + 1,
                         path + 2^(Depth - 1 - depth))
      ret   == left.ret /\ right.ret
  IN  Found([right.scan EXCEPT !.finished = IF ret /\ IsBranch(o) THEN @ \cup {theirs} ELSE @], ret)

(* Mutant: the path is not followed to the right.                          *)
ReconcileBelowOnePath(scan, ours, theirs, depth, path) ==
  LET o     == ParsedNode(nodes, ours)
      t     == ParsedNode(nodes, theirs)
      left  == Reconcile(scan, IF IsBranch(o) THEN o.left ELSE ours, t.left, depth + 1, path)
      right == Reconcile(left.scan, IF IsBranch(o) THEN o.right ELSE ours, t.right, depth + 1, path)
      ret   == left.ret /\ right.ret
  IN  Found([right.scan EXCEPT !.finished = IF ret /\ IsBranch(o) THEN @ \cup {ours} ELSE @], ret)

ReconcileBelow(scan, ours, theirs, depth, path) ==
  LET o     == ParsedNode(nodes, ours)
      t     == ParsedNode(nodes, theirs)
      left  == Reconcile(scan, IF IsBranch(o) THEN o.left ELSE ours, t.left, depth + 1, path)
      right == Reconcile(left.scan, IF IsBranch(o) THEN o.right ELSE ours, t.right, depth + 1,
                         path + 2^(Depth - 1 - depth))
      ret   == left.ret /\ right.ret
  IN  Found([right.scan EXCEPT !.finished = IF ret /\ IsBranch(o) THEN @ \cup {ours} ELSE @], ret)

AskForLeaf(scan, depth, path) == AskFor(scan, Request(path, depth, 1, TRUE))

Reconcile(scan, ours, theirs, depth, path) ==
  LET o == ParsedNode(nodes, ours)
      t == ParsedNode(nodes, theirs)
      result ==
        CASE IsBranch(t) -> ReconcileBelow(scan, ours, theirs, depth, path)
          [] t.type = "WitnessLeaf" -> AskForLeaf(scan, depth, path)
          [] t.type = "Witness" -> AskFor(scan, Request(path, depth, LaterDepthLimit, FALSE))
          [] OTHER -> Found(scan, TRUE)
  IN  CASE o.hash = t.hash \/ ours \in scan.finished -> Found(scan, TRUE)
        [] o.hash # t.hash /\ ours \notin scan.finished /\ scan.budget = 0 -> Found(scan, FALSE)
        [] OTHER -> IF result.ret THEN Found(TellBelow(result.scan, ours, theirs, depth), TRUE) ELSE result

(* getReqs                                                                 *)
GetReqs(budget) ==
  IF inited THEN Reconcile(Scan(budget), nodeIdLocal, nodeIdShadow, 0, 0).scan
  ELSE [Scan(budget) EXCEPT !.reqs = <<Request(0, 0, InitialDepthLimit, FALSE)>>]

---------------------------------------------------------------------------
(* The actions                                                             *)

(* The syncer sends its requests, or has none and leaves the loop.         *)
Ask(budget) ==
  LET scan == GetReqs(budget) IN
  /\ ~done
  /\ finishedNodes' = scan.finished
  /\ diffedNodes' = scan.diffed
  /\ told' = told \o scan.told
  /\ \/ scan.reqs = <<>> /\ done' = TRUE /\ UNCHANGED requests
     \/ /\ scan.reqs # <<>>
        /\ Cardinality(requests) + Cardinality(responses) < MaxCalls
        /\ requests' = requests \cup {scan.reqs}
        /\ UNCHANGED done
  /\ UNCHANGED <<provider, nodes, nodeIdLocal, nodeIdShadow, inited, responses, losses>>

(* The first n answers are within the budget.  If the provider throws, no  *)
(* responses are sent.                                                     *)
Answer(reqs, n) ==
  LET answers == Answers(phead, 0, reqs)
      resps   == SubSeq(answers, 1, n)
  IN  /\ n <= Len(answers)
      /\ requests' = requests \ {reqs}
      /\ responses' = IF Unavailable \in ToSet(resps) THEN responses
                      ELSE responses \cup {[reqs |-> reqs, resps |-> resps]}
      /\ UNCHANGED <<provider, syncer, losses>>

(* addResps; if it throws, the syncer goes on as before.                   *)
Deliver(call) ==
  /\ ~done
  /\ responses' = responses \ {call}
  /\ \E grown \in {AddResps(call.reqs, call.resps)} :
       IF grown.thrown THEN UNCHANGED <<nodes, nodeIdShadow, inited>>
       ELSE /\ nodeIdShadow' = grown.built.id
            /\ nodes' = Restrict(grown.nodes, Walk(grown.nodes, nodeIdLocal)
                                                \cup Walk(grown.nodes, grown.built.id))
            /\ inited' = TRUE
  /\ UNCHANGED <<provider, nodeIdLocal, finishedNodes, diffedNodes, told, done, requests, losses>>

Lose ==
  /\ losses < MaxLosses
  /\ losses' = losses + 1
  /\ \/ \E reqs \in requests : requests' = requests \ {reqs} /\ UNCHANGED responses
     \/ \E call \in responses : responses' = responses \ {call} /\ UNCHANGED requests
  /\ UNCHANGED <<provider, syncer>>

(* The provider's head moves.                                              *)
Change(k, update) ==
  LET result == PutAll(pnodes, phead, [n \in {k} |-> update]) IN
  /\ ~done
  /\ Cardinality(versions) <= MaxChanges
  /\ result.built.id # phead
  /\ pnodes' = result.nodes
  /\ phead' = result.built.id
  /\ versions' = versions \cup {result.built.id}
  /\ UNCHANGED <<syncer, network>>

ChangeBack(root) ==
  /\ ~done
  /\ phead' = root
  /\ UNCHANGED <<pnodes, versions, syncer, network>>

Maps        == {map \in UNION {[S -> Val] : S \in SUBSET Key} :
                 \A k \in DOMAIN map : map[k] \in ValuesOf[k]}
TreeOf(map) == PutAll(NoTable, Empty, [k \in DOMAIN map |-> Put(map[k])])

Init ==
  /\ \E ours \in Maps :
       LET tree == TreeOf(ours)
           stub == NewWitness(tree.nodes, NullHash)
       IN  /\ nodes = stub.nodes
           /\ nodeIdLocal = tree.built.id
           /\ nodeIdShadow = stub.built.id
  /\ \E theirs \in Maps :
       /\ pnodes = TreeOf(theirs).nodes
       /\ phead = TreeOf(theirs).built.id
  /\ versions = {phead}
  /\ inited = FALSE
  /\ finishedNodes = {}
  /\ diffedNodes = {}
  /\ told = <<>>
  /\ requests = {}
  /\ responses = {}
  /\ losses = 0
  /\ done = FALSE

SomeAsk == \E budget \in 1 .. MaxRequests : Ask(budget)

Next ==
  \/ SomeAsk
  \/ \E reqs \in requests : \E n \in 1 .. Len(reqs) : Answer(reqs, n)
  \/ \E call \in responses : Deliver(call)
  \/ Lose
  \/ \E k \in Key : \E update \in {Delete} \cup {Put(v) : v \in ValuesOf[k]} : Change(k, update)
  \/ \E root \in versions : ChangeBack(root)

Spec == Init /\ [][Next]_vars

(* A message that is not lost arrives and is handled, and the syncer does  *)
(* not rest before it is done: when nothing is under way it asks again.    *)
Fairness ==
  /\ WF_requests(\E reqs \in requests : requests' = requests \ {reqs})
  /\ WF_responses(~done /\ \E call \in responses : responses' = responses \ {call})
  /\ []<>(requests # {} \/ responses # {} \/ done)

FairSpec == Spec /\ Fairness

---------------------------------------------------------------------------
(* Properties                                                              *)

ShadowHash == ParsedNode(nodes, nodeIdShadow).hash
Agreed     == ~inited \/ ParsedNode(pnodes, phead).hash = ShadowHash

(* Every variable has its type; the nodes that are noted as finished or    *)
(* told are nodes of the syncer's own tree, which no sync changes.         *)
TypeOK ==
  /\ phead \in versions
  /\ versions \subseteq DOMAIN pnodes \cup {Empty}
  /\ {nodeIdLocal, nodeIdShadow} \subseteq DOMAIN nodes \cup {Empty}
  /\ finishedNodes \subseteq Walk(nodes, nodeIdLocal)
  /\ diffedNodes \subseteq Walk(nodes, nodeIdLocal) \cup {nodeIdLocal}
  /\ {inited, done} \subseteq BOOLEAN
  /\ Cardinality(requests) + Cardinality(responses) <= MaxCalls
  /\ losses \in 0 .. MaxLosses

(* As long as the provider has the version that is followed, whatever is   *)
(* asked for under any budget is answered, and as many of the answers as   *)
(* the provider's budget lets through are accepted.                        *)
AnswersCount ==
  Agreed /\ ~done =>
    \A budget \in 1 .. MaxRequests :
      LET reqs    == GetReqs(budget).reqs
          answers == Answers(phead, 0, reqs)
      IN  /\ Len(answers) = Len(reqs)
          /\ Unavailable \notin ToSet(answers)
          /\ \A n \in DOMAIN answers :
               ~AddResps(reqs, SubSeq(answers, 1, n)).thrown

(* The sync follows one version of the provider's and tells what differs   *)
(* from it: each difference once, none that is not there, and all of them  *)
(* by the time it is done.                                                 *)
Followed ==
  IF ~inited THEN {}
  ELSE {Contents(pnodes, v) : v \in {x \in versions : ParsedNode(pnodes, x).hash = ShadowHash}}

Promise == INSTANCE SyncPromise WITH ours <- Contents(nodes, nodeIdLocal), theirs <- Followed
KeepsThePromise == Promise!Spec

(* check.cpp's "sync fuzz": a diff of the two trees afterwards lists what  *)
(* the callback was given on the way.                                      *)
DiffAgrees ==
  done => LET diff == Differences(nodeIdLocal, nodeIdShadow, {}) IN
          ToSet(diff) = ToSet(told) /\ Len(diff) = Len(told)

(* If the provider settles on the version that is followed, the sync comes *)
(* to an end.                                                              *)
ComesToAnEnd == <>[]Agreed => <>done
=============================================================================

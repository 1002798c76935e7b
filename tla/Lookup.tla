------------------------------- MODULE Lookup -------------------------------
(***************************************************************************)
(* getMulti: the answers for a set of keys, in one walk down the tree.     *)
(***************************************************************************)
EXTENDS TreeNodes

Answer(exists, val, id) == [exists |-> exists, val |-> val, nodeId |-> id]
NoRecord == Answer(FALSE, EmptyVal, Empty)

(* The key whose walk meets a witness, at which getMultiAux throws; get()  *)
(* throws if any of its keys comes to that.                                *)
Unknown == Answer(TRUE, EmptyVal, Empty)

(* A call of getMultiAux, at a node for some of the keys.                  *)
Call(id, keys) == [id |-> id, keys |-> keys]

(* Mutant: the keys are divided by the next bit.                           *)
GetBelowNextBit(nodes, depth, call) ==
  LET node  == ParsedNode(nodes, call.id)
      right == {k \in call.keys : GetBit(k, (depth + 1) % Depth) = 1}
  IN  IF call.keys = {} \/ ~IsBranch(node) THEN {}
      ELSE {Call(node.left, call.keys \ right), Call(node.right, right)}

(* The calls that a call at this depth makes.                              *)
GetBelow(nodes, depth, call) ==
  LET node  == ParsedNode(nodes, call.id)
      right == {k \in call.keys : GetBit(k, depth) = 1}
  IN  IF call.keys = {} \/ ~IsBranch(node) THEN {}
      ELSE {Call(node.left, call.keys \ right), Call(node.right, right)}

Calls(nodes, id, keys) ==
  LET calls[n \in Nat] == IF n = 0 THEN {Call(id, keys)}
                          ELSE UNION {GetBelow(nodes, n - 1, call) : call \in calls[n - 1]}
  IN  UNION {calls[n] : n \in 0 .. Depth}

(* What a call says of one of its keys, when it makes no others.           *)
AnswerAt(nodes, id, key) ==
  LET node == ParsedNode(nodes, id) IN
  IF node.type # "Witness" /\ key # node.key THEN NoRecord
  ELSE IF node.type = "Leaf" THEN Answer(TRUE, node.val, id)
  ELSE Unknown

(* A key is in the range of one such call only.                            *)
GetMulti(nodes, id, keys) ==
  LET last(key) == CHOOSE call \in Calls(nodes, id, keys) :
                     key \in call.keys /\ ~IsBranch(ParsedNode(nodes, call.id))
  IN  [key \in keys |-> AnswerAt(nodes, last(key).id, key)]

---------------------------------------------------------------------------
(* Any lookup of any keys finds the records that are there, through the    *)
(* path their bits spell, and no others (getMulti).                        *)
AnsweredRight(nodes, root, keys) ==
  LET map     == Contents(nodes, root)
      answers == GetMulti(nodes, root, keys)
  IN  /\ DOMAIN answers = keys
      /\ \A k \in keys :
           IF k \in DOMAIN map
           THEN answers[k].exists /\ answers[k].val = map[k] /\ nodes[answers[k].nodeId].key = k
           ELSE answers[k] = NoRecord
=============================================================================

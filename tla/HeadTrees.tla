----------------------------- MODULE HeadTrees -----------------------------
(***************************************************************************)
(* The heads of a database and the trees they lead to, as their readers    *)
(* find them: what a tree is, whichever updates built it, and what lookups *)
(* in it answer.                                                           *)
(***************************************************************************)
EXTENDS Lookup, HeadTable

CONSTANT Key     \* the keys in use, a few of KeySpace

ASSUME KeyAssumption == Key \subseteq KeySpace

VARIABLE nodes   \* the stored nodes

ContentsOf(slot) == Contents(nodes, heads[slot])

(* Under each head there is a tree.                                        *)
TreesOK == current \in Slot /\ \A slot \in Slot : TreeOK(nodes, heads[slot])

---------------------------------------------------------------------------
(* Properties                                                              *)

(* Two trees with the same records have the same root, and two with other  *)
(* records another one, whatever updates built them (README, "Splitting    *)
(* leaves", "Bubbling"): the root hash of each head is the canonical one.  *)
CanonicalRoot ==
  \A slot \in Slot :
    ParsedNode(nodes, heads[slot]).hash = CanonicalHash(ContentsOf(slot))

(* Every lookup in the working head is answered right (getMulti).          *)
QueriesAnswered == \A keys \in SUBSET Key : AnsweredRight(nodes, heads[current], keys)
=============================================================================

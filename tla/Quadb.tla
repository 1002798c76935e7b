------------------------------- MODULE Quadb -------------------------------
(***************************************************************************)
(* The command line program quadb: what each command does to the trees,    *)
(* and to the heads that lead to them.  A command that throws or dies      *)
(* commits nothing, as if it had not been.                                 *)
(***************************************************************************)
EXTENDS QuadTree

vars == <<nodes, last, applies, headVars>>

ByName(updates) == \A k \in DOMAIN updates : updates[k].override = Empty

(* put, del, import and patch                                              *)
Edit(updates) == ByName(updates) /\ Apply(updates) /\ Save(state)

Gc == Collect /\ KeepHeads

(* Another program, which uses the library on the same database, applies   *)
(* updates with putReuse to the same head.  It may commit when apply() has *)
(* thrown.                                                                 *)
ProgramEdits(updates) ==
  /\ current # Detached
  /\ ~ByName(updates)
  /\ Apply(updates)
  /\ UNCHANGED state

AllInit == Init /\ HeadInit

Next ==
  \/ \E updates \in UpdateSets : Edit(updates) \/ ProgramEdits(updates)
  \/ Gc
  \/ \E name \in HeadName : NoUpdate /\ (CheckoutHead(name) \/ HeadRm(name))
  \/ NoUpdate /\ HeadRmCurrent
  \/ NoUpdate /\ CheckoutEmpty
  \/ \E from \in HeadName \cup {current}, slot \in Slot : NoUpdate /\ ForkHead(from, slot)

Spec == AllInit /\ [][Next]_vars
=============================================================================

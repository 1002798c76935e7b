------------------------------ MODULE HeadTable ------------------------------
(***************************************************************************)
(* The heads of a database, the one that is checked out, and the table in  *)
(* which quadb leaves it to the next command.                              *)
(*                                                                         *)
(* Each command is a process of its own: it begins a write transaction,    *)
(* checks out the head that the state table names, does one thing, saves a *)
(* detached head in that table and commits.  The variables heads[Detached] *)
(* and current live in a process and end with it.  Between two commands    *)
(* they have here the values that the last process left; that the next one *)
(* begins with the same is what the state table is for, and a property.    *)
(***************************************************************************)
EXTENDS Naturals

CONSTANTS
  HeadName, DefaultHead,
  Detached       \* stands for the detached head among the heads

ASSUME HeadAssumption == DefaultHead \in HeadName /\ Detached \notin HeadName

VARIABLES
  heads,     \* root node id of each head, NoRoot if there is no such head;
             \* heads[Detached] is detachedHeadNodeId
  current,   \* the head that is checked out, Detached if detachedHead is set
  state      \* the table quadrable_quadb_state: currHead and detachedHead, if they are there

headVars == <<heads, current, state>>

Slot    == HeadName \cup {Detached}
NoRoot  == 0
NoState == [name \in {} |-> name]

---------------------------------------------------------------------------
(* The library: setHeadNodeId, checkout, fork.                             *)

SetHead(root) == heads' = [heads EXCEPT ![current] = root] /\ UNCHANGED current

(* detachedHeadNodeId is dead while a named head is checked out: nothing   *)
(* reads it before the next checkout(nodeId) sets it.                      *)
Checkout(name) ==
  /\ current' = name
  /\ heads' = [heads EXCEPT ![Detached] = NoRoot]

(* checkout(nodeId), which with no argument is checkout(0).                *)
CheckoutNode(id) ==
  /\ current' = Detached
  /\ heads' = [heads EXCEPT ![Detached] = id]

(* Both forms of fork(), to a named head or to a detached one, on a head   *)
(* that was just checked out or on the one that was there.                 *)
Fork(from, slot) ==
  /\ current' = slot
  /\ heads' = [heads EXCEPT ![Detached] = NoRoot, ![slot] = heads[from]]

(* quadb head rm                                                           *)
RemoveHead(name) ==
  /\ heads' = [heads EXCEPT ![name] = NoRoot]
  /\ UNCHANGED current

---------------------------------------------------------------------------
(* The state table                                                         *)

PutState(table, name, x) ==
  [n \in DOMAIN table \cup {name} |-> IF n = name THEN x ELSE table[n]]

DelState(table, name) == [n \in DOMAIN table \ {name} |-> table[n]]

(* What a process begins with.                                             *)
Loaded(table) ==
  IF "detachedHead" \in DOMAIN table THEN [slot |-> Detached, root |-> table["detachedHead"]]
  ELSE LET name == IF "currHead" \in DOMAIN table THEN table["currHead"] ELSE DefaultHead
       IN  [slot |-> name, root |-> heads[name]]

(* What it does last, before it commits.                                   *)
Save(table) ==
  state' = IF current' = Detached THEN PutState(table, "detachedHead", heads'[Detached]) ELSE table

(* Mutant: the head before stays in the table, and the detached one too.   *)
SwitchedNamesOnly(slot) == IF slot = Detached THEN state ELSE PutState(state, "currHead", slot)

(* The table when another head has become the working one.                 *)
Switched(slot) ==
  IF slot = Detached THEN DelState(state, "currHead")
  ELSE DelState(PutState(state, "currHead", slot), "detachedHead")

---------------------------------------------------------------------------
(* Commands, as far as the heads go                                        *)

(* put, del, import and patch leave the head another root.                 *)
MoveHead(root) == SetHead(root) /\ Save(state)

(* Commands that leave the heads alone.                                    *)
KeepHeads == UNCHANGED <<heads, current>> /\ Save(state)

(* head rm <head>, and head rm                                             *)
HeadRm(name) == RemoveHead(name) /\ Save(state)

HeadRmCurrent ==
  /\ IF current = Detached THEN CheckoutNode(NoRoot) ELSE RemoveHead(current)
  /\ Save(state)

(* checkout <head>, and checkout                                           *)
CheckoutHead(name) == Checkout(name) /\ Save(Switched(name))
CheckoutEmpty      == CheckoutNode(NoRoot) /\ Save(Switched(Detached))

(* fork [<head>] [--from=<from>]                                           *)
ForkHead(from, slot) == Fork(from, slot) /\ Save(Switched(slot))

(* Another program, which uses the library on the same database, moves the *)
(* same head.                                                              *)
ProgramMovesHead(root) == current # Detached /\ SetHead(root) /\ UNCHANGED state

HeadInit ==
  /\ heads = [slot \in Slot |-> NoRoot]
  /\ current = DefaultHead
  /\ state = NoState

HeadNext ==
  \/ \E root \in Nat : MoveHead(root) \/ ProgramMovesHead(root)
  \/ KeepHeads
  \/ \E name \in HeadName : CheckoutHead(name) \/ HeadRm(name)
  \/ HeadRmCurrent
  \/ CheckoutEmpty
  \/ \E from \in HeadName \cup {current}, slot \in Slot : ForkHead(from, slot)

HeadSpec == HeadInit /\ [][HeadNext]_headVars

---------------------------------------------------------------------------
(* The next command works on the head that the last one left: on the same  *)
(* name, or on the same tree if it is detached.                            *)
NextCommandFindsTheHead == Loaded(state) = [slot |-> current, root |-> heads[current]]
=============================================================================

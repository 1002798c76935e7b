---------------------------- MODULE VersionedMap ----------------------------
(***************************************************************************)
(* What a Quadrable database promises its users: one map from keys to      *)
(* values per head, all of them versions that are updated independently,   *)
(* and a working head that is either one of the named ones or detached.    *)
(* A set of changes is applied as a whole or refused as a whole.           *)
(***************************************************************************)
EXTENDS Integers, Functions

CONSTANTS Key, Val, HeadName, DefaultHead,
          Detached,        \* the detached head's slot
          Deletion         \* the change that removes a key

VARIABLES
  version,    \* the map of every head, the empty one if there is no such head
  current,    \* the working head
  request     \* the last set of changes asked for, and whether it was accepted

Slot == HeadName \cup {Detached}

EmptyMap == [k \in {} |-> k]
NoRequest == [changes |-> EmptyMap, accepted |-> TRUE]

Maps(R) == UNION {[S -> R] : S \in SUBSET Key}

(* A map after a set of changes.                                           *)
Patched(map, changes) ==
  LET kept  == {k \in DOMAIN map : k \notin DOMAIN changes}
      added == {k \in DOMAIN changes : changes[k] # Deletion}
  IN  [k \in kept \cup added |-> IF k \in added THEN changes[k] ELSE map[k]]

Init ==
  /\ version = [slot \in Slot |-> EmptyMap]
  /\ current = DefaultHead
  /\ request = NoRequest

Apply ==
  /\ request'.changes \in Maps(Val \cup {Deletion})
  /\ request'.accepted \in BOOLEAN
  /\ version' = IF request'.accepted
                THEN [version EXCEPT ![current] = Patched(@, request'.changes)]
                ELSE version
  /\ UNCHANGED current

(* A detached head is lost when another one is checked out.                *)
Leaving(map) == IF current' = Detached THEN map ELSE [map EXCEPT ![Detached] = EmptyMap]

Checkout(name) ==
  /\ current' = name
  /\ version' = Leaving(version)
  /\ request' = NoRequest

(* A detached head starts empty or as a version of some head.              *)
Detach(map) ==
  /\ current' = Detached
  /\ version' = [version EXCEPT ![Detached] = map]
  /\ request' = NoRequest

Fork(from, slot) ==
  /\ current' = slot
  /\ version' = Leaving([version EXCEPT ![slot] = version[from]])
  /\ request' = NoRequest

RemoveHead(name) ==
  /\ version' = [version EXCEPT ![name] = EmptyMap]
  /\ request' = NoRequest
  /\ UNCHANGED current

(* Garbage is nothing that anybody sees.                                   *)
Collect ==
  /\ request' = NoRequest
  /\ UNCHANGED <<version, current>>

Next ==
  \/ Apply
  \/ \E name \in HeadName : Checkout(name) \/ RemoveHead(name)
  \/ \E map \in {EmptyMap} \cup {version[slot] : slot \in Slot} : Detach(map)
  \/ \E from, slot \in Slot : Fork(from, slot)
  \/ Collect

Spec == Init /\ [][Next]_<<version, current, request>>
=============================================================================

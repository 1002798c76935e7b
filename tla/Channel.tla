------------------------------ MODULE Channel ------------------------------
(***************************************************************************)
(* What an encoding promises: the items that are put in come out in their  *)
(* order, each as it was, and none comes out that was not put in.          *)
(***************************************************************************)
EXTENDS Sequences, Integers

VARIABLES
  owed,    \* the items that are in but not out yet
  got      \* the items that came out in the last step

Init == owed = <<>> /\ got = <<>>

(* Anything may be put in.                                                 *)
Put ==
  /\ Len(owed') = Len(owed) + 1
  /\ owed' = Append(owed, owed'[Len(owed')])
  /\ got' = <<>>

Get ==
  /\ \E n \in DOMAIN owed :
       /\ got' = SubSeq(owed, 1, n)
       /\ owed' = SubSeq(owed, n + 1, Len(owed))

Next == Put \/ Get

Spec == Init /\ [][Next]_<<owed, got>>
=============================================================================

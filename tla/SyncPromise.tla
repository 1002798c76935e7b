---------------------------- MODULE SyncPromise ----------------------------
(***************************************************************************)
(* What a sync promises to the syncer: it follows one version of the       *)
(* provider's map, tells the differences between the syncer's own map and  *)
(* that one, each of them once and none that is not there, and is done     *)
(* only when it has told them all.                                         *)
(***************************************************************************)
EXTENDS Integers, SequencesExt

CONSTANTS Key, Val

VARIABLES
  ours,     \* the syncer's map
  theirs,   \* the set with the version that is followed; none at first
  told,     \* the differences reported so far
  done

Maps == UNION {[S -> Val] : S \in SUBSET Key}

DifferenceAt(k, map) ==
  CASE k \in DOMAIN map \ DOMAIN ours -> {[change |-> "Added", key |-> k, val |-> map[k]]}
    [] k \in DOMAIN ours \ DOMAIN map -> {[change |-> "Deleted", key |-> k, val |-> ours[k]]}
    [] k \in DOMAIN ours \cap DOMAIN map ->
         IF ours[k] = map[k] THEN {} ELSE {[change |-> "Changed", key |-> k, val |-> map[k]]}
    [] OTHER -> {}

Difference == UNION {DifferenceAt(k, map) : k \in Key, map \in theirs}

Init ==
  /\ ours \in Maps
  /\ theirs = {}
  /\ told = <<>>
  /\ done = FALSE

Follow ==
  /\ theirs = {}
  /\ \E map \in Maps : theirs' = {map}
  /\ UNCHANGED <<ours, told, done>>

Tell ==
  /\ theirs # {} /\ ~done
  /\ IsPrefix(told, told')
  /\ IsInjective(told')
  /\ ToSet(told') \subseteq Difference
  /\ done' \in BOOLEAN
  /\ done' => ToSet(told') = Difference
  /\ UNCHANGED <<ours, theirs>>

Next == Follow \/ Tell

Spec == Init /\ [][Next]_<<ours, theirs, told, done>>
=============================================================================

------------------------------- MODULE MCSync -------------------------------
(* Instances of Sync for TLC.                                              *)
EXTENDS Sync

CONSTANTS a, long

(* A record of each length, which is there or not, and one that may have   *)
(* either.                                                                 *)
SomeValues == [k \in Key |-> IF k = 0 THEN {a, long} ELSE IF k = 1 THEN {a} ELSE {long}]
=============================================================================

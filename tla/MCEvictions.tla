----------------------------- MODULE MCEvictions -----------------------------
(***************************************************************************)
(* An instance of Evictions for TLC: two caches, one of them saved again.   *)
(*                                                                         *)
(***************************************************************************)
EXTENDS Evictions, TLC

CONSTANTS a, b

TwoKeys == {a, b}
AgainAndOnce == [k \in Key |-> IF k = a THEN 2 ELSE 1]
EachOnce == [k \in Key |-> 1]
=============================================================================

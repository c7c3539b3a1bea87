------------------------------ MODULE MCUploads ------------------------------
(***************************************************************************)
(* Instances of Uploads for TLC: two sessions that save under one key, or  *)
(* under a key each.                                                       *)
(***************************************************************************)
EXTENDS Uploads, TLC

CONSTANTS c1, c2, k1, k2

OneSession == {c1}
TwoSessions == {c1, c2}
SameKey == [c \in Session |-> k1]
OwnKey == [c \in Session |-> IF c = c1 THEN k1 ELSE k2]

Symmetry == Permutations(Session)
=============================================================================

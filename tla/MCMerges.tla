------------------------------- MODULE MCMerges -------------------------------
(***************************************************************************)
(* Instances of Merges for TLC: two or three downloads of one location.    *)
(***************************************************************************)
EXTENDS Merges, TLC

CONSTANTS r1, r2, r3

TwoReaders == {r1, r2}
ThreeReaders == {r1, r2, r3}

Symmetry == Permutations(Reader)
=============================================================================

---------------------------- MODULE MCObjectStore ----------------------------
(***************************************************************************)
(* An instance of ObjectStore for TLC.                                      *)
(***************************************************************************)
EXTENDS ObjectStore, TLC

CONSTANTS d1, d2

TwoCalls == {d1, d2}
=============================================================================

------------------------------- MODULE MCJwks -------------------------------
(***************************************************************************)
(* An instance of Jwks for TLC: a client with a good token and one with a  *)
(* token that fails in some other respect, each of its own key; the issuer *)
(* publishes and withdraws both keys at will.                              *)
(***************************************************************************)
EXTENDS Jwks

CONSTANTS r1, r2, k1, k2

SignedBy == [r \in Request |-> IF r = r1 THEN k1 ELSE k2]
=============================================================================

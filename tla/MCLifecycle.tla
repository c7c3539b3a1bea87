---------------------------- MODULE MCLifecycle ----------------------------
(***************************************************************************)
(* An instance of Lifecycle for TLC.                                        *)
(***************************************************************************)
EXTENDS Lifecycle, TLC

CONSTANTS s1, s2, r1, j1

TwoServers == {s1, s2}
OneRequest == {r1}
OneJob == {j1}
=============================================================================

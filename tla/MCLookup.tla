------------------------------ MODULE MCLookup ------------------------------
(***************************************************************************)
(* An instance of Lookup for TLC: a short cache key and one that SQLite    *)
(* and MySQL take for an extension of it, because LIKE ignores case there; *)
(* the token of a pull request and one that names a scope twice.           *)
(***************************************************************************)
EXTENDS Lookup

CONSTANTS linux, LinuxHash, main, pr

Keys == {linux, LinuxHash}
IgnoringCase == {<<k, k>> : k \in Keys} \cup {<<linux, LinuxHash>>}

Grant(s, p) == [scope |-> s, permission |-> p]
SomeTokens == {<<Grant(main, 1), Grant(pr, 3)>>,
               <<Grant(pr, 1), Grant(main, 2), Grant(pr, 3), Grant(main, 2)>>}
SomeKeyLists == {<<LinuxHash, linux>>}
=============================================================================

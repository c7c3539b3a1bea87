-------------------------------- MODULE Jwks --------------------------------
(***************************************************************************)
(* Checking the token of a request: Authorize (internal/auth/scope.go) over *)
(* the key set of the issuer, which JWKSFetcher (internal/auth/jwks.go)    *)
(* keeps for TTL.  The mutex guards the two fields of the cache and is not *)
(* held while the set is fetched, so requests fetch side by side and store *)
(* what they got in any order; an answer that was slow replaces a newer    *)
(* one.  A token signed by a key the set does not have makes the request   *)
(* fetch once more.                                                        *)
(*                                                                         *)
(* Everything else Verify and Authorize demand of a token (signature,      *)
(* issuer, expiry, scopes, repository) does not depend on the cache: it is *)
(* the set Genuine.  Key identifiers are not used twice by the issuer.     *)
(* Time passes in steps; between two steps of the code that wait for       *)
(* nothing no time passes.                                                 *)
(***************************************************************************)
EXTENDS Integers

CONSTANTS
    Request,    \* clients that send requests, one after the other
    Kid,        \* identifiers of signing keys
    KidOf,      \* the key that signed the token of a client
    Genuine,    \* clients whose token is good in every other respect
    TTL,        \* how long a stored key set is used, 10 minutes
    Timeout,    \* of the HTTP client that fetches it, 10 seconds
    MaxTime     \* bound: length of a behaviour in steps of time

ASSUME RequestAssumption == KidOf \in [Request -> Kid] /\ Genuine \subseteq Request
ASSUME TimeAssumption ==
    TTL \in Nat \ {0} /\ Timeout \in Nat \ {0} /\ MaxTime \in Nat

VARIABLES
    now,
    published,  \* the issuer's keys
    seen,       \* ghost: when a key was last among them
    filled,     \* f.current # nil
    current,    \* f.current
    expires,    \* f.expires
    pc,         \* where the request of a client is, or how its last one ended
    keys,       \* the request's local key set ks
    forced,     \* requests past their one ForceRefresh
    since,      \* when its fetch under way was sent
    steady      \* ghost: requests whose key was published all along

issuer == <<now, published, seen>>
fetcher == <<filled, current, expires>>
request == <<pc, keys, forced, since, steady>>
vars == <<issuer, fetcher, request>>

Ended == {"accepted", "rejected", "fetchFailed"}
Fetching == {"sent", "answered"}

Goto(r, l) == pc' = [pc EXCEPT ![r] = l]

(* Authorize returns and its local variables go. *)
Return(r, verdict) ==
    /\ Goto(r, verdict)
    /\ keys' = [keys EXCEPT ![r] = {}]
    /\ since' = [since EXCEPT ![r] = 0]
    /\ forced' = forced \ {r}

Init ==
    /\ now = 0
    /\ published \in SUBSET Kid
    /\ seen = [k \in Kid |-> IF k \in published THEN 0 ELSE -(TTL + Timeout)]
    /\ filled = FALSE /\ current = {} /\ expires = 0
    /\ pc = [r \in Request |-> "rejected"]
    /\ keys = [r \in Request |-> {}]
    /\ forced = {}
    /\ since = [r \in Request |-> 0]
    /\ steady = {}

-----------------------------------------------------------------------------
(* The issuer and the clock. *)

Publish(k) ==
    /\ k \notin published
    /\ published' = published \cup {k}
    /\ seen' = [seen EXCEPT ![k] = now]
    /\ UNCHANGED <<now, fetcher, request>>

Retire(k) ==
    /\ k \in published
    /\ published' = published \ {k}
    /\ steady' = {r \in steady : KidOf[r] # k}
    /\ UNCHANGED <<now, seen, fetcher, pc, keys, forced, since>>

(* Faulty: a client without a timeout. *)
TickOn ==
    /\ now < MaxTime
    /\ \A r \in Request : pc[r] # "verify"
    /\ now' = now + 1
    /\ seen' = [k \in Kid |-> IF k \in published THEN now + 1 ELSE seen[k]]
    /\ UNCHANGED <<published, fetcher, request>>

(* No fetch outlives its timeout; computing takes no time. *)
Tick ==
    /\ now < MaxTime
    /\ \A r \in Request :
           /\ pc[r] # "verify"
           /\ pc[r] \in Fetching => now < since[r] + Timeout
    /\ now' = now + 1
    /\ seen' = [k \in Kid |-> IF k \in published THEN now + 1 ELSE seen[k]]
    /\ UNCHANGED <<published, fetcher, request>>

-----------------------------------------------------------------------------
(* JWKSFetcher *)

Send(r) ==
    /\ Goto(r, "sent")
    /\ since' = [since EXCEPT ![r] = now]
    /\ UNCHANGED keys

(* Faulty: each use of the cached set makes it last longer. *)
FetchSliding(r) ==
    /\ pc[r] \in Ended
    /\ IF filled /\ now < expires
       THEN /\ Goto(r, "verify")
            /\ keys' = [keys EXCEPT ![r] = current]
            /\ expires' = now + TTL
            /\ UNCHANGED since
       ELSE Send(r) /\ UNCHANGED expires
    /\ steady' = IF KidOf[r] \in published THEN steady \cup {r} ELSE steady \ {r}
    /\ UNCHANGED <<issuer, filled, current, forced>>

(* Fetch: the cached set while it has not expired, or a refresh. *)
Fetch(r) ==
    /\ pc[r] \in Ended
    /\ IF filled /\ now < expires
       THEN /\ Goto(r, "verify")
            /\ keys' = [keys EXCEPT ![r] = current]
            /\ UNCHANGED since
       ELSE Send(r)
    /\ steady' = IF KidOf[r] \in published THEN steady \cup {r} ELSE steady \ {r}
    /\ UNCHANGED <<issuer, fetcher, forced>>

(* refresh: the issuer answers with the keys it has then ... *)
Answer(r) ==
    /\ pc[r] = "sent"
    /\ Goto(r, "answered")
    /\ keys' = [keys EXCEPT ![r] = published]
    /\ UNCHANGED <<issuer, fetcher, forced, since, steady>>

(* Faulty: the request goes on with what the cache has by then. *)
StoreAndReload(r) ==
    /\ pc[r] = "answered"
    /\ Goto(r, "verify")
    /\ IF filled /\ now < expires
       THEN keys' = [keys EXCEPT ![r] = current] /\ UNCHANGED fetcher
       ELSE /\ filled' = TRUE /\ current' = keys[r] /\ expires' = now + TTL
            /\ UNCHANGED keys
    /\ UNCHANGED <<issuer, forced, since, steady>>

(* ... and the answer is stored when it has been read. *)
Store(r) ==
    /\ pc[r] = "answered"
    /\ Goto(r, "verify")
    /\ filled' = TRUE
    /\ current' = keys[r]
    /\ expires' = now + TTL
    /\ UNCHANGED <<issuer, keys, forced, since, steady>>

(* No answer in time, another status than 200, a body that is no JSON.  A   *)
(* refresh that was forced leaves the verdict of the first set.            *)
FetchFails(r) ==
    /\ pc[r] \in Fetching
    /\ Return(r, "fetchFailed")
    /\ UNCHANGED <<issuer, fetcher, steady>>

-----------------------------------------------------------------------------
(* Authorize *)

Known(r) == KidOf[r] \in keys[r]

Verify(r) ==
    /\ pc[r] = "verify"
    /\ Known(r) \/ r \in forced
    /\ Return(r, IF Known(r) /\ r \in Genuine THEN "accepted" ELSE "rejected")
    /\ UNCHANGED <<issuer, fetcher, steady>>

(* Faulty: an unknown key is fetched again and again. *)
ForceRefreshAgain(r) ==
    /\ pc[r] = "verify"
    /\ ~Known(r)
    /\ Send(r)
    /\ UNCHANGED <<issuer, fetcher, forced, steady>>

ForceRefresh(r) ==
    /\ pc[r] = "verify"
    /\ ~Known(r) /\ r \notin forced
    /\ forced' = forced \cup {r}
    /\ Send(r)
    /\ UNCHANGED <<issuer, fetcher, steady>>

RequestStep(r) ==
    \/ Fetch(r) \/ Answer(r) \/ Store(r) \/ FetchFails(r)
    \/ Verify(r) \/ ForceRefresh(r)

Next ==
    \/ Tick
    \/ \E k \in Kid : Publish(k) \/ Retire(k)
    \/ \E r \in Request : RequestStep(r)

Spec == Init /\ [][Next]_vars

(* A request that can go on does; one that waits for the issuer is answered *)
(* or runs into the timeout of the client.                                 *)
Fairness ==
    \A r \in Request :
        /\ WF_vars(Answer(r) \/ FetchFails(r))
        /\ WF_vars(Store(r))
        /\ WF_vars(Verify(r) \/ ForceRefresh(r))

FairSpec == Spec /\ Fairness

-----------------------------------------------------------------------------
(* Type correctness of the cache and of the requests; no fetch is older     *)
(* than the timeout.                                                       *)
TypeOK ==
    /\ now \in Nat /\ published \subseteq Kid /\ seen \in [Kid -> Int]
    /\ filled \in BOOLEAN /\ current \subseteq Kid /\ expires \in Nat
    /\ pc \in [Request -> {"verify"} \cup Fetching \cup Ended]
    /\ keys \in [Request -> SUBSET Kid]
    /\ forced \subseteq Request /\ steady \subseteq Request
    /\ since \in [Request -> Nat]
    /\ \A r \in Request : pc[r] \in Fetching => now \in since[r] .. since[r] + Timeout

(* A good token of a key that was published during the whole request is     *)
(* never rejected, whatever older sets other requests store meanwhile: the *)
(* request judges by the set it fetched itself (jwks.go:50-114,            *)
(* scope.go:43-53).                                                        *)
PublishedKeyAccepted ==
    \A r \in Genuine \cap steady : pc[r] # "rejected"

(* A key that was withdrawn is not accepted for longer than a set lives and *)
(* a fetch may take, although an old answer can replace a newer set        *)
(* (how-it-works.md:34: "caches it for 10 minutes").                       *)
RetiredKeyDies ==
    [][\A r \in Request : Verify(r) /\ pc'[r] = "accepted" =>
           now < seen[KidOf[r]] + TTL + Timeout]_vars

(* Every request gets its verdict: no token makes it fetch for ever. *)
RequestsEnd == \A r \in Request : pc[r] \notin Ended ~> pc[r] \in Ended
=============================================================================

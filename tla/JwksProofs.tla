----------------------------- MODULE JwksProofs -----------------------------
(***************************************************************************)
(* Proofs about Jwks, for any number of clients and keys, any lifetime of  *)
(* the cached set and any timeout.                                         *)
(***************************************************************************)
EXTENDS Jwks, TLAPS

(* A request whose key stayed published has it in the set it judges by.     *)
OwnSetInv ==
    /\ \A r \in Request : pc[r] \in Ended => r \notin forced
    /\ \A r \in steady : pc[r] \notin Ended => KidOf[r] \in published
    /\ \A r \in steady : pc[r] = "answered" => KidOf[r] \in keys[r]
    /\ \A r \in steady : pc[r] = "verify" /\ r \in forced => KidOf[r] \in keys[r]

(* How old a key of each set may be by now. *)
AgeInv ==
    /\ \A k \in Kid : seen[k] <= now
    /\ \A k \in published : seen[k] = now
    /\ \A r \in Request : pc[r] = "answered" =>
           \A k \in keys[r] : since[r] <= seen[k]
    /\ filled => \A k \in current : expires <= seen[k] + TTL + Timeout
    /\ \A r \in Request : pc[r] = "verify" =>
           \A k \in keys[r] : now < seen[k] + TTL + Timeout

-----------------------------------------------------------------------------
(* The initial states are typed. *)
LEMMA InitTyped == Init => TypeOK
<1> SUFFICES ASSUME Init PROVE TypeOK
    OBVIOUS
<1>1. seen \in [Kid -> Int]
    BY TimeAssumption DEF Init
<1>2. pc \in [Request -> {"verify"} \cup Fetching \cup Ended]
    BY DEF Init, Ended
<1>3. \A r \in Request : pc[r] \notin Fetching
    BY DEF Init, Fetching
<1>. QED
    BY <1>1, <1>2, <1>3 DEF Init, TypeOK

(* Every action keeps the state typed and no fetch outlives the timeout. *)
LEMMA NextTyped == TypeOK /\ [Next]_vars => TypeOK'
<1> USE RequestAssumption, TimeAssumption DEF TypeOK, Ended, Fetching
<1> SUFFICES ASSUME TypeOK, [Next]_vars PROVE TypeOK'
    OBVIOUS
<1>1. CASE Tick
    BY <1>1 DEF Tick, fetcher, request
<1>2. ASSUME NEW k \in Kid, Publish(k) PROVE TypeOK'
    BY <1>2 DEF Publish, fetcher, request
<1>3. ASSUME NEW k \in Kid, Retire(k) PROVE TypeOK'
    BY <1>3 DEF Retire, fetcher
<1>4. ASSUME NEW r \in Request, Fetch(r) PROVE TypeOK'
    BY <1>4 DEF Fetch, Send, Goto, issuer, fetcher
<1>5. ASSUME NEW r \in Request, Answer(r) PROVE TypeOK'
    BY <1>5 DEF Answer, Goto, issuer, fetcher
<1>6. ASSUME NEW r \in Request, Store(r) PROVE TypeOK'
    BY <1>6 DEF Store, Goto, issuer
<1>7. ASSUME NEW r \in Request, FetchFails(r) PROVE TypeOK'
    BY <1>7 DEF FetchFails, Return, Goto, issuer, fetcher
<1>8. ASSUME NEW r \in Request, Verify(r) PROVE TypeOK'
    BY <1>8 DEF Verify, Return, Goto, issuer, fetcher
<1>9. ASSUME NEW r \in Request, ForceRefresh(r) PROVE TypeOK'
    BY <1>9 DEF ForceRefresh, Send, Goto, issuer, fetcher
<1>10. CASE UNCHANGED vars
    BY <1>10 DEF vars, issuer, fetcher, request
<1>. QED
    BY <1>1, <1>2, <1>3, <1>4, <1>5, <1>6, <1>7, <1>8, <1>9, <1>10
    DEF Next, RequestStep

(* The key cache and the requests stay typed (jwks.go:17-115). *)
THEOREM TypeCorrect == Spec => []TypeOK
BY InitTyped, NextTyped, PTL DEF Spec

-----------------------------------------------------------------------------
(* Every action keeps the request's own set good enough. *)
LEMMA NextOwnSet ==
    TypeOK /\ OwnSetInv /\ PublishedKeyAccepted /\ [Next]_vars
        => OwnSetInv' /\ PublishedKeyAccepted'
<1> USE RequestAssumption DEF TypeOK, OwnSetInv, PublishedKeyAccepted, Ended, Fetching
<1> SUFFICES ASSUME TypeOK, OwnSetInv, PublishedKeyAccepted, [Next]_vars
             PROVE OwnSetInv' /\ PublishedKeyAccepted'
    OBVIOUS
<1>1. CASE Tick
    BY <1>1 DEF Tick, fetcher, request
<1>2. ASSUME NEW k \in Kid, Publish(k) PROVE OwnSetInv' /\ PublishedKeyAccepted'
    BY <1>2 DEF Publish, fetcher, request
<1>3. ASSUME NEW k \in Kid, Retire(k) PROVE OwnSetInv' /\ PublishedKeyAccepted'
    BY <1>3 DEF Retire, fetcher
<1>4. ASSUME NEW r \in Request, Fetch(r) PROVE OwnSetInv' /\ PublishedKeyAccepted'
    BY <1>4 DEF Fetch, Send, Goto, issuer, fetcher
<1>5. ASSUME NEW r \in Request, Answer(r) PROVE OwnSetInv' /\ PublishedKeyAccepted'
    BY <1>5 DEF Answer, Goto, issuer, fetcher
<1>6. ASSUME NEW r \in Request, Store(r) PROVE OwnSetInv' /\ PublishedKeyAccepted'
    BY <1>6 DEF Store, Goto, issuer
<1>7. ASSUME NEW r \in Request, FetchFails(r) PROVE OwnSetInv' /\ PublishedKeyAccepted'
    BY <1>7 DEF FetchFails, Return, Goto, issuer, fetcher
<1>8. ASSUME NEW r \in Request, Verify(r) PROVE OwnSetInv' /\ PublishedKeyAccepted'
    BY <1>8 DEF Verify, Known, Return, Goto, issuer, fetcher
<1>9. ASSUME NEW r \in Request, ForceRefresh(r) PROVE OwnSetInv' /\ PublishedKeyAccepted'
    BY <1>9 DEF ForceRefresh, Send, Goto, issuer, fetcher
<1>10. CASE UNCHANGED vars
    BY <1>10 DEF vars, issuer, fetcher, request
<1>. QED
    BY <1>1, <1>2, <1>3, <1>4, <1>5, <1>6, <1>7, <1>8, <1>9, <1>10
    DEF Next, RequestStep

(* A good token of a key that stayed published is not rejected, whatever    *)
(* sets other requests fetch and store in between.                         *)
THEOREM GoodTokensPass == Spec => []PublishedKeyAccepted
<1>1. Init => OwnSetInv /\ PublishedKeyAccepted
    BY DEF Init, OwnSetInv, PublishedKeyAccepted, Ended
<1>. QED
    BY <1>1, NextOwnSet, TypeCorrect, PTL DEF Spec

-----------------------------------------------------------------------------
(* Every action keeps the ages within their bounds. *)
LEMMA NextAge == TypeOK /\ AgeInv /\ [Next]_vars => AgeInv'
<1> USE RequestAssumption, TimeAssumption DEF TypeOK, AgeInv, Ended, Fetching
<1> SUFFICES ASSUME TypeOK, AgeInv, [Next]_vars PROVE AgeInv'
    OBVIOUS
<1>1. CASE Tick
    BY <1>1 DEF Tick, fetcher, request
<1>2. ASSUME NEW k \in Kid, Publish(k) PROVE AgeInv'
    BY <1>2 DEF Publish, fetcher, request
<1>3. ASSUME NEW k \in Kid, Retire(k) PROVE AgeInv'
    BY <1>3 DEF Retire, fetcher
<1>4. ASSUME NEW r \in Request, Fetch(r) PROVE AgeInv'
    BY <1>4 DEF Fetch, Send, Goto, issuer, fetcher
<1>5. ASSUME NEW r \in Request, Answer(r) PROVE AgeInv'
    BY <1>5 DEF Answer, Goto, issuer, fetcher
<1>6. ASSUME NEW r \in Request, Store(r) PROVE AgeInv'
    BY <1>6 DEF Store, Goto, issuer
<1>7. ASSUME NEW r \in Request, FetchFails(r) PROVE AgeInv'
    BY <1>7 DEF FetchFails, Return, Goto, issuer, fetcher
<1>8. ASSUME NEW r \in Request, Verify(r) PROVE AgeInv'
    BY <1>8 DEF Verify, Return, Goto, issuer, fetcher
<1>9. ASSUME NEW r \in Request, ForceRefresh(r) PROVE AgeInv'
    BY <1>9 DEF ForceRefresh, Send, Goto, issuer, fetcher
<1>10. CASE UNCHANGED vars
    BY <1>10 DEF vars, issuer, fetcher, request
<1>. QED
    BY <1>1, <1>2, <1>3, <1>4, <1>5, <1>6, <1>7, <1>8, <1>9, <1>10
    DEF Next, RequestStep

(* A withdrawn key is accepted for less than TTL + Timeout.                 *)
THEOREM RetiredKeysDie == Spec => RetiredKeyDies
<1>1. Init => AgeInv
    BY RequestAssumption, TimeAssumption DEF Init, AgeInv
<1>2. TypeOK /\ AgeInv /\ [Next]_vars
          => [\A r \in Request : Verify(r) /\ pc'[r] = "accepted" =>
                  now < seen[KidOf[r]] + TTL + Timeout]_vars
    <2> SUFFICES ASSUME TypeOK, AgeInv, NEW r \in Request, Verify(r),
                        pc'[r] = "accepted"
                 PROVE now < seen[KidOf[r]] + TTL + Timeout
        OBVIOUS
    <2>1. KidOf[r] \in keys[r]
        BY DEF Verify, Known, Return, Goto, TypeOK
    <2>. QED
        BY <2>1 DEF Verify, AgeInv
<1>. QED
    BY <1>1, <1>2, NextAge, TypeCorrect, PTL DEF Spec, RetiredKeyDies
=============================================================================

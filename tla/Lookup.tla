------------------------------- MODULE Lookup -------------------------------
(***************************************************************************)
(* The restore side of the control plane: GetCacheEntryDownloadURL         *)
(* (internal/server/twirp.go) and GET /management-api/match, both over     *)
(* MatchCacheEntry (internal/storage/service.go), which asks the database  *)
(* one question after the other, scope by scope, key by key, exactly and   *)
(* by prefix, without a transaction: entries are saved, replaced and       *)
(* removed between two questions.                                          *)
(*                                                                         *)
(* One lookup is modelled: lookups write nothing, so they cannot see each  *)
(* other.  The save path and the jobs appear by what their statements do   *)
(* to the rows a lookup reads; modules Uploads and Merges have them in     *)
(* full.  Version and repository are compared for equality by every        *)
(* statement and are left out.                                             *)
(***************************************************************************)
EXTENDS Integers, Sequences

CONSTANTS
    Key,        \* cache keys
    Extends,    \* pairs <<p, k>> of keys: the database finds k LIKE 'p%'
    ScopeName,  \* names of scopes, such as refs/heads/main
    Tokens,     \* the scopes a token carries, in its order
    KeyLists,   \* the keys a request names: primary, then restore keys
    Direct,     \* EnableDirectDownloads with an adapter that signs URLs
    MaxSaves,   \* bound: saves in a behaviour
    MaxTime     \* bound: values of updatedAt

Scope == [scope : ScopeName, permission : Nat]
Save == 1 .. MaxSaves
Row == [id : Save, key : Key, scope : ScopeName, updatedAt : 0 .. MaxTime,
        location : Save]

ASSUME ExtendsAssumption ==
    Extends \subseteq Key \X Key /\ \A k \in Key : <<k, k>> \in Extends
ASSUME TokenAssumption == Tokens \subseteq Seq(Scope) \ {<<>>}
ASSUME KeyListAssumption == KeyLists \subseteq Seq(Key) \ {<<>>}
ASSUME BoundAssumption == Direct \in BOOLEAN /\ MaxSaves \in Nat /\ MaxTime \in Nat

VARIABLES
    entries,    \* rows of cache_entries
    locations,  \* rows of storage_locations
    saves,      \* saves so far: the next fresh identifier
    pc,         \* where the lookup is, or how it ended
    request,    \* who asks, the scopes as given, the keys
    order,      \* indices into request.asked in the order they are searched
    pos,        \* the question to ask next
    match,      \* a local copy of the row found, if any
    kept        \* ghost: rows as they were when the lookup began, of those
                \* entries that have been there ever since

table == <<entries, locations, saves>>
lookup == <<pc, request, order, pos, match>>
vars == <<table, lookup, kept>>

-----------------------------------------------------------------------------
(* internal/auth/scope.go *)

(* The first scope of a token that allows writing: where its saves go. *)
WriteScope(asked) ==
    {asked[i].scope : i \in {j \in DOMAIN asked :
        asked[j].permission >= 2 /\ \A h \in 1 .. j - 1 : asked[h].permission < 2}}

(* One round of the insertion sort: i moves left while the permission there *)
(* is smaller.                                                             *)
InsertScope(asked, sorted, i) ==
    LET p(n) == asked[sorted[n]].permission
        stop == CHOOSE n \in 0 .. Len(sorted) :
                    /\ n > 0 => p(n) >= asked[i].permission
                    /\ \A m \in n + 1 .. Len(sorted) : p(m) < asked[i].permission
    IN SubSeq(sorted, 1, stop) \o <<i>> \o SubSeq(sorted, stop + 1, Len(sorted))

(* Faulty: the scopes as the token lists them. *)
ScopesUnsorted(asked) == [i \in DOMAIN asked |-> i]

ScopesByPermissionDesc(asked) ==
    LET sorted[n \in 0 .. Len(asked)] ==
            IF n = 0 THEN <<>> ELSE InsertScope(asked, sorted[n - 1], n)
    IN sorted[Len(asked)]

-----------------------------------------------------------------------------
(* The questions of MatchCacheEntry, in the order of its loops. *)

Position == [s : 1 .. Len(order), k : 1 .. Len(request.keys), exact : BOOLEAN]

First == [s |-> 1, k |-> 1, exact |-> TRUE]

(* Faulty: every key in all scopes before the next key. *)
FollowingByKey(q) ==
    IF q.exact THEN [q EXCEPT !.exact = FALSE]
    ELSE IF q.s < Len(order) THEN [s |-> q.s + 1, k |-> q.k, exact |-> TRUE]
    ELSE [s |-> 1, k |-> q.k + 1, exact |-> TRUE]

Following(q) ==
    IF q.exact THEN [q EXCEPT !.exact = FALSE]
    ELSE IF q.k < Len(request.keys) THEN [s |-> q.s, k |-> q.k + 1, exact |-> TRUE]
    ELSE [s |-> q.s + 1, k |-> 1, exact |-> TRUE]

IsLast(q) == q.s = Len(order) /\ q.k = Len(request.keys) /\ ~q.exact

(* FindExactCacheEntry and FindPrefixedCacheEntry: WHERE ... *)
Answers(q, e) ==
    /\ e.scope = request.asked[order[q.s]].scope
    /\ IF q.exact THEN e.key = request.keys[q.k]
                  ELSE <<request.keys[q.k], e.key>> \in Extends

(* ... ORDER BY updatedAt DESC LIMIT 1: of equal times, any. *)
Newest(M) == {e \in M : \A d \in M : d.updatedAt <= e.updatedAt}

-----------------------------------------------------------------------------
Init ==
    /\ entries = {} /\ locations = {} /\ saves = 0
    /\ pc = "idle"
    /\ request = [by |-> "runner", asked |-> <<>>, keys |-> <<>>]
    /\ order = <<>> /\ pos = First
    /\ match = {}
    /\ kept = {}

-----------------------------------------------------------------------------
(* What the rest of the server does to the tables a lookup reads.  A        *)
(* finalize takes its time stamp before its statement, and several servers *)
(* may share the database: time stamps are in no order.                    *)

Present(E) == {e \in kept : \E d \in E : d.id = e.id}

InsertCacheEntry(k, s, t) ==
    LET n == saves + 1 IN
    /\ saves < MaxSaves
    /\ saves' = n
    /\ locations' = locations \cup {n}
    /\ entries' = entries \cup {[id |-> n, key |-> k, scope |-> s,
                                 updatedAt |-> t, location |-> n]}
    /\ UNCHANGED <<lookup, kept>>

UpdateCacheEntryLocation(e, t) ==
    LET n == saves + 1 IN
    /\ saves < MaxSaves
    /\ saves' = n
    /\ locations' = locations \cup {n}
    /\ entries' = (entries \ {e})
                      \cup {[e EXCEPT !.updatedAt = t, !.location = n]}
    /\ UNCHANGED <<lookup, kept>>

SaveStep ==
    \E t \in 0 .. MaxTime :
        \/ \E k \in Key : \E asked \in Tokens : \E s \in WriteScope(asked) :
               InsertCacheEntry(k, s, t)
        \/ \E e \in entries : UpdateCacheEntryLocation(e, t)

(* Faulty: the foreign key is not enforced and nothing cascades. *)
DeleteLocationRow(l) ==
    /\ l \in locations
    /\ locations' = locations \ {l}
    /\ UNCHANGED <<entries, kept, saves, lookup>>

(* A finalize that replaced an entry, the expiry, orphan and disk-pressure  *)
(* jobs and the management API; the foreign key cascades to the entry.     *)
DeleteStorageLocation(l) ==
    /\ l \in locations
    /\ locations' = locations \ {l}
    /\ entries' = {e \in entries : e.location # l}
    /\ kept' = Present(entries')
    /\ UNCHANGED <<saves, lookup>>

DeleteCacheEntry(e) ==
    /\ e \in entries
    /\ entries' = entries \ {e}
    /\ kept' = Present(entries')
    /\ UNCHANGED <<locations, saves, lookup>>

-----------------------------------------------------------------------------
(* The lookup. *)

Begin(by, asked, keys) ==
    /\ pc = "idle"
    /\ pc' = "search"
    /\ request' = [by |-> by, asked |-> asked, keys |-> keys]
    /\ pos' = First
    /\ kept' = entries
    /\ UNCHANGED <<table, match>>

(* POST .../GetCacheEntryDownloadURL: the scopes of the token, sorted. *)
TwirpGet(asked, keys) ==
    /\ Begin("runner", asked, keys)
    /\ order' = ScopesByPermissionDesc(asked)

(* GET /management-api/match: the scopes in the order of the query string. *)
MgmtMatch(asked, keys) ==
    /\ Begin("management", asked, keys)
    /\ order' = [i \in DOMAIN asked |-> i]

Hits == {e \in entries : Answers(pos, e)}

FindCacheEntry ==
    /\ pc = "search"
    /\ \E e \in Newest(Hits) : match' = {e}
    /\ pc' = IF request.by = "runner" /\ Direct THEN "resolve" ELSE "hit"
    /\ UNCHANGED <<table, request, order, pos, kept>>

FindNoRows ==
    /\ pc = "search"
    /\ Hits = {}
    /\ pc' = IF IsLast(pos) THEN "none" ELSE "search"
    /\ pos' = IF IsLast(pos) THEN pos ELSE Following(pos)
    /\ UNCHANGED <<table, request, order, match, kept>>

(* With direct downloads, the location the row named when it was read.      *)
(* mergedAt is set and taken back by downloads (module Merges) at any time *)
(* up to this statement: either value may be read.                         *)
GetStorageLocation ==
    /\ pc = "resolve"
    /\ \E e \in match :
           IF e.location \in locations THEN pc' \in {"hit", "signed"}
                                       ELSE pc' = "notFound"
    /\ UNCHANGED <<table, request, order, pos, match, kept>>

(* A statement fails or the client is gone. *)
LookupFails ==
    /\ pc \in {"search", "resolve"}
    /\ pc' = "failed"
    /\ UNCHANGED <<table, request, order, pos, match, kept>>

Ended == {"hit", "signed", "none", "notFound", "failed"}
Found == {"resolve", "hit", "signed", "notFound"}
Rest == pc \in Ended /\ UNCHANGED vars

(* Bound: once the lookup has its answer, what becomes of the tables does   *)
(* not matter to it.                                                       *)
TableStep == pc \notin Ended /\
    \/ SaveStep
    \/ \E l \in locations : DeleteStorageLocation(l)
    \/ \E e \in entries : DeleteCacheEntry(e)

Next ==
    \/ TableStep
    \/ \E asked \in Tokens, keys \in KeyLists :
           TwirpGet(asked, keys) \/ MgmtMatch(asked, keys)
    \/ FindCacheEntry \/ FindNoRows \/ GetStorageLocation \/ LookupFails
    \/ Rest

Spec == Init /\ [][Next]_vars

-----------------------------------------------------------------------------
(* q is asked before r. *)
Earlier(q, r) ==
    \/ q.s < r.s
    \/ q.s = r.s /\ q.k < r.k
    \/ q.s = r.s /\ q.k = r.k /\ q.exact /\ ~r.exact

(* Whatever is saved, replaced and removed during a lookup: an entry that   *)
(* was there all the time is never passed over.  What is found answers no   *)
(* later question than such an entry does, of untouched entries with the   *)
(* same answer it is the newest, and "no match" means none of them matched *)
(* (service.go:311-335).                                                   *)
NothingPassedOver ==
    /\ pc \in Found =>
           \A e \in kept, q \in Position : Answers(q, e) =>
               /\ ~Earlier(q, pos)
               /\ \A m \in match : q = pos /\ e \in entries =>
                      e.updatedAt <= m.updatedAt
    /\ pc = "none" => \A e \in kept, q \in Position : ~Answers(q, e)

(* A runner's scopes are searched by permission, those of equal permission  *)
(* in the order of the token, each exactly once (scope.go:92-104).         *)
ScopesRanked ==
    pc # "idle" /\ request.by = "runner" =>
        LET p(i) == request.asked[order[i]].permission IN
        /\ {order[i] : i \in DOMAIN order} = DOMAIN request.asked
        /\ \A i, j \in DOMAIN order : i < j =>
               p(i) > p(j) \/ (p(i) = p(j) /\ order[i] < order[j])

(* "storage location not found" is only answered when the entry found was   *)
(* replaced or removed during the lookup (service.go:352-358).             *)
NotFoundOnlyIfTouched == pc = "notFound" => match \cap entries = {}
=============================================================================

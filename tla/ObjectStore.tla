---------------------------- MODULE ObjectStore ----------------------------
(***************************************************************************)
(* DeleteFolder and CountFilesInFolder of the two object stores             *)
(* (internal/storage/gcs.go, s3.go): requests that list a folder page by    *)
(* page and remove what they listed, while uploads put objects into it and  *)
(* other calls remove them.  GCS requests bear an access token that all of  *)
(* them share and one of them renews (authToken).                          *)
(*                                                                         *)
(* Objects are numbered in the order of their names, in which the server    *)
(* lists them; a page token is the first number the next page may begin     *)
(* with.  Time counts only for the token: it passes in ticks, and a request *)
(* takes at most Latency of them.                                          *)
(***************************************************************************)
EXTENDS Integers, FiniteSets

CONSTANTS
    Objects,    \* how many names there are in the folder
    PageSize,   \* names the server lists at a time
    Call,       \* calls to DeleteFolder or CountFilesInFolder
    Life,       \* ticks a token is good for (expires_in)
    Margin,     \* ticks before its end a token is given up (a minute)
    Latency,    \* ticks a request may take
    Faults      \* "status": 4xx and 5xx; "network"; "object": an error for
                \* one key in the answer to a batch delete

ASSUME SizeAssumption == Objects \in Nat /\ PageSize \in Nat \ {0}
ASSUME TimeAssumption ==
    /\ Life \in Nat /\ Margin \in Nat /\ Latency \in Nat
    /\ Latency <= Margin /\ Latency + Latency < Life
ASSUME FaultsAssumption == Faults \subseteq {"status", "network", "object"}

Object == 0 .. Objects - 1

VARIABLES
    driver,     \* "gcs" or "s3"
    objects,    \* what is in the folder
    call,       \* the calls and their local variables
    token,      \* a.token: ticks until a.tokExp, and until it really ends
    holder,     \* the calls that hold a.tokenMu: one at most
    seen        \* ghost: what was in the folder all along a call, what was
                \* there at some time, whether a fault was hidden from it

vars == <<driver, objects, call, token, holder, seen>>

-----------------------------------------------------------------------------
(* Helpers. *)

First(S) == CHOOSE o \in S : \A p \in S : o <= p

(* The names the server lists from mark on: a page of the lowest ones. *)
Ahead(mark) == {o \in objects : o >= mark}
(* Faulty: as with OFFSET, pages count what is there by now. *)
PageByOffset(mark) ==
    {o \in objects : Cardinality({p \in objects : p < o}) \in mark .. mark + PageSize - 1}

PageFrom(mark) ==
    {o \in Ahead(mark) : Cardinality({p \in Ahead(mark) : p < o}) < PageSize}

(* Faulty: the first page is taken for the whole list. *)
NeverTruncated(mark) == FALSE

IsTruncated(mark) == PageFrom(mark) # Ahead(mark)

NextPageToken(mark) ==
    CHOOSE m \in 0 .. Objects :
        m > mark /\ \A o \in PageFrom(mark) : o < m
                 /\ (m > mark + 1 => m - 1 \in PageFrom(mark))

Ended == {"idle", "done", "failed"}
InFlight == {"listing", "removing"}
Running(c) == call[c].pc \notin Ended

NoCall == [op |-> "delete", pc |-> "idle", mark |-> 0, more |-> FALSE, keys |-> {},
           n |-> 0, bearer |-> 0, flight |-> 0]

(* A call that has ended leaves its result and no local variables. *)
Become(c, r) == call' = [call EXCEPT ![c] =
    IF r.pc = "failed" THEN [NoCall EXCEPT !.pc = "failed"]
    ELSE IF r.pc = "done" THEN [NoCall EXCEPT !.pc = "done", !.op = r.op, !.n = r.n]
    ELSE r]
To(c, pc) == [call[c] EXCEPT !.pc = pc]

(* now.Before(tokExp - time.Minute) *)
Usable == token.left > Margin

(* What the calls still running have seen come and go; c has had a fault    *)
(* hidden from it.                                                         *)
See(come, gone, deceived) == seen' = [c \in Call |->
    IF call'[c].pc \in Ended
    THEN [stayed |-> {}, ever |-> {}, hidden |-> seen[c].hidden \/ c \in deceived]
    ELSE [stayed |-> seen[c].stayed \ gone,
          ever |-> IF call[c].op = "count" THEN seen[c].ever \cup come ELSE {},
          hidden |-> seen[c].hidden \/ c \in deceived]]

-----------------------------------------------------------------------------
Init ==
    /\ driver \in {"gcs", "s3"}
    /\ objects = {}
    /\ call = [c \in Call |-> NoCall]
    /\ token = [left |-> 0, real |-> 0]
    /\ holder = {}
    /\ seen = [c \in Call |-> [stayed |-> {}, ever |-> {}, hidden |-> FALSE]]

(* UploadStream: the object is there, whole. *)
PutObject(o) ==
    /\ o \notin objects
    /\ objects' = objects \cup {o}
    /\ UNCHANGED <<driver, call, token, holder>>
    /\ See({o}, {}, {})

Begin(c, op) ==
    /\ call[c].pc \in Ended
    /\ Become(c, [NoCall EXCEPT !.op = op, !.pc = "list"])
    /\ seen' = [seen EXCEPT ![c] = [stayed |-> objects,
                                    ever |-> IF op = "count" THEN objects ELSE {},
                                    hidden |-> FALSE]]
    /\ UNCHANGED <<driver, objects, token, holder>>

-----------------------------------------------------------------------------
(* Sending a request.  authToken is called under the mutex for each of      *)
(* them; the token it returns goes with the request.  S3 signs instead.    *)

Sent(pc) == IF pc = "list" THEN "listing" ELSE "removing"

Send(c) ==
    /\ call[c].pc \in {"list", "remove"} /\ c \notin holder
    /\ driver = "gcs" => holder = {} /\ Usable
    /\ Become(c, [call[c] EXCEPT !.pc = Sent(@), !.bearer = token.real])
    /\ UNCHANGED <<driver, objects, token, holder, seen>>

(* Faulty: the margin is added to the expiry. *)
ExchangeForLonger(c) ==
    /\ driver = "gcs" /\ call[c].pc \in {"list", "remove"}
    /\ holder = {} /\ ~Usable
    /\ holder' = {c}
    /\ token' = [left |-> Life + Margin, real |-> Life]
    /\ UNCHANGED <<driver, objects, call, seen>>

Exchange(c) ==
    /\ driver = "gcs" /\ call[c].pc \in {"list", "remove"}
    /\ holder = {} /\ ~Usable
    /\ holder' = {c}
    /\ token' = [left |-> Life, real |-> Life]
    /\ UNCHANGED <<driver, objects, call, seen>>

(* Faulty: expires_in counts from the answer. *)
ExchangedLate(c) ==
    /\ holder = {c}
    /\ holder' = {}
    /\ token' = [token EXCEPT !.left = Life]
    /\ Become(c, [call[c] EXCEPT !.pc = Sent(@), !.bearer = token.real, !.flight = 0])
    /\ UNCHANGED <<driver, objects, seen>>

(* The answer: expires_in counts from the time before the request, at which *)
(* the token was issued at the earliest; it goes out whatever is left of it.*)
Exchanged(c) ==
    /\ holder = {c}
    /\ holder' = {}
    /\ Become(c, [call[c] EXCEPT !.pc = Sent(@), !.bearer = token.real, !.flight = 0])
    /\ UNCHANGED <<driver, objects, token, seen>>

ExchangeFails(c) ==
    /\ holder = {c} /\ Faults \cap {"status", "network"} # {}
    /\ holder' = {}
    /\ token' = [left |-> 0, real |-> 0]
    /\ Become(c, To(c, "failed"))
    /\ UNCHANGED <<driver, objects>>
    /\ See({}, {}, {})

Waiting(c) == call[c].pc \in InFlight \/ c \in holder

(* Time passes, for the token as for the requests on their way. *)
Tick ==
    /\ driver = "gcs" /\ token.real > 0
    /\ \A c \in Call : Waiting(c) => call[c].flight < Latency
    /\ token' = [left |-> IF token.left > 0 THEN token.left - 1 ELSE 0,
                 real |-> token.real - 1]
    /\ call' = [c \in Call |->
           IF Waiting(c)
           THEN [call[c] EXCEPT !.flight = @ + 1, !.bearer = IF @ > 0 THEN @ - 1 ELSE 0]
           ELSE call[c]]
    /\ UNCHANGED <<driver, objects, holder, seen>>

-----------------------------------------------------------------------------
(* The answers.  GCS lists every page, then deletes one name at a time; S3  *)
(* deletes each page as it goes.                                           *)

(* A request that was answered is no longer on its way. *)
Answered(c) == [call[c] EXCEPT !.bearer = 0, !.flight = 0]

Finish(c, keys, n) ==
    [Answered(c) EXCEPT !.pc = IF call[c].op = "delete" /\ keys # {} THEN "remove" ELSE "done",
                    !.keys = keys, !.n = n, !.more = FALSE]

GcsListed(c, page, more) ==
    LET keys == call[c].keys \cup page IN
    Become(c, IF more
              THEN [Answered(c) EXCEPT !.pc = "list", !.keys = keys,
                                   !.mark = NextPageToken(call[c].mark)]
              ELSE Finish(c, keys, Cardinality(keys)))

S3Listed(c, page, more) ==
    LET n == call[c].n + Cardinality(page)
        next == IF more THEN NextPageToken(call[c].mark) ELSE call[c].mark
    IN  Become(c, IF call[c].op = "delete" /\ page # {}
                  THEN [Answered(c) EXCEPT !.pc = "remove", !.keys = page,
                                       !.more = more, !.mark = next]
                  ELSE IF call[c].op = "count" /\ more
                  THEN [Answered(c) EXCEPT !.pc = "list", !.n = n, !.mark = next]
                  ELSE Finish(c, {}, n))

ListObjects(c) ==
    LET page == PageFrom(call[c].mark)  more == IsTruncated(call[c].mark) IN
    /\ call[c].pc = "listing"
    /\ IF driver = "gcs" THEN GcsListed(c, page, more) ELSE S3Listed(c, page, more)
    /\ UNCHANGED <<driver, objects, token, holder>>
    /\ See({}, {}, {})

(* listPrefix looks at no status: the JSON of an error has no items and no  *)
(* next page, so it ends the list as an empty last page would.             *)
ListRefused(c) ==
    /\ call[c].pc = "listing" /\ "status" \in Faults
    /\ \/ Become(c, To(c, "failed")) /\ See({}, {}, {})
       \/ driver = "gcs" /\ GcsListed(c, {}, FALSE) /\ See({}, {}, {c})
    /\ UNCHANGED <<driver, objects, token, holder>>

Remove(S) == objects' = objects \ S /\ See({}, S, {})

(* deleteOne, a 404 being as good as a 204. *)
DeleteOne(c) ==
    LET k == First(call[c].keys) IN
    /\ driver = "gcs" /\ call[c].pc = "removing"
    /\ Become(c, Finish(c, call[c].keys \ {k}, call[c].n))
    /\ Remove({k})
    /\ UNCHANGED <<driver, token, holder>>

(* Faulty: the list starts over until it is empty. *)
DeleteObjectsAgain(c) ==
    /\ driver = "s3" /\ call[c].pc = "removing"
    /\ Become(c, [call[c] EXCEPT !.pc = "list", !.keys = {}, !.more = FALSE, !.mark = 0])
    /\ Remove(call[c].keys)
    /\ UNCHANGED <<driver, token, holder>>

(* deleteObjects: one batch for a page. *)
DeleteObjects(c) ==
    /\ driver = "s3" /\ call[c].pc = "removing"
    /\ Become(c, [call[c] EXCEPT !.pc = IF call[c].more THEN "list" ELSE "done",
                                 !.keys = {}, !.more = FALSE])
    /\ Remove(call[c].keys)
    /\ UNCHANGED <<driver, token, holder>>

(* The body of a 200 may name keys that were not deleted; nobody reads it.  *)
DeleteSomeObjects(c) ==
    /\ driver = "s3" /\ call[c].pc = "removing" /\ "object" \in Faults
    /\ Become(c, [call[c] EXCEPT !.pc = IF call[c].more THEN "list" ELSE "done",
                                 !.keys = {}, !.more = FALSE])
    /\ See({}, {}, {c})
    /\ UNCHANGED <<driver, objects, token, holder>>

RequestFails(c) ==
    /\ \/ call[c].pc = "removing" /\ "status" \in Faults
       \/ call[c].pc \in InFlight /\ "network" \in Faults
    /\ Become(c, To(c, "failed"))
    /\ UNCHANGED <<driver, objects, token, holder>>
    /\ See({}, {}, {})

-----------------------------------------------------------------------------
CallStep(c) ==
    \/ Send(c) \/ Exchange(c) \/ Exchanged(c) \/ ExchangeFails(c)
    \/ ListObjects(c) \/ ListRefused(c)
    \/ DeleteOne(c) \/ DeleteObjects(c) \/ DeleteSomeObjects(c) \/ RequestFails(c)

Next ==
    \/ \E o \in Object : PutObject(o)
    \/ \E c \in Call : CallStep(c) \/ \E op \in {"delete", "count"} : Begin(c, op)
    \/ Tick

Spec == Init /\ [][Next]_vars

(* A request is answered or times out, and a sync.Mutex lets nobody wait    *)
(* for ever while others come and go.                                      *)
FairSpec == Spec /\ \A c \in Call :
    WF_vars(CallStep(c)) /\ SF_vars(Send(c) \/ Exchange(c))

-----------------------------------------------------------------------------
(* Properties. *)

CallType ==
    [op : {"delete", "count"},
     pc : {"idle", "list", "listing", "remove", "removing", "done", "failed"},
     mark : 0 .. Objects, more : BOOLEAN, keys : SUBSET Object, n : Nat,
     bearer : 0 .. Life, flight : 0 .. Latency]

(* Type correctness: in particular no page token lies beyond the folder and *)
(* no access token is taken to be good for longer than it is.              *)
TypeOK ==
    /\ driver \in {"gcs", "s3"}
    /\ objects \subseteq Object
    /\ call \in [Call -> CallType]
    /\ token \in [left : 0 .. Life, real : 0 .. Life]
    /\ holder \subseteq Call /\ Cardinality(holder) <= 1
    /\ seen \in [Call -> [stayed : SUBSET Object, ever : SUBSET Object, hidden : BOOLEAN]]

(* A call returns without an error, and none was hidden from it. *)
Returns(c, op) ==
    Running(c) /\ call[c].op = op /\ call'[c].pc = "done" /\ ~seen'[c].hidden

(* A DeleteFolder that returns nil has left nothing of what was in the      *)
(* folder when it began, whatever was put there or removed meanwhile,       *)
(* unless an error was hidden from it: the DELETE of the row that goes with *)
(* it cannot be repeated (service.go:144-149, tasks/*.go).                  *)
DeleteIsComplete == [][\A c \in Call :
    Returns(c, "delete") => seen[c].stayed \cap objects' = {}]_vars

(* CountFilesInFolder counts everything that was there all along and        *)
(* nothing that never was: CompleteUpload and Download compare the number   *)
(* with the parts (service.go:118,252).                                    *)
CountInRange == [][\A c \in Call :
    Returns(c, "count") =>
        call'[c].n \in Cardinality(seen[c].stayed) .. Cardinality(seen[c].ever)]_vars

(* No request arrives with a token that has run out on its way, whoever     *)
(* renewed it and however long the renewal took (gcs.go:80,136).            *)
BearersAlive == \A c \in Call :
    driver = "gcs" /\ call[c].pc \in InFlight => call[c].bearer > 0

(* Every call comes to an end, even if objects are put into the folder all  *)
(* the while.                                                              *)
CallsEnd == \A c \in Call : Running(c) ~> ~Running(c)
=============================================================================

------------------------- MODULE ObjectStoreProofs -------------------------
(***************************************************************************)
(* Proofs about ObjectStore, for folders and pages of any size, any calls   *)
(* and any faults: the tokens of the requests, what a deletion leaves and   *)
(* what a count counts.                                                    *)
(***************************************************************************)
EXTENDS ObjectStore, TLAPS, WellFoundedInduction, FiniteSetTheorems

-----------------------------------------------------------------------------
(* Pages. *)

(* A set of numbers below n has a greatest one. *)
LEMMA Greatest ==
    ASSUME NEW n \in Nat, NEW S \in SUBSET (0 .. n - 1), S # {}
    PROVE  \E o \in S : \A p \in S : p <= o
<1> DEFINE above == {o .. n : o \in S}
<1>1. above \subseteq FiniteSubsetsOf(Int) /\ above # {}
    <2>1. ASSUME NEW o \in S PROVE o .. n \in FiniteSubsetsOf(Int)
        <3>1. o \in Int /\ n \in Int
            OBVIOUS
        <3>2. IsFiniteSet(o .. n)
            BY <3>1, FS_Interval
        <3>3. o .. n \in SUBSET Int
            BY <3>1
        <3>4. QED  BY <3>2, <3>3 DEF FiniteSubsetsOf
    <2>2. QED  BY <2>1
<1>2. PICK A \in above : \A B \in above : ~(<<B, A>> \in StrictSubsetOrdering(Int))
    <2> HIDE DEF above
    <2> QED  BY <1>1, WFMin, FS_StrictSubsetOrderingWellFounded
<1>3. PICK o \in S : A = o .. n
    BY <1>2
<1>4. ASSUME NEW p \in S PROVE p <= o
    <2> SUFFICES ASSUME p > o PROVE FALSE
        OBVIOUS
    <2>1. (p .. n) \subseteq A /\ (p .. n) # A
        BY <1>3
    <2>2. <<p .. n, A>> \in StrictSubsetOrdering(Int)
        BY <2>1, <1>3 DEF StrictSubsetOrdering
    <2>3. QED  BY <2>2, <1>2
<1>5. QED  BY <1>4

(* And a least one. *)
LEMMA Least ==
    ASSUME NEW n \in Nat, NEW S \in SUBSET (0 .. n - 1), S # {}
    PROVE  \E o \in S : \A p \in S : o <= p
<1> DEFINE mirrored == {n - 1 - o : o \in S}
<1>1. mirrored \in SUBSET (0 .. n - 1) /\ mirrored # {}
    <2>1. \A o \in 0 .. n - 1 : n - 1 - o \in 0 .. n - 1
        OBVIOUS
    <2>2. \A o \in S : n - 1 - o \in 0 .. n - 1
        BY <2>1
    <2>3. QED  BY <2>2
<1>2. PICK m \in mirrored : \A p \in mirrored : p <= m
    <2> HIDE DEF mirrored
    <2> QED  BY <1>1, Greatest
<1>3. PICK o \in S : m = n - 1 - o
    BY <1>2
<1>4. ASSUME NEW p \in S PROVE o <= p
    BY <1>2, <1>3, n - 1 - p <= m
<1>5. QED  BY <1>4

LEMMA ObjectsFinite ==
    ASSUME NEW S \in SUBSET Object
    PROVE  IsFiniteSet(S) /\ Cardinality(S) \in Nat
<1>1. IsFiniteSet(Object)
    BY SizeAssumption, FS_Interval DEF Object
<1>2. IsFiniteSet(S)
    BY <1>1, FS_Subset
<1>3. QED  BY <1>2, FS_CardinalityType

LEMMA SmallerSet ==
    ASSUME NEW S \in SUBSET Object, NEW T \in SUBSET S
    PROVE  Cardinality(T) <= Cardinality(S)
BY ObjectsFinite, FS_Subset

(* A page is a beginning of what is ahead, and empty only if nothing is.    *)
LEMMA PageIsABeginning ==
    ASSUME objects \subseteq Object, NEW mark \in 0 .. Objects
    PROVE  /\ PageFrom(mark) \subseteq Ahead(mark)
           /\ Ahead(mark) \subseteq objects
           /\ PageFrom(mark) = {} => Ahead(mark) = {}
           /\ \A o \in Ahead(mark) \ PageFrom(mark), p \in PageFrom(mark) : p < o
<1> DEFINE before(o) == {p \in Ahead(mark) : p < o}
<1>1. PageFrom(mark) \subseteq Ahead(mark) /\ Ahead(mark) \subseteq objects
    BY DEF PageFrom, Ahead
<1> HIDE DEF before
<1>a. \A o \in Object : o \in Int
    BY SizeAssumption DEF Object
<1>b. \A o \in Ahead(mark) : o \in Object /\ o \in Int
    BY <1>1, <1>a
<1>2. \A o \in Ahead(mark) : o \in PageFrom(mark) <=> Cardinality(before(o)) < PageSize
    BY DEF PageFrom, before
<1>3. ASSUME Ahead(mark) # {} PROVE PageFrom(mark) # {}
    <2>1. PICK o \in Ahead(mark) : \A p \in Ahead(mark) : o <= p
        BY <1>1, <1>3, Least, SizeAssumption DEF Object
    <2>2. before(o) = {}
        BY <2>1, <1>b DEF before
    <2>3. QED  BY <1>2, <2>2, FS_EmptySet, SizeAssumption
<1>4. ASSUME NEW o \in Ahead(mark) \ PageFrom(mark), NEW p \in PageFrom(mark) PROVE p < o
    <2>1. o \in Int /\ p \in Int /\ p \in Ahead(mark) /\ p # o
        BY <1>1, <1>b
    <2>2. SUFFICES ASSUME o < p PROVE FALSE
        BY <2>1
    <2>3. before(o) \subseteq before(p) /\ before(p) \subseteq Object
        <3>1. ASSUME NEW q \in before(o) PROVE q \in before(p)
            <4>1. q \in Ahead(mark) /\ q < o
                BY <3>1 DEF before
            <4>2. q \in Int /\ q < p
                BY <4>1, <1>b, <2>1, <2>2
            <4>3. QED  BY <4>1, <4>2 DEF before
        <3>2. before(p) \subseteq Object
            BY <1>b DEF before
        <3>3. QED  BY <3>1, <3>2
    <2>4. /\ before(p) \in SUBSET Object
          /\ before(o) \in SUBSET before(p) /\ before(o) \in SUBSET Object
        BY <2>3
    <2>5. /\ Cardinality(before(o)) <= Cardinality(before(p))
          /\ Cardinality(before(o)) \in Nat /\ Cardinality(before(p)) \in Nat
        BY <2>4, SmallerSet, ObjectsFinite
    <2>6. QED  BY <2>1, <2>5, <1>2, SizeAssumption
<1>5. QED  BY <1>1, <1>3, <1>4

(* A page token leads right behind the page: nothing between is passed over.*)
LEMMA TokenLeadsOn ==
    ASSUME objects \subseteq Object, NEW mark \in 0 .. Objects, IsTruncated(mark)
    PROVE  /\ NextPageToken(mark) \in 0 .. Objects
           /\ NextPageToken(mark) > mark
           /\ \A o \in Ahead(mark) : o \in PageFrom(mark) <=> o < NextPageToken(mark)
<1>1. /\ PageFrom(mark) \subseteq Object /\ PageFrom(mark) # {}
      /\ \A o \in PageFrom(mark) : o >= mark
    BY PageIsABeginning DEF IsTruncated, Ahead
<1>2. PICK g \in PageFrom(mark) : \A o \in PageFrom(mark) : o <= g
    BY <1>1, Greatest, SizeAssumption DEF Object
<1>3. PICK e \in 0 .. Objects : e > mark /\ e - 1 = g /\ \A o \in PageFrom(mark) : o < e
    <2>1. PICK e \in 0 .. Objects : e = g + 1
        <3>1. g \in 0 .. Objects - 1
            BY <1>1, <1>2 DEF Object
        <3>2. QED  BY <3>1, SizeAssumption
    <2>2. g \in Int /\ mark \in Int /\ g >= mark /\ e \in Int /\ Objects \in Int
        BY <1>1, <1>2, SizeAssumption DEF Object
    <2>3. e > mark /\ e - 1 = g
        BY <2>1, <2>2
    <2>4. \A o \in PageFrom(mark) : o < e
        BY <1>1, <1>2, <2>1, <2>2, SizeAssumption DEF Object
    <2>5. QED  BY <2>3, <2>4
<1>4. PICK m \in 0 .. Objects :
          /\ m = NextPageToken(mark)
          /\ m > mark /\ \A o \in PageFrom(mark) : o < m
          /\ m > mark + 1 => m - 1 \in PageFrom(mark)
    <2> DEFINE Leads(m) == /\ m > mark
                           /\ \A o \in PageFrom(mark) : o < m
                           /\ m > mark + 1 => m - 1 \in PageFrom(mark)
    <2>1. Leads(e)
        BY <1>2, <1>3
    <2>2. NextPageToken(mark) = CHOOSE m \in 0 .. Objects : Leads(m)
        BY DEF NextPageToken
    <2>3. NextPageToken(mark) \in 0 .. Objects /\ Leads(NextPageToken(mark))
        <3> HIDE DEF Leads
        <3> QED  BY <1>3, <2>1, <2>2
    <2>4. QED  BY <2>3
<1>5. ASSUME NEW o \in Ahead(mark), o < m PROVE o \in PageFrom(mark)
    <2>1. SUFFICES ASSUME o \notin PageFrom(mark) PROVE FALSE
        OBVIOUS
    <2>2. o \in Int /\ o >= mark /\ o > g /\ g >= mark /\ g \in Int
        BY <2>1, <1>1, <1>2, PageIsABeginning DEF Ahead, Object
    <2>3. m - 1 \in PageFrom(mark)
        BY <2>2, <1>5, <1>4
    <2>4. m - 1 < o
        BY <2>1, <2>3, PageIsABeginning
    <2>5. QED  BY <2>2, <2>4, <1>5
<1>6. QED  BY <1>4, <1>5, PageIsABeginning

-----------------------------------------------------------------------------
(* Steps of a call, and what they leave of the others. *)

SeenType == [stayed : SUBSET Object, ever : SUBSET Object, hidden : BOOLEAN]

Typed ==
    /\ driver \in {"gcs", "s3"}
    /\ objects \subseteq Object
    /\ call \in [Call -> CallType]
    /\ token \in [left : 0 .. Life, real : 0 .. Life]
    /\ holder = {} \/ \E c \in Call : holder = {c}
    /\ seen \in [Call -> SeenType]

LEMMA NumberFacts ==
    /\ Objects \in Nat /\ Life \in Nat /\ Latency \in Nat /\ Margin \in Nat
    /\ 0 \in 0 .. Objects /\ 0 \in 0 .. Life /\ 0 \in 0 .. Latency /\ Life \in 0 .. Life
BY SizeAssumption, TimeAssumption

LEMMA NoCallTyped == NoCall \in CallType
BY NumberFacts DEF NoCall, CallType

LEMMA BecomeFacts ==
    ASSUME call \in [Call -> CallType], NEW c \in Call, NEW r \in CallType, Become(c, r)
    PROVE  /\ call' \in [Call -> CallType]
           /\ \A d \in Call \ {c} : call'[d] = call[d]
           /\ call'[c].pc = r.pc
           /\ r.pc \notin {"done", "failed"} => call'[c] = r
           /\ r.pc = "done" => call'[c].op = r.op /\ call'[c].n = r.n
           /\ r.pc \in {"done", "failed"} => call'[c].bearer = 0 /\ call'[c].flight = 0
<1> DEFINE q == IF r.pc = "failed" THEN [NoCall EXCEPT !.pc = "failed"]
                ELSE IF r.pc = "done"
                THEN [NoCall EXCEPT !.pc = "done", !.op = r.op, !.n = r.n] ELSE r
<1>1. call' = [call EXCEPT ![c] = q]
    BY DEF Become
<1>2. q \in CallType
    BY NoCallTyped DEF CallType
<1>3. /\ q.pc = r.pc
      /\ r.pc \notin {"done", "failed"} => q = r
      /\ r.pc = "done" => q.op = r.op /\ q.n = r.n
      /\ r.pc \in {"done", "failed"} => q.bearer = 0 /\ q.flight = 0
    BY DEF NoCall, CallType
<1> HIDE DEF q
<1>4. call'[c] = q
    BY <1>1
<1>5. call' \in [Call -> CallType] /\ \A d \in Call \ {c} : call'[d] = call[d]
    BY <1>1, <1>2
<1>6. QED  BY <1>3, <1>4, <1>5

LEMMA SeeFacts ==
    ASSUME seen \in [Call -> SeenType],
           NEW come \in SUBSET Object, NEW gone \in SUBSET Object, NEW deceived,
           See(come, gone, deceived)
    PROVE  /\ seen' \in [Call -> SeenType]
           /\ \A d \in Call :
                  /\ seen'[d].hidden = (seen[d].hidden \/ d \in deceived)
                  /\ call'[d].pc \notin Ended =>
                        /\ seen'[d].stayed = seen[d].stayed \ gone
                        /\ call[d].op = "count" => seen'[d].ever = seen[d].ever \cup come
BY DEF See, SeenType

(* What the answer to a list makes of the call. *)
LEMMA AnsweredTyped ==
    ASSUME call \in [Call -> CallType], NEW c \in Call
    PROVE  /\ Answered(c) \in CallType
           /\ \A keys \in SUBSET Object, n \in Nat : Finish(c, keys, n) \in CallType
BY NumberFacts DEF Answered, Finish, CallType

LEMMA GcsListedFacts ==
    ASSUME call \in [Call -> CallType], NEW c \in Call,
           NEW page \in SUBSET Object, NEW more \in BOOLEAN,
           more => NextPageToken(call[c].mark) \in 0 .. Objects, GcsListed(c, page, more)
    PROVE  \E r \in CallType :
               Become(c, r) /\ r.flight = 0 /\ r.pc \in {"list", "remove", "done"}
<1> DEFINE keys == call[c].keys \cup page
           r == IF more
                THEN [Answered(c) EXCEPT !.pc = "list", !.keys = keys,
                                         !.mark = NextPageToken(call[c].mark)]
                ELSE Finish(c, keys, Cardinality(keys))
<1>1. Become(c, r)
    BY DEF GcsListed
<1>2. keys \in SUBSET Object
    BY DEF CallType
<1> HIDE DEF keys
<1>3. r \in CallType
    BY <1>2, AnsweredTyped, ObjectsFinite DEF CallType
<1>4. r.flight = 0 /\ r.pc \in {"list", "remove", "done"}
    BY DEF Answered, Finish, CallType
<1>5. QED  BY <1>1, <1>3, <1>4

LEMMA S3ListedFacts ==
    ASSUME call \in [Call -> CallType], NEW c \in Call,
           NEW page \in SUBSET Object, NEW more \in BOOLEAN,
           more => NextPageToken(call[c].mark) \in 0 .. Objects, S3Listed(c, page, more)
    PROVE  \E r \in CallType : Become(c, r)
<1> DEFINE n == call[c].n + Cardinality(page)
           next == IF more THEN NextPageToken(call[c].mark) ELSE call[c].mark
           r == IF call[c].op = "delete" /\ page # {}
                THEN [Answered(c) EXCEPT !.pc = "remove", !.keys = page,
                                         !.more = more, !.mark = next]
                ELSE IF call[c].op = "count" /\ more
                THEN [Answered(c) EXCEPT !.pc = "list", !.n = n, !.mark = next]
                ELSE Finish(c, {}, n)
<1>1. Become(c, r)
    BY DEF S3Listed
<1>2. n \in Nat /\ next \in 0 .. Objects
    BY ObjectsFinite DEF CallType
<1> HIDE DEF n, next
<1>3. r \in CallType
    BY <1>2, AnsweredTyped DEF CallType
<1>4. QED  BY <1>1, <1>3

LEMMA PageTyped ==
    ASSUME objects \subseteq Object, NEW mark \in 0 .. Objects
    PROVE  /\ PageFrom(mark) \in SUBSET Object
           /\ IsTruncated(mark) \in BOOLEAN
           /\ IsTruncated(mark) => NextPageToken(mark) \in 0 .. Objects
BY PageIsABeginning, TokenLeadsOn DEF IsTruncated

(* Each step of a call gives it a record of its type. *)
LEMMA CallStepTyped ==
    ASSUME Typed, NEW c \in Call, CallStep(c)
    PROVE  Typed'
<1> USE NumberFacts DEF Typed
<1>1. ASSUME NEW r \in CallType, Become(c, r) PROVE call' \in [Call -> CallType]
    BY <1>1, BecomeFacts
<1>2. ASSUME NEW come \in SUBSET Object, NEW gone \in SUBSET Object, NEW deceived,
             See(come, gone, deceived)
      PROVE  seen' \in [Call -> SeenType]
    BY <1>2, SeeFacts
<1>3. \A S : Remove(S) => objects' \subseteq Object
    BY DEF Remove
<1>4. \A pc \in {"list", "listing", "remove", "removing", "done", "failed"} :
          To(c, pc) \in CallType
    BY DEF To, CallType
<1>5. CASE Send(c)
    <2>1. [call[c] EXCEPT !.pc = Sent(@), !.bearer = token.real] \in CallType
        BY DEF Sent, CallType
    <2>2. QED  BY <1>5, <1>1, <2>1 DEF Send
<1>6. CASE Exchange(c)
    BY <1>6 DEF Exchange
<1>7. CASE Exchanged(c)
    <2>1. [call[c] EXCEPT !.pc = Sent(@), !.bearer = token.real, !.flight = 0] \in CallType
        BY DEF Sent, CallType
    <2>2. QED  BY <1>7, <1>1, <2>1 DEF Exchanged
<1>8. CASE ExchangeFails(c)
    <2>1. call' \in [Call -> CallType]
        BY <1>8, <1>1, <1>4 DEF ExchangeFails
    <2>2. seen' \in [Call -> SeenType]
        BY <1>8, <1>2 DEF ExchangeFails
    <2>3. QED  BY <1>8, <2>1, <2>2 DEF ExchangeFails
<1>9. CASE ListObjects(c)
    <2>1. call[c].mark \in 0 .. Objects
        BY DEF CallType
    <2>2. call' \in [Call -> CallType]
        <3>1. CASE GcsListed(c, PageFrom(call[c].mark), IsTruncated(call[c].mark))
            BY <3>1, <1>1, <2>1, PageTyped, GcsListedFacts
        <3>2. CASE S3Listed(c, PageFrom(call[c].mark), IsTruncated(call[c].mark))
            BY <3>2, <1>1, <2>1, PageTyped, S3ListedFacts
        <3>3. QED  BY <1>9, <3>1, <3>2 DEF ListObjects
    <2>3. seen' \in [Call -> SeenType]
        BY <1>9, <1>2 DEF ListObjects
    <2>4. QED  BY <1>9, <2>2, <2>3 DEF ListObjects
<1>10. CASE ListRefused(c)
    <2>1. call' \in [Call -> CallType]
        <3>1. CASE GcsListed(c, {}, FALSE)
            BY <3>1, <1>1, GcsListedFacts
        <3>2. CASE Become(c, To(c, "failed"))
            BY <3>2, <1>1, <1>4
        <3>3. QED  BY <1>10, <3>1, <3>2 DEF ListRefused
    <2>2. seen' \in [Call -> SeenType]
        BY <1>10, <1>2 DEF ListRefused
    <2>3. QED  BY <1>10, <2>1, <2>2 DEF ListRefused
<1>11. CASE DeleteOne(c)
    <2> DEFINE k == First(call[c].keys)
    <2>1. call[c].keys \ {k} \in SUBSET Object /\ call[c].n \in Nat
        BY DEF CallType
    <2>2. call' \in [Call -> CallType]
        BY <1>11, <1>1, <2>1, AnsweredTyped DEF DeleteOne
    <2>3. Remove({k})
        BY <1>11 DEF DeleteOne
    <2> HIDE DEF k
    <2>4. objects' \subseteq Object /\ seen' \in [Call -> SeenType]
        BY <2>3 DEF Remove, See, SeenType
    <2>5. QED  BY <1>11, <2>2, <2>4 DEF DeleteOne
<1>12. CASE DeleteObjects(c)
    <2>1. [call[c] EXCEPT !.pc = IF call[c].more THEN "list" ELSE "done",
                          !.keys = {}, !.more = FALSE] \in CallType
        BY DEF CallType
    <2>2. call' \in [Call -> CallType]
        BY <1>12, <1>1, <2>1 DEF DeleteObjects
    <2>3. seen' \in [Call -> SeenType] /\ objects' \subseteq Object
        BY <1>12 DEF DeleteObjects, Remove, See, SeenType
    <2>4. QED  BY <1>12, <2>2, <2>3 DEF DeleteObjects
<1>13. CASE DeleteSomeObjects(c)
    <2>1. [call[c] EXCEPT !.pc = IF call[c].more THEN "list" ELSE "done",
                          !.keys = {}, !.more = FALSE] \in CallType
        BY DEF CallType
    <2>2. call' \in [Call -> CallType]
        BY <1>13, <1>1, <2>1 DEF DeleteSomeObjects
    <2>3. seen' \in [Call -> SeenType]
        BY <1>13, <1>2 DEF DeleteSomeObjects
    <2>4. QED  BY <1>13, <2>2, <2>3 DEF DeleteSomeObjects
<1>14. CASE RequestFails(c)
    <2>1. call' \in [Call -> CallType]
        BY <1>14, <1>1, <1>4 DEF RequestFails
    <2>2. seen' \in [Call -> SeenType]
        BY <1>14, <1>2 DEF RequestFails
    <2>3. QED  BY <1>14, <2>1, <2>2 DEF RequestFails
<1>15. QED
    BY <1>5, <1>6, <1>7, <1>8, <1>9, <1>10, <1>11, <1>12, <1>13, <1>14 DEF CallStep

LEMMA TypedStep == Typed /\ [Next]_vars => Typed'
<1> SUFFICES ASSUME Typed, [Next]_vars PROVE Typed'
    OBVIOUS
<1> USE NumberFacts DEF Typed
<1>1. ASSUME NEW o \in Object, PutObject(o) PROVE Typed'
    BY <1>1 DEF PutObject, See, SeenType
<1>2. ASSUME NEW c \in Call, NEW op \in {"delete", "count"}, Begin(c, op) PROVE Typed'
    <2>1. [NoCall EXCEPT !.op = op, !.pc = "list"] \in CallType
        BY NoCallTyped DEF CallType
    <2>2. call' \in [Call -> CallType]
        BY <1>2, <2>1, BecomeFacts DEF Begin
    <2>3. seen' \in [Call -> SeenType]
        BY <1>2 DEF Begin, SeenType
    <2>4. QED  BY <1>2, <2>2, <2>3 DEF Begin
<1>3. CASE Tick
    <2>1. token' \in [left : 0 .. Life, real : 0 .. Life]
        <3>1. token.left \in 0 .. Life /\ token.real \in 0 .. Life /\ token.real > 0
            BY <1>3 DEF Tick
        <3>2. token.real - 1 \in 0 .. Life
              /\ (IF token.left > 0 THEN token.left - 1 ELSE 0) \in 0 .. Life
            BY <3>1
        <3>3. QED  BY <1>3, <3>2 DEF Tick
    <2>2. call' \in [Call -> CallType]
        <3>1. ASSUME NEW d \in Call
              PROVE  /\ Waiting(d) => call[d].flight + 1 \in 0 .. Latency
                     /\ (IF call[d].bearer > 0 THEN call[d].bearer - 1 ELSE 0) \in 0 .. Life
            <4>1. call[d].flight \in 0 .. Latency /\ call[d].bearer \in 0 .. Life
                BY DEF CallType
            <4>2. Waiting(d) => call[d].flight < Latency
                BY <1>3 DEF Tick
            <4>3. QED  BY <4>1, <4>2
        <3>2. ASSUME NEW d \in Call PROVE call'[d] \in CallType
            BY <1>3, <3>1 DEF Tick, CallType
        <3>3. call' = [d \in Call |-> call'[d]]
            BY <1>3 DEF Tick
        <3>4. QED  BY <3>2, <3>3
    <2>3. QED  BY <1>3, <2>1, <2>2 DEF Tick
<1>4. CASE UNCHANGED vars
    BY <1>4 DEF vars
<1>5. QED  BY <1>1, <1>2, <1>3, <1>4, CallStepTyped DEF Next

LEMMA TypedStart == Init => Typed
BY NumberFacts, NoCallTyped DEF Init, Typed, SeenType

(* The folder, the calls and the token are what the code can hold           *)
(* (gcs.go:74-153,224-308, s3.go:120-230).                                  *)
THEOREM StoreTyped == Spec => []TypeOK
<1>1. Typed => TypeOK
    <2>1. ASSUME Typed PROVE holder \subseteq Call /\ Cardinality(holder) <= 1
        <3>1. CASE holder = {}
            BY <3>1, FS_EmptySet
        <3>2. ASSUME NEW c \in Call, holder = {c}
              PROVE  holder \subseteq Call /\ Cardinality(holder) <= 1
            <4>1. Cardinality({c}) = 1
                BY FS_Singleton
            <4>2. QED  BY <3>2, <4>1
        <3>3. QED  BY <2>1, <3>1, <3>2 DEF Typed
    <2>2. QED  BY <2>1 DEF Typed, TypeOK, SeenType
<1>2. QED  BY TypedStart, TypedStep, <1>1, PTL DEF Spec

-----------------------------------------------------------------------------
(* Tokens. *)

(* How old tokens can be.  What a request has left and the time it has been *)
(* on its way add up to more than it may take; the token that is being      *)
(* fetched is no older than the request for it; and nobody takes the token  *)
(* to be good for longer than it is.                                       *)
AgeInv == driver = "gcs" =>
    /\ token.left <= token.real
    /\ \A c \in holder : call[c].pc \in {"list", "remove"}
                         /\ token.real + call[c].flight >= Life
    /\ \A c \in Call : /\ ~Waiting(c) => call[c].flight = 0
                       /\ call[c].pc \in InFlight => call[c].bearer + call[c].flight > Latency

LEMMA AgeNumbers ==
    ASSUME Typed, NEW c \in Call
    PROVE  /\ call[c].flight \in Nat /\ call[c].flight <= Latency
           /\ call[c].bearer \in Nat
           /\ token.left \in Nat /\ token.real \in Nat
BY NumberFacts DEF Typed, CallType

(* A step of c that leaves the token and does not send a request. *)
LEMMA AgeKept ==
    ASSUME Typed, AgeInv, NEW c \in Call, UNCHANGED <<driver, token, holder>>,
           c \notin holder,
           \A d \in Call \ {c} : call'[d] = call[d],
           call'[c].flight = 0, call'[c].pc \notin InFlight
    PROVE  AgeInv'
BY DEF Typed, AgeInv, Waiting

LEMMA CallStepAges ==
    ASSUME Typed, AgeInv, NEW c \in Call, CallStep(c)
    PROVE  AgeInv'
<1> SUFFICES ASSUME driver = "gcs" PROVE AgeInv'
    BY DEF CallStep, Send, Exchange, Exchanged, ExchangeFails, ListObjects, ListRefused,
           DeleteOne, DeleteObjects, DeleteSomeObjects, RequestFails, AgeInv
<1>1. /\ call \in [Call -> CallType] /\ call[c] \in CallType
      /\ call[c].pc \notin {"list", "remove"} => c \notin holder
    BY DEF Typed, AgeInv
<1>2. \A pc \in {"list", "listing", "remove", "removing", "done", "failed"} :
          To(c, pc) \in CallType /\ To(c, pc).pc = pc
    BY <1>1 DEF To, CallType
<1>3. ASSUME NEW r \in CallType, Become(c, r), r.flight = 0 \/ r.pc \in {"done", "failed"}
      PROVE  call'[c].flight = 0 /\ call'[c].pc = r.pc /\ \A d \in Call \ {c} : call'[d] = call[d]
    BY <1>1, <1>3, BecomeFacts
<1>4. CASE Send(c)
    <2> DEFINE r == [call[c] EXCEPT !.pc = Sent(@), !.bearer = token.real]
    <2>1. r \in CallType /\ r.pc \in InFlight
        BY <1>1, <1>4 DEF Sent, CallType, Typed, Send, InFlight
    <2>2. r.flight = call[c].flight /\ r.bearer = token.real
        BY <1>1 DEF CallType
    <2>3. Become(c, r)
        BY <1>4 DEF Send
    <2> HIDE DEF r
    <2>4. call'[c] = r /\ \A d \in Call \ {c} : call'[d] = call[d]
        BY <1>1, <2>1, <2>3, BecomeFacts DEF InFlight
    <2>5. call[c].flight = 0 /\ token.real > Latency
        <3>1. call[c].flight = 0 /\ token.left > Margin /\ token.left <= token.real
            BY <1>4 DEF Send, AgeInv, Waiting, InFlight, Usable
        <3>2. QED  BY <3>1, AgeNumbers, TimeAssumption
    <2>6. call'[c].bearer + call'[c].flight > Latency
        BY <2>2, <2>4, <2>5, AgeNumbers
    <2>7. call'[c].pc \in InFlight /\ c \notin holder
        BY <1>4, <2>1, <2>4 DEF Send
    <2>8. QED
        BY <1>4, <2>4, <2>6, <2>7 DEF Send, AgeInv, Waiting, Typed
<1>5. CASE Exchange(c)
    <2>1. call[c].flight = 0 /\ call[c].pc \notin InFlight /\ holder = {} /\ holder' = {c}
        BY <1>5 DEF Exchange, AgeInv, Waiting, InFlight
    <2>2. token'.left = Life /\ token'.real = Life
        BY <1>5 DEF Exchange
    <2>3. Life + 0 >= Life /\ Life <= Life
        BY NumberFacts
    <2>4. QED  BY <1>5, <2>1, <2>2, <2>3 DEF Exchange, AgeInv, Waiting
<1>6. CASE Exchanged(c)
    <2> DEFINE r == [call[c] EXCEPT !.pc = Sent(@), !.bearer = token.real, !.flight = 0]
    <2>1. r \in CallType /\ r.pc \in InFlight /\ r.flight = 0 /\ r.bearer = token.real
        BY <1>1, NumberFacts DEF Sent, CallType, Typed, InFlight
    <2>2. Become(c, r) /\ holder = {c} /\ holder' = {} /\ UNCHANGED <<driver, token>>
        BY <1>6 DEF Exchanged
    <2> HIDE DEF r
    <2>3. call'[c] = r /\ \A d \in Call \ {c} : call'[d] = call[d]
        BY <1>1, <2>1, <2>2, BecomeFacts DEF InFlight
    <2>4. token.real > Latency
        <3>1. token.real + call[c].flight >= Life
            BY <2>2 DEF AgeInv
        <3>2. QED  BY <3>1, AgeNumbers, TimeAssumption
    <2>5. call'[c].bearer + call'[c].flight > Latency
        BY <2>1, <2>3, <2>4, AgeNumbers
    <2>6. QED  BY <2>1, <2>2, <2>3, <2>5 DEF AgeInv, Waiting
<1>7. CASE ExchangeFails(c)
    <2>1. /\ call'[c].flight = 0 /\ call'[c].pc = "failed"
          /\ \A d \in Call \ {c} : call'[d] = call[d]
        BY <1>7, <1>2, <1>3 DEF ExchangeFails
    <2>2. holder = {c} /\ holder' = {} /\ token'.left = 0 /\ token'.real = 0
        BY <1>7 DEF ExchangeFails
    <2>3. QED  BY <1>7, <2>1, <2>2 DEF AgeInv, Waiting, InFlight, ExchangeFails
<1>8. ASSUME NEW r \in CallType, Become(c, r), c \notin holder,
             UNCHANGED <<driver, token, holder>>,
             r.flight = 0 \/ r.pc \in {"done", "failed"}, r.pc \notin InFlight
      PROVE  AgeInv'
    BY <1>3, <1>8, AgeKept
<1>9. \A pc \in {"listing", "removing"} : call[c].pc = pc => c \notin holder
    BY <1>1
<1>10. CASE ListObjects(c)
    <2>1. call[c].mark \in 0 .. Objects /\ objects \subseteq Object
        BY <1>1 DEF CallType, Typed
    <2>2. GcsListed(c, PageFrom(call[c].mark), IsTruncated(call[c].mark))
        BY <1>10 DEF ListObjects
    <2>3. PICK r \in CallType :
              Become(c, r) /\ r.flight = 0 /\ r.pc \in {"list", "remove", "done"}
        BY <1>1, <2>1, <2>2, PageTyped, GcsListedFacts
    <2>4. QED  BY <1>8, <1>9, <1>10, <2>3 DEF ListObjects, InFlight
<1>11. CASE ListRefused(c)
    <2>1. CASE GcsListed(c, {}, FALSE)
        <3>1. PICK r \in CallType :
                  Become(c, r) /\ r.flight = 0 /\ r.pc \in {"list", "remove", "done"}
            BY <1>1, <2>1, GcsListedFacts
        <3>2. QED  BY <1>8, <1>9, <1>11, <3>1 DEF ListRefused, InFlight
    <2>2. CASE Become(c, To(c, "failed"))
        BY <1>2, <1>8, <1>9, <1>11, <2>2 DEF ListRefused, InFlight
    <2>3. QED  BY <1>11, <2>1, <2>2 DEF ListRefused
<1>12. CASE DeleteOne(c)
    <2> DEFINE rest == call[c].keys \ {First(call[c].keys)}  n == call[c].n
    <2>1. rest \in SUBSET Object /\ n \in Nat
        BY <1>1 DEF CallType
    <2>2. Become(c, Finish(c, rest, n))
        BY <1>12 DEF DeleteOne
    <2> HIDE DEF rest, n
    <2>3. Finish(c, rest, n) \in CallType
        BY <1>1, <2>1, AnsweredTyped
    <2>4. Finish(c, rest, n).flight = 0 /\ Finish(c, rest, n).pc \in {"remove", "done"}
        BY <1>1 DEF Finish, Answered, CallType
    <2>5. QED  BY <1>8, <1>9, <1>12, <2>2, <2>3, <2>4 DEF DeleteOne, InFlight
<1>13. CASE RequestFails(c)
    BY <1>2, <1>8, <1>9, <1>13 DEF RequestFails, InFlight
<1>14. QED
    BY <1>4, <1>5, <1>6, <1>7, <1>10, <1>11, <1>12, <1>13
    DEF CallStep, DeleteObjects, DeleteSomeObjects

LEMMA AgeStep == Typed /\ Typed' /\ AgeInv /\ [Next]_vars => AgeInv'
<1> SUFFICES ASSUME Typed, Typed', AgeInv, [Next]_vars PROVE AgeInv'
    OBVIOUS
<1>1. ASSUME NEW o \in Object, PutObject(o) PROVE AgeInv'
    BY <1>1 DEF PutObject, AgeInv, Waiting
<1>2. ASSUME NEW c \in Call, NEW op \in {"delete", "count"}, Begin(c, op) PROVE AgeInv'
    <2> DEFINE r == [NoCall EXCEPT !.op = op, !.pc = "list"]
    <2>1. r \in CallType /\ r.pc = "list" /\ r.flight = 0
        BY NoCallTyped DEF CallType, NoCall
    <2>2. Become(c, r) /\ UNCHANGED <<driver, token, holder>> /\ call[c].pc \in Ended
        BY <1>2 DEF Begin
    <2> HIDE DEF r
    <2>3. /\ call'[c].flight = 0 /\ call'[c].pc = "list"
          /\ \A d \in Call \ {c} : call'[d] = call[d]
        BY <2>1, <2>2, BecomeFacts DEF Typed
    <2>4. driver = "gcs" => c \notin holder
        BY <2>2 DEF AgeInv, Ended
    <2>5. CASE driver = "gcs"
        BY <2>2, <2>3, <2>4, <2>5, AgeKept DEF InFlight
    <2>6. QED  BY <2>2, <2>5 DEF AgeInv
<1>3. CASE Tick
    <2>1. /\ driver = "gcs" /\ UNCHANGED <<driver, holder>> /\ token.real > 0
          /\ token'.real = token.real - 1
          /\ token'.left = IF token.left > 0 THEN token.left - 1 ELSE 0
        BY <1>3 DEF Tick
    <2>2. ASSUME NEW c \in Call
          PROVE  /\ call'[c].pc = call[c].pc
                 /\ Waiting(c) => /\ call[c].flight < Latency
                                  /\ call'[c].flight = call[c].flight + 1
                                  /\ call'[c].bearer = IF call[c].bearer > 0
                                                       THEN call[c].bearer - 1 ELSE 0
                 /\ ~Waiting(c) => call'[c] = call[c]
        <3>1. call'[c] = IF Waiting(c)
                         THEN [call[c] EXCEPT !.flight = @ + 1,
                                              !.bearer = IF @ > 0 THEN @ - 1 ELSE 0]
                         ELSE call[c]
            BY <1>3 DEF Tick
        <3>2. Waiting(c) => call[c].flight < Latency
            BY <1>3 DEF Tick
        <3>3. call[c] \in CallType
            BY DEF Typed
        <3>4. QED  BY <3>1, <3>2, <3>3 DEF CallType
    <2>3. token'.left <= token'.real
        <3>1. token.left <= token.real /\ token.left \in Nat /\ token.real \in Nat
            BY <2>1, NumberFacts DEF AgeInv, Typed
        <3>2. QED  BY <2>1, <3>1
    <2>4. ASSUME NEW c \in holder
          PROVE  call'[c].pc \in {"list", "remove"} /\ token'.real + call'[c].flight >= Life
        <3>1. c \in Call /\ Waiting(c)
            BY DEF Typed, Waiting
        <3>2. call[c].pc \in {"list", "remove"} /\ token.real + call[c].flight >= Life
            BY <2>1 DEF AgeInv
        <3>3. token'.real + call'[c].flight = token.real + call[c].flight
            BY <2>1, <2>2, <3>1, AgeNumbers
        <3>4. QED  BY <2>2, <3>1, <3>2, <3>3
    <2>5. ASSUME NEW c \in Call
          PROVE  /\ ~Waiting(c)' => call'[c].flight = 0
                 /\ call'[c].pc \in InFlight => call'[c].bearer + call'[c].flight > Latency
        <3>1. Waiting(c)' = Waiting(c)
            BY <2>1, <2>2 DEF Waiting
        <3>2. CASE ~Waiting(c)
            BY <2>1, <2>2, <3>1, <3>2 DEF AgeInv, Waiting
        <3>3. CASE Waiting(c) /\ call[c].pc \in InFlight
            <4>1. call[c].bearer + call[c].flight > Latency
                BY <2>1, <3>3 DEF AgeInv
            <4>2. call'[c].bearer + call'[c].flight > Latency
                BY <2>2, <3>3, <4>1, AgeNumbers, NumberFacts
            <4>3. QED  BY <3>1, <3>3, <4>2
        <3>4. QED  BY <2>2, <3>1, <3>2, <3>3
    <2>6. QED  BY <2>1, <2>3, <2>4, <2>5 DEF AgeInv
<1>4. CASE UNCHANGED vars
    BY <1>4 DEF vars, AgeInv, Waiting
<1>5. QED  BY <1>1, <1>2, <1>3, <1>4, CallStepAges DEF Next

(* Whoever renewed the token and however long that took, no request arrives *)
(* with one that has run out on its way (gcs.go:80,136).                    *)
THEOREM NoTokenDies == Spec => []BearersAlive
<1>1. Init => AgeInv
    BY DEF Init, AgeInv, Waiting, InFlight, NoCall
<1>2. Typed /\ AgeInv => BearersAlive
    <2> SUFFICES ASSUME Typed, AgeInv, NEW c \in Call, driver = "gcs", call[c].pc \in InFlight
                 PROVE  call[c].bearer > 0
        BY DEF BearersAlive
    <2>1. call[c].bearer + call[c].flight > Latency
        BY DEF AgeInv
    <2>2. QED  BY <2>1, AgeNumbers, NumberFacts
<1>3. QED  BY TypedStart, TypedStep, AgeStep, <1>1, <1>2, PTL DEF Spec

-----------------------------------------------------------------------------
(* What the pages cover. *)

Upto(S, m) == {o \in S : o < m}

(* What was in the folder all along a call is still there; a count was told *)
(* of nothing else than what it may count.  What the pages so far have left *)
(* behind has its name in the list or, for a count of S3, is counted.       *)
Fits(c) == call[c].pc \notin Ended =>
    /\ seen[c].stayed \subseteq objects
    /\ call[c].op = "count" =>
           /\ objects \subseteq seen[c].ever
           /\ call[c].pc \in {"list", "listing"}
           /\ driver = "gcs" => call[c].keys \subseteq seen[c].ever
    /\ driver = "s3" /\ call[c].pc \in {"list", "listing"} => call[c].keys = {}
    /\ ~seen[c].hidden =>
           /\ call[c].pc \in {"list", "listing"} /\ (driver = "gcs" \/ call[c].op = "delete") =>
                  \A o \in seen[c].stayed : o \in call[c].keys \/ o >= call[c].mark
           /\ call[c].pc \in {"remove", "removing"} =>
                  \A o \in seen[c].stayed :
                      \/ o \in call[c].keys
                      \/ driver = "s3" /\ call[c].more /\ o >= call[c].mark
           /\ driver = "s3" /\ call[c].op = "count" =>
                  /\ Cardinality(Upto(seen[c].stayed, call[c].mark)) <= call[c].n
                  /\ call[c].n <= Cardinality(Upto(seen[c].ever, call[c].mark))

FitsInv == \A c \in Call : Fits(c)

LEMMA CallNumbers ==
    ASSUME Typed, NEW c \in Call
    PROVE  /\ call[c] \in CallType /\ seen[c] \in SeenType
           /\ call[c].mark \in 0 .. Objects /\ call[c].keys \in SUBSET Object
           /\ call[c].n \in Nat /\ objects \in SUBSET Object
           /\ seen[c].stayed \in SUBSET Object /\ seen[c].ever \in SUBSET Object
BY DEF Typed, CallType, SeenType

(* What others put into the folder or take out of it leaves a call fit.     *)
LEMMA OthersFit ==
    ASSUME Typed, Typed', NEW c \in Call, Fits(c), UNCHANGED driver, call'[c] = call[c],
           NEW come, NEW gone,
           objects' = (objects \cup come) \ gone,
           call[c].pc \notin Ended =>
               /\ seen[c].hidden => seen'[c].hidden
               /\ seen'[c].stayed = seen[c].stayed \ gone
               /\ call[c].op = "count" => seen'[c].ever = seen[c].ever \cup come
    PROVE  Fits(c)'
<1> SUFFICES ASSUME call[c].pc \notin Ended PROVE Fits(c)'
    BY DEF Fits
<1>1. seen'[c].stayed \subseteq seen[c].stayed
    OBVIOUS
<1>2. ASSUME call[c].op = "count"
      PROVE  seen[c].ever \subseteq seen'[c].ever /\ objects' \subseteq seen'[c].ever
    BY <1>2 DEF Fits
<1>3. ASSUME call[c].op = "count", ~seen'[c].hidden, driver = "s3"
      PROVE  /\ Cardinality(Upto(seen'[c].stayed, call[c].mark)) <= call[c].n
             /\ call[c].n <= Cardinality(Upto(seen'[c].ever, call[c].mark))
    <2> DEFINE m == call[c].mark
               S1 == Upto(seen[c].stayed, m)   S2 == Upto(seen'[c].stayed, m)
               E1 == Upto(seen[c].ever, m)     E2 == Upto(seen'[c].ever, m)
    <2>1. S2 \in SUBSET S1 /\ E1 \in SUBSET E2
        BY <1>1, <1>2, <1>3 DEF Upto
    <2>2. S1 \in SUBSET Object /\ E2 \in SUBSET Object
        BY CallNumbers DEF Upto, Typed, SeenType
    <2>3. Cardinality(S1) <= call[c].n /\ call[c].n <= Cardinality(E1)
        BY <1>3 DEF Fits
    <2> HIDE DEF S1, S2, E1, E2
    <2>4. Cardinality(S2) <= Cardinality(S1) /\ Cardinality(E1) <= Cardinality(E2)
        BY <2>1, <2>2, SmallerSet
    <2>5. \A T \in {S1, S2, E1, E2} : Cardinality(T) \in Nat
        BY <2>1, <2>2, ObjectsFinite
    <2>6. Cardinality(S2) <= call[c].n /\ call[c].n <= Cardinality(E2)
        BY <2>3, <2>4, <2>5, CallNumbers
    <2>7. QED  BY <2>6 DEF S2, E2
<1>4. QED  BY <1>1, <1>2, <1>3 DEF Fits

(* A step that leaves the call its list, and the ghosts alone. *)
LEMMA SendingFits ==
    ASSUME NEW c \in Call, Fits(c), UNCHANGED <<driver, objects, seen>>,
           call[c].pc \in {"list", "remove"}, call'[c].pc = Sent(call[c].pc),
           call'[c].op = call[c].op, call'[c].mark = call[c].mark,
           call'[c].more = call[c].more, call'[c].keys = call[c].keys,
           call'[c].n = call[c].n
    PROVE  Fits(c)'
BY DEF Fits, Sent, Ended

(* The next page covers what the pages so far have not. *)
LEMMA PageCovers ==
    ASSUME objects \subseteq Object, NEW mark \in 0 .. Objects, NEW S \in SUBSET objects,
           NEW keys, \A o \in S : o \in keys \/ o >= mark
    PROVE  \A o \in S : \/ o \in keys \cup PageFrom(mark)
                        \/ IsTruncated(mark) /\ o >= NextPageToken(mark)
<1> SUFFICES ASSUME NEW o \in S, o \notin keys, o \notin PageFrom(mark)
             PROVE  IsTruncated(mark) /\ o >= NextPageToken(mark)
    OBVIOUS
<1>1. o \in Ahead(mark)
    BY DEF Ahead
<1>2. IsTruncated(mark)
    BY <1>1 DEF IsTruncated
<1>3. o \in Int /\ NextPageToken(mark) \in Int /\ ~(o < NextPageToken(mark))
    <2>1. o \in Int
        BY SizeAssumption DEF Object
    <2>2. QED  BY <2>1, <1>1, <1>2, TokenLeadsOn
<1>4. QED  BY <1>2, <1>3

(* And a count that adds the page up stays between its bounds. *)
LEMMA PageCounts ==
    ASSUME objects \subseteq Object, NEW mark \in 0 .. Objects,
           NEW S \in SUBSET objects, NEW E \in SUBSET Object, objects \subseteq E,
           NEW n \in Nat,
           Cardinality(Upto(S, mark)) <= n, n <= Cardinality(Upto(E, mark)),
           NEW m \in 0 .. Objects, m >= mark,
           PageFrom(mark) = Upto(Ahead(mark), m)
    PROVE  /\ Cardinality(Upto(S, m)) <= n + Cardinality(PageFrom(mark))
           /\ n + Cardinality(PageFrom(mark)) <= Cardinality(Upto(E, m))
<1> DEFINE S1 == Upto(S, mark)  S2 == Upto(S, m)
           E1 == Upto(E, mark)  E2 == Upto(E, m)
           P == PageFrom(mark)
<1>1. \A o \in Object : o \in Int
    BY SizeAssumption DEF Object
<1>2. P \in SUBSET Object /\ S2 \in SUBSET (S1 \cup P)
    <2>1. ASSUME NEW o \in S2, o \notin S1 PROVE o \in P
        <3>1. o \in S /\ o \in Int /\ o >= mark /\ o < m
            BY <1>1, <2>1 DEF Upto
        <3>2. QED  BY <3>1 DEF Upto, Ahead
    <2>2. QED  BY <2>1, PageTyped
<1>3. (E1 \cup P) \in SUBSET E2 /\ E1 \cap P = {}
    <2>1. ASSUME NEW o \in E1 PROVE o \in E2 /\ o \notin P
        BY <1>1, <2>1 DEF Upto, Ahead
    <2>2. P \subseteq E2
        BY DEF Upto, Ahead
    <2>3. QED  BY <2>1, <2>2
<1>4. S1 \in SUBSET Object /\ E1 \in SUBSET Object /\ E2 \in SUBSET Object
    BY DEF Upto
<1>5. Cardinality(S1) <= n /\ n <= Cardinality(E1)
    OBVIOUS
<1> HIDE DEF S1, S2, E1, E2, P
<1>6. \A T \in {S1, E1, E2, P} : IsFiniteSet(T) /\ Cardinality(T) \in Nat
    BY <1>2, <1>4, ObjectsFinite
<1>7. /\ Cardinality(S1 \cup P) = Cardinality(S1) + Cardinality(P) - Cardinality(S1 \cap P)
      /\ Cardinality(E1 \cup P) = Cardinality(E1) + Cardinality(P) - Cardinality(E1 \cap P)
    BY <1>6, FS_Union
<1>8. /\ S1 \cup P \in SUBSET Object /\ S1 \cap P \in SUBSET Object /\ S2 \in SUBSET Object
    BY <1>2, <1>4
<1>9. /\ Cardinality(S2) <= Cardinality(S1 \cup P)
      /\ Cardinality(E1 \cup P) <= Cardinality(E2)
      /\ Cardinality(S1 \cap P) \in Nat /\ Cardinality(S2) \in Nat
      /\ Cardinality(E1 \cap P) = 0
    BY <1>2, <1>3, <1>4, <1>8, SmallerSet, ObjectsFinite, FS_EmptySet
<1>10. Cardinality(S2) <= n + Cardinality(P) /\ n + Cardinality(P) <= Cardinality(E2)
    BY <1>5, <1>6, <1>7, <1>9
<1>11. QED  BY <1>10 DEF S2, E2, P

-----------------------------------------------------------------------------
(* The steps of a call. *)

(* What a call that returns has done. *)
Delivers(c) == call'[c].pc = "done" /\ ~seen'[c].hidden =>
    /\ call[c].op = "delete" => seen[c].stayed \cap objects' = {}
    /\ call[c].op = "count" =>
           call'[c].n \in Cardinality(seen[c].stayed) .. Cardinality(seen[c].ever)

LEMMA GcsResult ==
    ASSUME Typed, NEW c \in Call,
           NEW page \in SUBSET Object, NEW more \in BOOLEAN,
           more => NextPageToken(call[c].mark) \in 0 .. Objects, GcsListed(c, page, more)
    PROVE  LET keys == call[c].keys \cup page IN
           \/ /\ more /\ call'[c].pc = "list" /\ call'[c].op = call[c].op
              /\ call'[c].keys = keys /\ call'[c].mark = NextPageToken(call[c].mark)
           \/ /\ ~more /\ call[c].op = "delete" /\ keys # {}
              /\ call'[c].pc = "remove" /\ call'[c].op = "delete" /\ call'[c].keys = keys
           \/ /\ ~more
              /\ call[c].op = "delete" => keys = {}
              /\ call'[c].pc = "done" /\ call'[c].n = Cardinality(keys)
<1> DEFINE keys == call[c].keys \cup page
           onward == [Answered(c) EXCEPT !.pc = "list", !.keys = keys,
                                         !.mark = NextPageToken(call[c].mark)]
           last == Finish(c, keys, Cardinality(keys))
<1>1. Become(c, IF more THEN onward ELSE last)
    BY DEF GcsListed
<1>2. keys \in SUBSET Object /\ call[c] \in CallType
    BY CallNumbers
<1> HIDE DEF keys
<1>3. onward \in CallType \/ ~more
    BY <1>2, AnsweredTyped DEF CallType, Typed
<1>4. last \in CallType
    BY <1>2, AnsweredTyped, ObjectsFinite DEF Typed
<1>5. CASE more
    <2>1. Become(c, onward) /\ onward \in CallType /\ onward.pc = "list"
        BY <1>1, <1>2, <1>3, <1>5 DEF Answered, CallType
    <2>2. onward.op = call[c].op /\ onward.keys = keys
          /\ onward.mark = NextPageToken(call[c].mark)
        BY <1>2 DEF Answered, CallType
    <2> HIDE DEF onward
    <2>3. call'[c] = onward
        BY <2>1, BecomeFacts DEF Typed
    <2>4. QED  BY <1>5, <2>1, <2>2, <2>3 DEF keys
<1>6. CASE ~more
    <2>1. Become(c, last)
        BY <1>1, <1>6
    <2>2. /\ last.op = call[c].op /\ last.keys = keys /\ last.n = Cardinality(keys)
          /\ last.pc = IF call[c].op = "delete" /\ keys # {} THEN "remove" ELSE "done"
        BY <1>2 DEF Finish, Answered, CallType
    <2> HIDE DEF last
    <2>3. CASE call[c].op = "delete" /\ keys # {}
        <3>1. call'[c] = last
            BY <1>4, <2>1, <2>2, <2>3, BecomeFacts DEF Typed
        <3>2. QED  BY <1>6, <2>2, <2>3, <3>1 DEF keys
    <2>4. CASE ~(call[c].op = "delete" /\ keys # {})
        <3>1. call'[c].pc = "done" /\ call'[c].n = Cardinality(keys)
            BY <1>4, <2>1, <2>2, <2>4, BecomeFacts DEF Typed
        <3>2. QED  BY <1>6, <2>4, <3>1 DEF keys
    <2>5. QED  BY <2>3, <2>4
<1>7. QED  BY <1>5, <1>6

LEMMA S3Result ==
    ASSUME Typed, NEW c \in Call,
           NEW page \in SUBSET Object, NEW more \in BOOLEAN,
           more => NextPageToken(call[c].mark) \in 0 .. Objects, S3Listed(c, page, more)
    PROVE  LET next == IF more THEN NextPageToken(call[c].mark) ELSE call[c].mark
               n == call[c].n + Cardinality(page)
           IN
           \/ /\ call[c].op = "delete" /\ page # {}
              /\ call'[c].pc = "remove" /\ call'[c].op = "delete" /\ call'[c].keys = page
              /\ call'[c].more = more /\ call'[c].mark = next
           \/ /\ call[c].op = "count" /\ more
              /\ call'[c].pc = "list" /\ call'[c].op = "count"
              /\ call'[c].keys = call[c].keys /\ call'[c].mark = next /\ call'[c].n = n
           \/ /\ call[c].op = "delete" => page = {}
              /\ call[c].op = "count" => ~more
              /\ call'[c].pc = "done" /\ call'[c].n = n
<1> DEFINE n == call[c].n + Cardinality(page)
           next == IF more THEN NextPageToken(call[c].mark) ELSE call[c].mark
           batch == [Answered(c) EXCEPT !.pc = "remove", !.keys = page,
                                        !.more = more, !.mark = next]
           onward == [Answered(c) EXCEPT !.pc = "list", !.n = n, !.mark = next]
           last == Finish(c, {}, n)
<1>1. Become(c, IF call[c].op = "delete" /\ page # {} THEN batch
                ELSE IF call[c].op = "count" /\ more THEN onward ELSE last)
    BY DEF S3Listed
<1>2. n \in Nat /\ next \in 0 .. Objects /\ call[c] \in CallType
    BY ObjectsFinite, CallNumbers
<1> HIDE DEF n, next
<1>3. batch \in CallType /\ onward \in CallType /\ last \in CallType
    BY <1>2, AnsweredTyped DEF CallType, Typed
<1>4. /\ batch.pc = "remove" /\ batch.op = call[c].op /\ batch.keys = page
      /\ batch.more = more /\ batch.mark = next
      /\ onward.pc = "list" /\ onward.op = call[c].op /\ onward.keys = call[c].keys
      /\ onward.mark = next /\ onward.n = n
      /\ last.pc = "done" /\ last.n = n
    BY <1>2 DEF Finish, Answered, CallType
<1> HIDE DEF batch, onward, last
<1>5. CASE call[c].op = "delete" /\ page # {}
    <2>1. Become(c, batch)
        BY <1>1, <1>5
    <2>2. call'[c] = batch
        BY <1>3, <1>4, <2>1, BecomeFacts DEF Typed
    <2>3. QED  BY <1>4, <1>5, <2>2 DEF next
<1>6. CASE call[c].op = "count" /\ more
    <2>1. Become(c, onward)
        BY <1>1, <1>6
    <2>2. call'[c] = onward
        BY <1>3, <1>4, <2>1, BecomeFacts DEF Typed
    <2>3. QED  BY <1>4, <1>6, <2>2 DEF next, n
<1>7. CASE ~(call[c].op = "delete" /\ page # {}) /\ ~(call[c].op = "count" /\ more)
    <2>1. Become(c, last)
        BY <1>1, <1>7
    <2>2. call'[c].pc = "done" /\ call'[c].n = n
        BY <1>3, <1>4, <2>1, BecomeFacts DEF Typed
    <2>3. QED  BY <1>7, <2>2 DEF n
<1>8. QED  BY <1>5, <1>6, <1>7

(* The ghosts of a call that goes on, when only it takes a step. *)
LEMMA QuietGhosts ==
    ASSUME Typed, NEW c \in Call, NEW deceived, See({}, {}, deceived)
    PROVE  /\ seen'[c].hidden <=> (seen[c].hidden \/ c \in deceived)
           /\ call'[c].pc \notin Ended =>
                 /\ seen'[c].stayed = seen[c].stayed
                 /\ call[c].op = "count" => seen'[c].ever = seen[c].ever
<1>1. seen'[c] = IF call'[c].pc \in Ended
                 THEN [stayed |-> {}, ever |-> {}, hidden |-> seen[c].hidden \/ c \in deceived]
                 ELSE [stayed |-> seen[c].stayed \ {},
                       ever |-> IF call[c].op = "count" THEN seen[c].ever \cup {} ELSE {},
                       hidden |-> seen[c].hidden \/ c \in deceived]
    BY DEF See
<1>2. CASE call'[c].pc \in Ended
    <2>1. seen'[c].hidden = (seen[c].hidden \/ c \in deceived)
        BY <1>1, <1>2
    <2>2. QED  BY <1>2, <2>1
<1>3. CASE call'[c].pc \notin Ended
    <2>1. seen'[c].hidden = (seen[c].hidden \/ c \in deceived)
        BY <1>1, <1>3
    <2>2. /\ seen'[c].stayed = seen[c].stayed
          /\ call[c].op = "count" => seen'[c].ever = seen[c].ever
        BY <1>1, <1>3
    <2>3. QED  BY <2>1, <2>2
<1>4. QED  BY <1>2, <1>3

LEMMA RemovingGhosts ==
    ASSUME Typed, NEW c \in Call, NEW gone, Remove(gone)
    PROVE  /\ seen'[c].hidden <=> seen[c].hidden
           /\ call'[c].pc \notin Ended => seen'[c].stayed = seen[c].stayed \ gone
<1>1. seen'[c] = IF call'[c].pc \in Ended
                 THEN [stayed |-> {}, ever |-> {}, hidden |-> seen[c].hidden \/ c \in {}]
                 ELSE [stayed |-> seen[c].stayed \ gone,
                       ever |-> IF call[c].op = "count" THEN seen[c].ever \cup {} ELSE {},
                       hidden |-> seen[c].hidden \/ c \in {}]
    BY DEF Remove, See
<1>2. seen'[c].hidden = (seen[c].hidden \/ c \in {})
    BY <1>1
<1>3. call'[c].pc \notin Ended => seen'[c].stayed = seen[c].stayed \ gone
    BY <1>1
<1>4. QED  BY <1>2, <1>3

LEMMA GcsListFits ==
    ASSUME Typed, NEW c \in Call, Fits(c), driver = "gcs", ListObjects(c)
    PROVE  Fits(c)' /\ Delivers(c)
<1> DEFINE mark == call[c].mark
           keys == call[c].keys \cup PageFrom(mark)
           stayed == seen[c].stayed
<1>1. /\ GcsListed(c, PageFrom(mark), IsTruncated(mark)) /\ UNCHANGED <<driver, objects>>
      /\ See({}, {}, {}) /\ call[c].pc = "listing"
    BY DEF ListObjects
<1>2. \/ /\ IsTruncated(mark) /\ call'[c].pc = "list" /\ call'[c].op = call[c].op
         /\ call'[c].keys = keys /\ call'[c].mark = NextPageToken(mark)
      \/ /\ ~IsTruncated(mark) /\ call[c].op = "delete" /\ keys # {}
         /\ call'[c].pc = "remove" /\ call'[c].op = "delete" /\ call'[c].keys = keys
      \/ /\ ~IsTruncated(mark)
         /\ call[c].op = "delete" => keys = {}
         /\ call'[c].pc = "done" /\ call'[c].n = Cardinality(keys)
    <2>1. /\ PageFrom(mark) \in SUBSET Object /\ IsTruncated(mark) \in BOOLEAN
          /\ IsTruncated(mark) => NextPageToken(mark) \in 0 .. Objects
        BY CallNumbers, PageTyped
    <2>2. QED  BY <1>1, <2>1, GcsResult
<1>3. /\ seen'[c].hidden <=> seen[c].hidden
      /\ call'[c].pc \notin Ended =>
            seen'[c].stayed = stayed /\ (call[c].op = "count" => seen'[c].ever = seen[c].ever)
    BY <1>1, QuietGhosts
<1>4. /\ stayed \subseteq objects
      /\ call[c].op = "count" => objects \subseteq seen[c].ever
                                 /\ call[c].keys \subseteq seen[c].ever
      /\ ~seen[c].hidden => \A o \in stayed : o \in call[c].keys \/ o >= mark
    BY <1>1 DEF Fits, Ended
<1>5. ~seen[c].hidden =>
          \A o \in stayed : o \in keys \/ (IsTruncated(mark) /\ o >= NextPageToken(mark))
    BY <1>4, CallNumbers, PageCovers
<1>6. PageFrom(mark) \subseteq objects
    BY CallNumbers, PageIsABeginning
<1>7. call[c].op = "count" => keys \subseteq seen[c].ever
    BY <1>4, <1>6
<1>8. keys \in SUBSET Object /\ stayed \in SUBSET Object /\ seen[c].ever \in SUBSET Object
    BY <1>6, CallNumbers
<1> HIDE DEF mark, keys, stayed
<1>9. CASE IsTruncated(mark)
    BY <1>1, <1>2, <1>3, <1>4, <1>5, <1>7, <1>9 DEF Fits, Ended, Delivers
<1>10. CASE ~IsTruncated(mark) /\ call'[c].pc = "remove"
    <2>1. Fits(c)'
        BY <1>1, <1>2, <1>3, <1>4, <1>5, <1>10 DEF Fits, Ended
    <2>2. QED  BY <2>1, <1>10 DEF Delivers
<1>11. CASE ~IsTruncated(mark) /\ call'[c].pc = "done"
    <2>1. Fits(c)'
        BY <1>11 DEF Fits, Ended
    <2>2. ~seen'[c].hidden => stayed \subseteq keys
        BY <1>3, <1>5, <1>11
    <2>3. ASSUME ~seen'[c].hidden, call[c].op = "count"
          PROVE  call'[c].n \in Cardinality(stayed) .. Cardinality(seen[c].ever)
        <3>1. stayed \in SUBSET keys /\ keys \in SUBSET seen[c].ever
            BY <2>2, <2>3, <1>7
        <3>2. /\ Cardinality(stayed) <= Cardinality(keys)
              /\ Cardinality(keys) <= Cardinality(seen[c].ever)
            BY <3>1, <1>8, SmallerSet
        <3>3. /\ Cardinality(stayed) \in Nat /\ Cardinality(keys) \in Nat
              /\ Cardinality(seen[c].ever) \in Nat
            BY <1>8, ObjectsFinite
        <3>4. QED  BY <3>2, <3>3, <1>2, <1>11
    <2>4. ASSUME ~seen'[c].hidden, call[c].op = "delete" PROVE stayed \cap objects' = {}
        BY <2>2, <2>4, <1>2, <1>11
    <2>5. QED  BY <2>1, <2>3, <2>4 DEF Delivers, stayed
<1>12. QED  BY <1>2, <1>9, <1>10, <1>11

LEMMA S3ListFits ==
    ASSUME Typed, NEW c \in Call, Fits(c), driver = "s3", ListObjects(c)
    PROVE  Fits(c)' /\ Delivers(c)
<1> DEFINE mark == call[c].mark
           page == PageFrom(mark)
           more == IsTruncated(mark)
           next == IF more THEN NextPageToken(mark) ELSE mark
           stayed == seen[c].stayed
           ever == seen[c].ever
           n == call[c].n + Cardinality(page)
<1>1. /\ S3Listed(c, page, more) /\ UNCHANGED <<driver, objects>>
      /\ See({}, {}, {}) /\ call[c].pc = "listing"
    BY DEF ListObjects
<1>2. \/ /\ call[c].op = "delete" /\ page # {}
         /\ call'[c].pc = "remove" /\ call'[c].op = "delete" /\ call'[c].keys = page
         /\ call'[c].more = more /\ call'[c].mark = next
      \/ /\ call[c].op = "count" /\ more
         /\ call'[c].pc = "list" /\ call'[c].op = "count"
         /\ call'[c].keys = call[c].keys /\ call'[c].mark = next /\ call'[c].n = n
      \/ /\ call[c].op = "delete" => page = {}
         /\ call[c].op = "count" => ~more
         /\ call'[c].pc = "done" /\ call'[c].n = n
    BY <1>1, CallNumbers, PageTyped, S3Result
<1>3. /\ seen'[c].hidden <=> seen[c].hidden
      /\ call'[c].pc \notin Ended =>
            seen'[c].stayed = stayed /\ (call[c].op = "count" => seen'[c].ever = ever)
    BY <1>1, QuietGhosts
<1>4. /\ stayed \subseteq objects
      /\ call[c].op = "count" => objects \subseteq ever
      /\ call[c].keys = {}
      /\ ~seen[c].hidden /\ call[c].op = "delete" =>
            \A o \in stayed : o \in call[c].keys \/ o >= mark
      /\ ~seen[c].hidden /\ call[c].op = "count" =>
            Cardinality(Upto(stayed, mark)) <= call[c].n
            /\ call[c].n <= Cardinality(Upto(ever, mark))
    BY <1>1 DEF Fits, Ended
<1>5. CASE call[c].op = "delete"
    <2>1. ~seen[c].hidden => \A o \in stayed : o \in page \/ (more /\ o >= next)
        BY <1>4, <1>5, CallNumbers, PageCovers
    <2>2. page = {} => Ahead(mark) = {} /\ ~more
        BY CallNumbers, PageIsABeginning DEF IsTruncated
    <2> HIDE DEF mark, page, more, next, stayed, ever, n
    <2>3. CASE page # {}
        <3>1. Fits(c)'
            BY <1>1, <1>2, <1>3, <1>4, <1>5, <2>1, <2>3 DEF Fits, Ended
        <3>2. QED  BY <1>2, <1>5, <2>3, <3>1 DEF Delivers
    <2>4. CASE page = {}
        <3>1. call'[c].pc = "done"
            BY <1>2, <1>5, <2>4
        <3>2. ~seen[c].hidden => stayed = {}
            BY <2>1, <2>2, <2>4
        <3>3. QED  BY <1>3, <1>5, <3>1, <3>2 DEF Fits, Ended, Delivers, stayed
    <2>5. QED  BY <2>3, <2>4
<1>6. CASE call[c].op = "count"
    <2> DEFINE m == IF more THEN next ELSE Objects
    <2>1. m \in 0 .. Objects /\ m >= mark
        BY NumberFacts, CallNumbers, TokenLeadsOn
    <2>2. page = Upto(Ahead(mark), m)
        <3>1. CASE more
            BY <3>1, CallNumbers, TokenLeadsOn, PageIsABeginning DEF Upto
        <3>2. CASE ~more
            <4>1. page = Ahead(mark) /\ Ahead(mark) \subseteq Object
                BY <3>2, CallNumbers, PageIsABeginning DEF IsTruncated
            <4>2. \A o \in Object : o < Objects
                BY NumberFacts DEF Object
            <4>3. QED  BY <3>2, <4>1, <4>2 DEF Upto
        <3>3. QED  BY <3>1, <3>2
    <2>3. stayed \in SUBSET objects /\ objects \subseteq ever /\ ever \in SUBSET Object
          /\ objects \subseteq Object /\ call[c].n \in Nat /\ mark \in 0 .. Objects
        BY <1>4, <1>6, CallNumbers
    <2>4. ASSUME ~seen[c].hidden
          PROVE  Cardinality(Upto(stayed, m)) <= n /\ n <= Cardinality(Upto(ever, m))
        <3> HIDE DEF m, stayed, ever, mark
        <3>1. QED  BY <1>4, <1>6, <2>1, <2>2, <2>3, <2>4, PageCounts
    <2> HIDE DEF mark, page, stayed, ever, n
    <2>5. CASE more
        <3>1. m = next /\ call'[c].pc = "list"
            BY <1>2, <1>6, <2>5
        <3>2. Fits(c)'
            <4> HIDE DEF m, next, more
            <4> QED
                BY <1>1, <1>2, <1>3, <1>4, <1>6, <2>3, <2>4, <2>5, <3>1 DEF Fits, Ended
        <3>3. QED  BY <3>1, <3>2 DEF Delivers
    <2>6. CASE ~more
        <3>1. m = Objects /\ call'[c].pc = "done" /\ call'[c].n = n
            BY <1>2, <1>6, <2>6
        <3>2. Upto(stayed, Objects) = stayed /\ Upto(ever, Objects) = ever
            <4>1. \A o \in Object : o < Objects
                BY NumberFacts DEF Object
            <4>2. stayed \subseteq Object /\ ever \subseteq Object
                BY <2>3
            <4>3. QED  BY <4>1, <4>2 DEF Upto
        <3>3. Cardinality(stayed) \in Nat /\ Cardinality(ever) \in Nat /\ n \in Nat
            <4>1. stayed \in SUBSET Object /\ page \in SUBSET Object
                BY <2>3, PageTyped DEF page
            <4>2. QED  BY <2>3, <4>1, ObjectsFinite DEF n
        <3>4. ~seen[c].hidden => n \in Cardinality(stayed) .. Cardinality(ever)
            BY <2>4, <3>1, <3>2, <3>3
        <3>5. QED  BY <1>3, <1>6, <3>1, <3>4 DEF Fits, Ended, Delivers, stayed, ever
    <2>7. QED  BY <2>5, <2>6
<1>7. QED  BY <1>5, <1>6, CallNumbers DEF CallType

LEMMA ListRefusedFits ==
    ASSUME Typed, NEW c \in Call, Fits(c), ListRefused(c)
    PROVE  Fits(c)' /\ Delivers(c)
<1>1. CASE Become(c, To(c, "failed"))
    <2>1. To(c, "failed") \in CallType /\ To(c, "failed").pc = "failed"
        BY CallNumbers DEF To, CallType
    <2>2. call'[c].pc = "failed"
        BY <1>1, <2>1, BecomeFacts DEF Typed
    <2>3. QED  BY <2>2 DEF Fits, Ended, Delivers
<1>2. CASE driver = "gcs" /\ GcsListed(c, {}, FALSE) /\ See({}, {}, {c})
    <2>1. /\ seen'[c].hidden
          /\ call'[c].pc \notin Ended =>
                /\ seen'[c].stayed = seen[c].stayed
                /\ call[c].op = "count" => seen'[c].ever = seen[c].ever
        BY <1>2, QuietGhosts
    <2>2. /\ call'[c].pc \in {"remove", "done"}
          /\ call'[c].pc = "remove" => call[c].op = "delete" /\ call'[c].op = "delete"
        <3> DEFINE page == {}
        <3>1. page \in SUBSET Object
            OBVIOUS
        <3>2. GcsListed(c, page, FALSE)
            BY <1>2
        <3> HIDE DEF page
        <3>3. QED  BY <3>1, <3>2, GcsResult
    <2>3. call[c].pc = "listing" /\ UNCHANGED <<driver, objects>>
        BY DEF ListRefused
    <2>4. QED  BY <1>2, <2>1, <2>2, <2>3 DEF Fits, Ended, Delivers
<1>3. QED  BY <1>1, <1>2 DEF ListRefused

LEMMA DeleteOneFits ==
    ASSUME Typed, NEW c \in Call, Fits(c), DeleteOne(c)
    PROVE  Fits(c)' /\ Delivers(c)
<1> DEFINE k == First(call[c].keys)
           rest == call[c].keys \ {k}
           last == Finish(c, rest, call[c].n)
<1>1. /\ driver = "gcs" /\ call[c].pc = "removing" /\ UNCHANGED driver
      /\ Become(c, last) /\ Remove({k})
    BY DEF DeleteOne
<1>2. rest \in SUBSET Object /\ call[c].n \in Nat /\ call[c] \in CallType
    BY CallNumbers
<1>3. /\ seen[c].stayed \subseteq objects
      /\ call[c].op = "delete"
      /\ ~seen[c].hidden => seen[c].stayed \subseteq call[c].keys
    BY <1>1, <1>2 DEF Fits, Ended, CallType
<1> HIDE DEF rest, k
<1>4. /\ last \in CallType
      /\ last.op = call[c].op /\ last.keys = rest /\ last.more = FALSE
      /\ last.pc = IF rest # {} THEN "remove" ELSE "done"
    BY <1>2, <1>3, AnsweredTyped DEF Finish, Answered, CallType, Typed
<1> HIDE DEF last
<1>5. objects' = objects \ {k}
    BY <1>1 DEF Remove
<1>6. /\ seen'[c].hidden <=> seen[c].hidden
      /\ call'[c].pc \notin Ended => seen'[c].stayed = seen[c].stayed \ {k}
    BY <1>1, RemovingGhosts
<1>7. CASE rest # {}
    <2>1. call'[c] = last
        BY <1>1, <1>4, <1>7, BecomeFacts DEF Typed
    <2>2. ~seen'[c].hidden => seen'[c].stayed \subseteq call'[c].keys
        BY <1>3, <1>4, <1>6, <1>7, <2>1 DEF rest, Ended
    <2>3. QED
        BY <1>1, <1>3, <1>4, <1>5, <1>6, <1>7, <2>1, <2>2 DEF Fits, Ended, Delivers
<1>8. CASE rest = {}
    <2>1. call'[c].pc = "done"
        BY <1>1, <1>4, <1>8, BecomeFacts DEF Typed
    <2>2. ~seen'[c].hidden => seen[c].stayed \cap objects' = {}
        BY <1>3, <1>5, <1>6, <1>8 DEF rest
    <2>3. QED  BY <1>3, <2>1, <2>2 DEF Fits, Ended, Delivers
<1>9. QED  BY <1>7, <1>8

LEMMA DeleteObjectsFits ==
    ASSUME Typed, NEW c \in Call, Fits(c), DeleteObjects(c) \/ DeleteSomeObjects(c)
    PROVE  Fits(c)' /\ Delivers(c)
<1> DEFINE r == [call[c] EXCEPT !.pc = IF call[c].more THEN "list" ELSE "done",
                                !.keys = {}, !.more = FALSE]
<1>1. driver = "s3" /\ call[c].pc = "removing" /\ UNCHANGED driver /\ Become(c, r)
    BY DEF DeleteObjects, DeleteSomeObjects
<1>2. call[c] \in CallType
    BY CallNumbers
<1>3. /\ r \in CallType
      /\ r.op = call[c].op /\ r.keys = {} /\ r.mark = call[c].mark
      /\ r.pc = IF call[c].more THEN "list" ELSE "done"
    BY <1>2 DEF CallType
<1> HIDE DEF r
<1>4. /\ seen[c].stayed \subseteq objects
      /\ call[c].op = "delete"
      /\ ~seen[c].hidden =>
            \A o \in seen[c].stayed : o \in call[c].keys \/ (call[c].more /\ o >= call[c].mark)
    BY <1>1, <1>2 DEF Fits, Ended, CallType
<1>5. CASE DeleteObjects(c)
    <2>1. /\ objects' = objects \ call[c].keys
          /\ seen'[c].hidden <=> seen[c].hidden
          /\ call'[c].pc \notin Ended => seen'[c].stayed = seen[c].stayed \ call[c].keys
        BY <1>5, RemovingGhosts DEF DeleteObjects, Remove
    <2>2. CASE call[c].more
        <3>1. call'[c] = r /\ call'[c].pc = "list"
            BY <1>1, <1>3, <2>2, BecomeFacts DEF Typed
        <3>2. QED
            BY <1>1, <1>3, <1>4, <2>1, <2>2, <3>1 DEF Fits, Ended, Delivers
    <2>3. CASE ~call[c].more
        <3>1. call'[c].pc = "done"
            BY <1>1, <1>3, <2>3, BecomeFacts DEF Typed
        <3>2. ~seen'[c].hidden => seen[c].stayed \cap objects' = {}
            BY <1>4, <2>1, <2>3
        <3>3. QED  BY <1>4, <3>1, <3>2 DEF Fits, Ended, Delivers
    <2>4. QED  BY <2>2, <2>3
<1>6. CASE DeleteSomeObjects(c)
    <2>1. /\ UNCHANGED objects /\ seen'[c].hidden
          /\ call'[c].pc \notin Ended => seen'[c].stayed = seen[c].stayed
        BY <1>6, QuietGhosts DEF DeleteSomeObjects
    <2>2. CASE call[c].more
        <3>1. call'[c] = r /\ call'[c].pc = "list"
            BY <1>1, <1>3, <2>2, BecomeFacts DEF Typed
        <3>2. QED
            BY <1>1, <1>3, <1>4, <2>1, <3>1 DEF Fits, Ended, Delivers
    <2>3. CASE ~call[c].more
        <3>1. call'[c].pc = "done"
            BY <1>1, <1>3, <2>3, BecomeFacts DEF Typed
        <3>2. QED  BY <2>1, <3>1 DEF Fits, Ended, Delivers
    <2>4. QED  BY <2>2, <2>3
<1>7. QED  BY <1>5, <1>6

LEMMA FailureFits ==
    ASSUME Typed, NEW c \in Call, Become(c, To(c, "failed"))
    PROVE  Fits(c)' /\ Delivers(c)
<1>1. To(c, "failed") \in CallType /\ To(c, "failed").pc = "failed"
    BY CallNumbers DEF To, CallType
<1>2. call'[c].pc = "failed"
    BY <1>1, BecomeFacts DEF Typed
<1>3. QED  BY <1>2 DEF Fits, Ended, Delivers

LEMMA SendFits ==
    ASSUME Typed, NEW c \in Call, Fits(c), Send(c) \/ Exchanged(c),
           call[c].pc \in {"list", "remove"}
    PROVE  Fits(c)' /\ Delivers(c)
<1> DEFINE r == [call[c] EXCEPT !.pc = Sent(@), !.bearer = token.real]
           s == [call[c] EXCEPT !.pc = Sent(@), !.bearer = token.real, !.flight = 0]
<1>1. r \in CallType /\ s \in CallType
    BY CallNumbers, NumberFacts DEF CallType, Typed, Sent
<1>2. \A q \in {r, s} : /\ q.pc = Sent(call[c].pc) /\ q.op = call[c].op /\ q.mark = call[c].mark
                        /\ q.more = call[c].more /\ q.keys = call[c].keys /\ q.n = call[c].n
    BY CallNumbers DEF CallType
<1>3. (Become(c, r) \/ Become(c, s)) /\ UNCHANGED <<driver, objects, seen>>
    BY DEF Send, Exchanged
<1>4. Sent(call[c].pc) \in {"listing", "removing"}
    BY DEF Sent
<1> HIDE DEF r, s
<1>5. call'[c] \in {r, s}
    BY <1>1, <1>2, <1>3, <1>4, BecomeFacts DEF Typed
<1>6. Fits(c)'
    BY <1>2, <1>3, <1>5, SendingFits
<1>7. QED  BY <1>2, <1>4, <1>5, <1>6 DEF Delivers

(* Only requests of GCS bear a token. *)
HolderInv == holder # {} => driver = "gcs"

LEMMA HolderStep == HolderInv /\ [Next]_vars => HolderInv'
BY DEF HolderInv, Next, vars, CallStep, PutObject, Begin, Tick, Send, Exchange, Exchanged,
       ExchangeFails, ListObjects, ListRefused, DeleteOne, DeleteObjects, DeleteSomeObjects,
       RequestFails

(* What a step of c leaves of the others. *)
LEMMA CallStepLeaves ==
    ASSUME Typed, NEW c \in Call, CallStep(c)
    PROVE  /\ UNCHANGED driver
           /\ \A d \in Call \ {c} : call'[d] = call[d]
           /\ \E gone : /\ objects' = objects \ gone
                        /\ \/ gone = {} /\ seen' = seen
                           \/ \E deceived : See({}, gone, deceived)
<1> DEFINE Others == \A d \in Call \ {c} : call'[d] = call[d]
<1>1. ASSUME NEW r, Become(c, r) PROVE Others
    BY <1>1 DEF Become, Typed
<1> HIDE DEF Others
<1>2. CASE Send(c) \/ Exchange(c) \/ Exchanged(c)
    <2>1. Others /\ UNCHANGED driver /\ objects' = objects \ {} /\ seen' = seen
        BY <1>1, <1>2 DEF Send, Exchange, Exchanged, Others
    <2>2. QED  BY <2>1 DEF Others
<1>3. CASE ExchangeFails(c) \/ RequestFails(c) \/ DeleteSomeObjects(c)
    <2>1. /\ Others /\ UNCHANGED driver /\ objects' = objects \ {}
          /\ \E deceived : See({}, {}, deceived)
        BY <1>1, <1>3 DEF ExchangeFails, RequestFails, DeleteSomeObjects
    <2>2. QED  BY <2>1 DEF Others
<1>4. CASE ListObjects(c) \/ ListRefused(c)
    <2>1. /\ UNCHANGED driver /\ objects' = objects \ {}
          /\ \E deceived : See({}, {}, deceived)
        BY <1>4 DEF ListObjects, ListRefused
    <2>2. \E r : Become(c, r)
        BY <1>4 DEF ListObjects, ListRefused, GcsListed, S3Listed
    <2>3. QED  BY <1>1, <2>1, <2>2 DEF Others
<1>5. CASE DeleteOne(c) \/ DeleteObjects(c)
    <2>1. Others /\ UNCHANGED driver
        BY <1>1, <1>5 DEF DeleteOne, DeleteObjects
    <2>2. \E gone : Remove(gone)
        BY <1>5 DEF DeleteOne, DeleteObjects
    <2>3. QED  BY <2>1, <2>2 DEF Remove, Others
<1>6. QED  BY <1>2, <1>3, <1>4, <1>5 DEF CallStep

(* Every step of a call keeps all of them fit and delivers. *)
LEMMA CallStepFits ==
    ASSUME Typed, Typed', HolderInv, AgeInv, FitsInv, NEW c \in Call, CallStep(c)
    PROVE  FitsInv' /\ \A d \in Call : Running(d) => Delivers(d)
<1>1. Fits(c)
    BY DEF FitsInv
<1>2. Fits(c)' /\ Delivers(c)
    <2>1. CASE Send(c)
        BY <1>1, <2>1, SendFits DEF Send
    <2>2. CASE Exchange(c)
        BY <1>1, <2>2 DEF Exchange, Fits, Ended, Delivers
    <2>3. CASE Exchanged(c)
        <3>1. call[c].pc \in {"list", "remove"}
            BY <2>3 DEF Exchanged, HolderInv, AgeInv
        <3>2. QED  BY <1>1, <2>3, <3>1, SendFits
    <2>4. CASE ListObjects(c)
        BY <1>1, <2>4, GcsListFits, S3ListFits DEF Typed
    <2>5. QED
        BY <1>1, <2>1, <2>2, <2>3, <2>4, ListRefusedFits, DeleteOneFits,
           DeleteObjectsFits, FailureFits
        DEF CallStep, ExchangeFails, RequestFails
<1>3. PICK gone : /\ objects' = objects \ gone
                  /\ \/ gone = {} /\ seen' = seen
                     \/ \E deceived : See({}, gone, deceived)
    BY CallStepLeaves
<1>4. ASSUME NEW d \in Call, d # c
      PROVE  Fits(d)' /\ (Running(d) => Delivers(d))
    <2>1. UNCHANGED driver /\ call'[d] = call[d] /\ Fits(d)
        BY <1>4, CallStepLeaves DEF FitsInv
    <2>2. Running(d) => Delivers(d)
        BY <2>1 DEF Running, Delivers, Ended
    <2> DEFINE come == {}
    <2>3. objects' = (objects \cup come) \ gone
        BY <1>3
    <2>4. call[d].pc \notin Ended =>
              /\ seen[d].hidden => seen'[d].hidden
              /\ seen'[d].stayed = seen[d].stayed \ gone
              /\ call[d].op = "count" => seen'[d].ever = seen[d].ever \cup come
        <3>1. CASE gone = {} /\ seen' = seen
            BY <3>1
        <3>2. ASSUME NEW deceived, See({}, gone, deceived), call[d].pc \notin Ended
              PROVE  /\ seen[d].hidden => seen'[d].hidden
                     /\ seen'[d].stayed = seen[d].stayed \ gone
                     /\ call[d].op = "count" => seen'[d].ever = seen[d].ever \cup come
            <4>1. seen'[d] = [stayed |-> seen[d].stayed \ gone,
                              ever |-> IF call[d].op = "count" THEN seen[d].ever \cup {} ELSE {},
                              hidden |-> seen[d].hidden \/ d \in deceived]
                BY <2>1, <3>2 DEF See
            <4>2. seen'[d].hidden = (seen[d].hidden \/ d \in deceived)
                BY <4>1
            <4>3. /\ seen'[d].stayed = seen[d].stayed \ gone
                  /\ call[d].op = "count" => seen'[d].ever = seen[d].ever \cup come
                BY <4>1
            <4>4. QED  BY <4>2, <4>3
        <3>3. QED  BY <1>3, <3>1, <3>2
    <2> HIDE DEF come
    <2>5. Fits(d)'
        BY <2>1, <2>3, <2>4, OthersFit
    <2>6. QED  BY <2>2, <2>5
<1>5. QED  BY <1>2, <1>4 DEF FitsInv

LEMMA FitsStep ==
    Typed /\ Typed' /\ HolderInv /\ AgeInv /\ FitsInv /\ [Next]_vars =>
        FitsInv' /\ \A c \in Call : Running(c) => Delivers(c)
<1> SUFFICES ASSUME Typed, Typed', HolderInv, AgeInv, FitsInv, [Next]_vars
             PROVE  FitsInv' /\ \A c \in Call : Running(c) => Delivers(c)
    OBVIOUS
<1>1. ASSUME NEW o \in Object, PutObject(o)
      PROVE  FitsInv' /\ \A c \in Call : Running(c) => Delivers(c)
    <2> SUFFICES ASSUME NEW c \in Call PROVE Fits(c)' /\ (Running(c) => Delivers(c))
        BY DEF FitsInv
    <2>1. UNCHANGED driver /\ call'[c] = call[c] /\ Fits(c)
        BY <1>1 DEF PutObject, FitsInv
    <2> DEFINE gone == {}
    <2>2. objects' = (objects \cup {o}) \ gone
        BY <1>1 DEF PutObject
    <2>3. call[c].pc \notin Ended =>
              /\ seen[c].hidden => seen'[c].hidden
              /\ seen'[c].stayed = seen[c].stayed \ gone
              /\ call[c].op = "count" => seen'[c].ever = seen[c].ever \cup {o}
        BY <1>1, <2>1 DEF PutObject, See
    <2> HIDE DEF gone
    <2>4. Fits(c)'
        BY <2>1, <2>2, <2>3, OthersFit
    <2>5. QED  BY <2>1, <2>4 DEF Running, Delivers, Ended
<1>2. ASSUME NEW c \in Call, NEW op \in {"delete", "count"}, Begin(c, op)
      PROVE  FitsInv' /\ \A d \in Call : Running(d) => Delivers(d)
    <2> DEFINE r == [NoCall EXCEPT !.op = op, !.pc = "list"]
    <2>1. /\ r \in CallType /\ r.pc = "list" /\ r.op = op
          /\ r.mark = 0 /\ r.keys = {} /\ r.n = 0
        BY NoCallTyped DEF CallType, NoCall
    <2>2. Become(c, r) /\ UNCHANGED <<driver, objects>>
        BY <1>2 DEF Begin
    <2> HIDE DEF r
    <2>3. call'[c] = r /\ \A d \in Call \ {c} : call'[d] = call[d]
        BY <2>1, <2>2, BecomeFacts DEF Typed
    <2>4. /\ seen'[c].stayed = objects /\ (op = "count" => seen'[c].ever = objects)
          /\ \A d \in Call \ {c} : seen'[d] = seen[d]
        BY <1>2 DEF Begin, Typed
    <2>5. Fits(c)'
        <3>1. \A o \in objects : o >= 0
            BY SizeAssumption DEF Typed, Object
        <3>2. Upto(objects, 0) = {} /\ Cardinality({}) = 0
            <4>1. \A o \in objects : ~(o < 0)
                BY SizeAssumption DEF Typed, Object
            <4>2. Upto(objects, 0) = {}
                BY <4>1 DEF Upto
            <4>3. QED  BY <4>2, FS_EmptySet
        <3>3. 0 <= 0
            OBVIOUS
        <3>4. QED  BY <2>1, <2>2, <2>3, <2>4, <3>1, <3>2, <3>3 DEF Fits
    <2>6. ASSUME NEW d \in Call, d # c PROVE Fits(d)'
        BY <2>2, <2>3, <2>4, <2>6 DEF FitsInv, Fits
    <2>7. \A d \in Call : call'[d].pc = "done" => ~Running(d)
        BY <2>1, <2>3 DEF Running, Ended
    <2>8. QED  BY <2>5, <2>6, <2>7 DEF FitsInv, Delivers
<1>3. CASE Tick
    <2>1. UNCHANGED <<driver, objects, seen>>
        BY <1>3 DEF Tick
    <2>2. ASSUME NEW c \in Call
          PROVE  /\ call'[c].pc = call[c].pc /\ call'[c].op = call[c].op
                 /\ call'[c].mark = call[c].mark /\ call'[c].more = call[c].more
                 /\ call'[c].keys = call[c].keys /\ call'[c].n = call[c].n
        <3>1. call'[c] = IF Waiting(c)
                         THEN [call[c] EXCEPT !.flight = @ + 1,
                                              !.bearer = IF @ > 0 THEN @ - 1 ELSE 0]
                         ELSE call[c]
            BY <1>3 DEF Tick
        <3>2. QED  BY <3>1, CallNumbers DEF CallType
    <2>3. \A c \in Call : Fits(c)'
        BY <2>1, <2>2 DEF FitsInv, Fits
    <2>4. QED  BY <2>2, <2>3 DEF FitsInv, Running, Delivers, Ended
<1>4. CASE UNCHANGED vars
    BY <1>4 DEF vars, FitsInv, Fits, Running, Delivers, Ended
<1>5. QED  BY <1>1, <1>2, <1>3, <1>4, CallStepFits DEF Next

LEMMA StoreStart == Init => AgeInv /\ HolderInv /\ FitsInv
BY DEF Init, AgeInv, Waiting, InFlight, NoCall, HolderInv, FitsInv, Fits, Ended

(* A DeleteFolder that returns nil, from which no error was hidden, has     *)
(* left nothing of what was in the folder when it began, whatever came and  *)
(* went meanwhile (gcs.go:279-290, s3.go:160-182).                          *)
THEOREM DeletionsLeaveNothing == Spec => DeleteIsComplete
<1>1. (\A c \in Call : Running(c) => Delivers(c)) =>
          [\A c \in Call : Returns(c, "delete") => seen[c].stayed \cap objects' = {}]_vars
    BY DEF Returns, Delivers
<1>2. QED
    BY TypedStart, TypedStep, AgeStep, HolderStep, FitsStep, StoreStart, <1>1, PTL
    DEF Spec, DeleteIsComplete

(* A CountFilesInFolder from which no error was hidden counts all that was  *)
(* there all along and nothing that never was (gcs.go:305-308,              *)
(* s3.go:215-230).                                                          *)
THEOREM CountsAreFair == Spec => CountInRange
<1>1. (\A c \in Call : Running(c) => Delivers(c)) =>
          [\A c \in Call : Returns(c, "count") =>
               call'[c].n \in Cardinality(seen[c].stayed) .. Cardinality(seen[c].ever)]_vars
    BY DEF Returns, Delivers
<1>2. QED
    BY TypedStart, TypedStep, AgeStep, HolderStep, FitsStep, StoreStart, <1>1, PTL
    DEF Spec, CountInRange
=============================================================================

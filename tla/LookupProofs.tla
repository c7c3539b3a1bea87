---------------------------- MODULE LookupProofs ----------------------------
(***************************************************************************)
(* Proofs about Lookup: no entry that stays is passed over, for any keys,  *)
(* scopes, tokens and number of saves, whatever LIKE finds and in whatever *)
(* order the scopes are searched; and the sort of the scopes is a stable   *)
(* one, for every token.                                                   *)
(***************************************************************************)
EXTENDS Lookup, TLAPS, WellFoundedInduction, FiniteSetTheorems, SequenceTheorems

(* The tables: identifiers are fresh, entries have one row each and refer   *)
(* to a location, and an entry that stayed kept its key and its scope.     *)
TableInv ==
    /\ entries \subseteq Row /\ kept \subseteq Row /\ saves \in Nat
    /\ \A e \in entries \cup kept : e.id <= saves /\ e.location <= saves
    /\ \A d, e \in entries : d.id = e.id => d = e
    /\ \A e \in entries : e.location \in locations
    /\ \A e \in kept : \E d \in entries :
           d.id = e.id /\ d.key = e.key /\ d.scope = e.scope

(* The lookup: no entry that stayed answers a question asked before. *)
SearchInv ==
    /\ pos \in [s : Int, k : Int, exact : BOOLEAN]
    /\ pc \notin {"idle"} => request.keys \in Seq(Key)
    /\ pc = "idle" => kept = {}
    /\ pc = "resolve" => \E e \in Row : match = {e}
    /\ pc = "search" =>
           \A e \in kept, q \in Position : Answers(q, e) => ~Earlier(q, pos)

Inv == TableInv /\ SearchInv /\ NothingPassedOver /\ NotFoundOnlyIfTouched

-----------------------------------------------------------------------------
(* Positions are numbered by the loops: nothing lies between a position and *)
(* the one that follows it,                                                *)
LEMMA NothingBetween ==
    ASSUME request.keys \in Seq(Key), NEW p \in [s : Int, k : Int, exact : BOOLEAN],
           NEW q \in Position, Earlier(q, Following(p))
    PROVE  Earlier(q, p) \/ q = p
<1>1. Len(request.keys) \in Nat
    OBVIOUS
<1>2. q.s \in Int /\ q.k \in Int /\ q.exact \in BOOLEAN /\ q.k <= Len(request.keys)
    BY <1>1 DEF Position
<1>3. q = [s |-> q.s, k |-> q.k, exact |-> q.exact] /\ p = [s |-> p.s, k |-> p.k, exact |-> p.exact]
    BY DEF Position
<1>4. CASE p.exact
    <2>1. Following(p).s = p.s /\ Following(p).k = p.k /\ Following(p).exact = FALSE
        BY <1>4 DEF Following
    <2>. QED
        BY <1>2, <1>3, <1>4, <2>1 DEF Earlier
<1>5. CASE ~p.exact /\ p.k < Len(request.keys)
    <2>1. Following(p) = [s |-> p.s, k |-> p.k + 1, exact |-> TRUE]
        BY <1>5 DEF Following
    <2>. QED
        BY <1>2, <1>3, <1>5, <2>1 DEF Earlier
<1>6. CASE ~p.exact /\ ~(p.k < Len(request.keys))
    <2>1. Following(p) = [s |-> p.s + 1, k |-> 1, exact |-> TRUE]
        BY <1>6 DEF Following
    <2>. QED
        BY <1>1, <1>2, <1>3, <1>6, <2>1 DEF Earlier, Position
<1>. QED
    BY <1>4, <1>5, <1>6

(* and nothing after the last one.                                         *)
LEMMA NothingAfterLast ==
    ASSUME request.keys \in Seq(Key), NEW p \in [s : Int, k : Int, exact : BOOLEAN],
           IsLast(p), NEW q \in Position
    PROVE  Earlier(q, p) \/ q = p
<1>1. q.s \in Int /\ q.s <= p.s /\ q.k \in Int /\ q.k <= p.k /\ q.exact \in BOOLEAN
    BY DEF Position, IsLast
<1>2. q = [s |-> q.s, k |-> q.k, exact |-> q.exact] /\ p = [s |-> p.s, k |-> p.k, exact |-> p.exact]
    BY DEF Position
<1>. QED
    BY <1>1, <1>2 DEF Earlier, IsLast

(* An entry that stayed and answers a question has a row that answers it. *)
LEMMA StayedAnswers ==
    ASSUME TableInv, NEW e \in kept, NEW q, Answers(q, e)
    PROVE  \E d \in entries : Answers(q, d)
BY DEF TableInv, Answers

-----------------------------------------------------------------------------
(* A step of the tables takes rows from those kept and adds none to those   *)
(* that are kept and unchanged; the lookup stays where it is.              *)
LEMMA TableChange ==
    ASSUME Inv, TableInv', UNCHANGED lookup, kept' \subseteq kept, pc \notin Ended,
           kept' \cap entries' \subseteq kept \cap entries
    PROVE  Inv'
<1>1. SearchInv'
    BY DEF Inv, SearchInv, lookup, Position, Answers, Earlier
<1>2. NothingPassedOver'
    BY DEF Inv, NothingPassedOver, lookup, Position, Answers, Earlier
<1>3. NotFoundOnlyIfTouched'
    BY DEF NotFoundOnlyIfTouched, lookup, Ended
<1>. QED
    BY <1>1, <1>2, <1>3 DEF Inv

(* INSERT of a row with a fresh identifier and a fresh location. *)
LEMMA InsertStep ==
    ASSUME Inv, pc \notin Ended, NEW k \in Key, NEW s \in ScopeName,
           NEW t \in 0 .. MaxTime, InsertCacheEntry(k, s, t)
    PROVE  Inv'
<1> DEFINE n == saves + 1
           row == [id |-> n, key |-> k, scope |-> s, updatedAt |-> t, location |-> n]
<1>1. saves \in Nat /\ n \in Save /\ n > saves /\ row \in Row
    BY BoundAssumption DEF Inv, TableInv, InsertCacheEntry, Save, Row
<1>2. entries' = entries \cup {row} /\ kept' = kept /\ saves' = n
      /\ locations' = locations \cup {n} /\ UNCHANGED lookup
    BY DEF InsertCacheEntry
<1>3. \A e \in entries \cup kept : e.id \in Int /\ e.location \in Int
                                   /\ e.id <= saves /\ e.location <= saves
    BY DEF Inv, TableInv, Row, Save
<1>4. row \notin kept /\ row \notin entries
    BY <1>1, <1>3
<1>5. TableInv'
    <2>1. entries' \subseteq Row /\ kept' \subseteq Row /\ saves' \in Nat
        BY <1>1, <1>2 DEF Inv, TableInv
    <2>2. \A e \in entries' \cup kept' : e.id <= saves' /\ e.location <= saves'
        BY <1>1, <1>2, <1>3
    <2>3. \A d, e \in entries' : d.id = e.id => d = e
        BY <1>1, <1>2, <1>3 DEF Inv, TableInv
    <2>4. \A e \in entries' : e.location \in locations'
        BY <1>2 DEF Inv, TableInv
    <2>5. \A e \in kept' : \E d \in entries' :
              d.id = e.id /\ d.key = e.key /\ d.scope = e.scope
        BY <1>2 DEF Inv, TableInv
    <2>. QED
        BY <2>1, <2>2, <2>3, <2>4, <2>5 DEF TableInv
<1>. QED
    BY <1>2, <1>4, <1>5, TableChange

(* UPDATE of a row: same identifier, key and scope, a fresh location. *)
LEMMA UpdateStep ==
    ASSUME Inv, pc \notin Ended, NEW x \in entries, NEW t \in 0 .. MaxTime,
           UpdateCacheEntryLocation(x, t)
    PROVE  Inv'
<1> DEFINE n == saves + 1
<1>1. saves \in Nat /\ n \in Save /\ n > saves /\ x \in Row
    BY BoundAssumption DEF Inv, TableInv, UpdateCacheEntryLocation, Save
<1>2. PICK row \in Row :
          /\ row = [x EXCEPT !.updatedAt = t, !.location = n]
          /\ row.id = x.id /\ row.key = x.key /\ row.scope = x.scope
          /\ row.location = n
    <2>1. [x EXCEPT !.updatedAt = t, !.location = n] \in Row
        BY <1>1 DEF Row
    <2>2. /\ [x EXCEPT !.updatedAt = t, !.location = n].id = x.id
          /\ [x EXCEPT !.updatedAt = t, !.location = n].key = x.key
          /\ [x EXCEPT !.updatedAt = t, !.location = n].scope = x.scope
          /\ [x EXCEPT !.updatedAt = t, !.location = n].location = n
        BY <1>1 DEF Row
    <2>. QED
        BY <2>1, <2>2
<1>3. entries' = (entries \ {x}) \cup {row} /\ kept' = kept /\ saves' = n
      /\ locations' = locations \cup {n} /\ UNCHANGED lookup
    BY <1>2 DEF UpdateCacheEntryLocation
<1>4. \A e \in entries \cup kept : e.id \in Int /\ e.location \in Int
                                   /\ e.id <= saves /\ e.location <= saves
    BY DEF Inv, TableInv, Row, Save
<1>5. row.id = x.id /\ row.key = x.key /\ row.scope = x.scope
      /\ row.location = n /\ row.location > saves
    BY <1>1, <1>2
<1>6. row \notin kept
    BY <1>1, <1>4, <1>5
<1>7. TableInv'
    <2>1. entries' \subseteq Row /\ kept' \subseteq Row /\ saves' \in Nat
        BY <1>1, <1>2, <1>3 DEF Inv, TableInv
    <2>2. \A e \in entries' \cup kept' : e.id <= saves' /\ e.location <= saves'
        BY <1>1, <1>3, <1>4, <1>5
    <2>3. \A d, e \in entries' : d.id = e.id => d = e
        BY <1>3, <1>5 DEF Inv, TableInv
    <2>4. \A e \in entries' : e.location \in locations'
        BY <1>2, <1>3 DEF Inv, TableInv
    <2>5. \A e \in kept' : \E d \in entries' :
              d.id = e.id /\ d.key = e.key /\ d.scope = e.scope
        BY <1>3, <1>5 DEF Inv, TableInv
    <2>. QED
        BY <2>1, <2>2, <2>3, <2>4, <2>5 DEF TableInv
<1>. QED
    BY <1>3, <1>6, <1>7, TableChange

(* DELETE, of a location with its entries or of an entry alone. *)
LEMMA DeleteStep ==
    ASSUME Inv, pc \notin Ended, entries' \subseteq entries,
           \A e \in entries' : e.location \in locations',
           kept' = Present(entries'), UNCHANGED <<saves, lookup>>
    PROVE  Inv'
<1>1. kept' \subseteq kept
    BY DEF Present
<1>2. \A e \in kept' : \E d \in entries' :
          d.id = e.id /\ d.key = e.key /\ d.scope = e.scope
    <2> SUFFICES ASSUME NEW e \in kept'
                 PROVE  \E d \in entries' : d.id = e.id /\ d.key = e.key /\ d.scope = e.scope
        OBVIOUS
    <2>1. PICK d \in entries' : d.id = e.id
        BY DEF Present
    <2>2. PICK c \in entries : c.id = e.id /\ c.key = e.key /\ c.scope = e.scope
        BY <1>1 DEF Inv, TableInv
    <2>3. c = d
        BY <2>1, <2>2 DEF Inv, TableInv
    <2>. QED
        BY <2>1, <2>2, <2>3
<1>3. TableInv'
    BY <1>1, <1>2 DEF Inv, TableInv
<1>. QED
    BY <1>1, <1>3, TableChange

-----------------------------------------------------------------------------
(* The steps of the lookup. *)

(* A lookup begins: every entry is there, and no question was asked. *)
LEMMA BeginStep ==
    ASSUME Inv, NEW by, NEW asked \in Tokens, NEW keys \in KeyLists,
           Begin(by, asked, keys)
    PROVE  Inv'
<1>1. keys \in Seq(Key) /\ request'.keys = keys /\ pc' = "search" /\ pos' = First
      /\ kept' = entries /\ UNCHANGED table
    BY KeyListAssumption DEF Begin
<1>2. TableInv'
    BY <1>1 DEF Inv, TableInv, table
<1>3. \A q \in Position' : ~Earlier(q, First)
    <2> SUFFICES ASSUME NEW q \in Position' PROVE ~Earlier(q, First)
        OBVIOUS
    <2>1. q.s >= 1 /\ q.k >= 1 /\ q.s \in Int /\ q.k \in Int
        BY DEF Position
    <2>. QED
        BY <2>1 DEF Earlier, First
<1>4. SearchInv'
    BY <1>1, <1>3 DEF SearchInv, First
<1>. QED
    BY <1>1, <1>2, <1>4 DEF Inv, NothingPassedOver, NotFoundOnlyIfTouched, Found

(* A row is found: no entry that stayed answers an earlier question. *)
LEMMA FindStep == ASSUME Inv, FindCacheEntry PROVE Inv'
<1>1. PICK m \in Newest(Hits) : match' = {m}
    BY DEF FindCacheEntry
<1>2. pc = "search" /\ pc' \in {"resolve", "hit"}
      /\ UNCHANGED <<table, request, order, pos, kept>>
    BY DEF FindCacheEntry
<1>3. TableInv' /\ SearchInv'
    <2>1. m \in Row
        BY DEF Newest, Hits, Inv, TableInv
    <2>. QED
        BY <1>1, <1>2, <2>1 DEF Inv, TableInv, SearchInv, table
<1>4. ASSUME NEW e \in kept, NEW q \in Position, Answers(q, e)
      PROVE  ~Earlier(q, pos) /\ (q = pos /\ e \in entries => e.updatedAt <= m.updatedAt)
    <2>1. ~Earlier(q, pos)
        BY <1>2, <1>4 DEF Inv, SearchInv
    <2>2. ASSUME q = pos, e \in entries PROVE e.updatedAt <= m.updatedAt
        BY <1>1, <1>4, <2>2 DEF Newest, Hits
    <2>. QED
        BY <2>1, <2>2
<1>5. NothingPassedOver'
    BY <1>1, <1>2, <1>4 DEF NothingPassedOver, Found, Position, Answers, Earlier, table
<1>. QED
    BY <1>2, <1>3, <1>5 DEF Inv, NotFoundOnlyIfTouched

(* No row: on to the question that follows, or out of questions. *)
LEMMA NoRowsStep == ASSUME Inv, FindNoRows PROVE Inv'
<1>1. pc = "search" /\ Hits = {} /\ UNCHANGED <<table, request, order, match, kept>>
    BY DEF FindNoRows
<1>2. request.keys \in Seq(Key) /\ pos \in [s : Int, k : Int, exact : BOOLEAN]
    BY <1>1 DEF Inv, SearchInv
<1>3. \A e \in kept : ~Answers(pos, e)
    BY <1>1, StayedAnswers DEF Inv, Hits
<1>4. ASSUME NEW e \in kept, NEW q \in Position, Answers(q, e)
      PROVE  ~Earlier(q, pos) /\ q # pos
    BY <1>1, <1>3, <1>4 DEF Inv, SearchInv
<1>5. TableInv'
    BY <1>1 DEF Inv, TableInv, table
<1>6. CASE IsLast(pos)
    <2>1. pc' = "none" /\ pos' = pos
        BY <1>6 DEF FindNoRows
    <2>2. \A e \in kept, q \in Position : ~Answers(q, e)
        BY <1>2, <1>4, <1>6, NothingAfterLast
    <2>. QED
        BY <1>1, <1>2, <1>5, <2>1, <2>2
        DEF Inv, SearchInv, NothingPassedOver, NotFoundOnlyIfTouched, Found, Position,
            Answers, table
<1>7. CASE ~IsLast(pos)
    <2>1. pc' = "search" /\ pos' = Following(pos)
        BY <1>7 DEF FindNoRows
    <2>2. pos' \in [s : Int, k : Int, exact : BOOLEAN]
        <3>1. pos.s \in Int /\ pos.k \in Int /\ pos.exact \in BOOLEAN
            BY <1>2
        <3>2. [pos EXCEPT !.exact = FALSE] \in [s : Int, k : Int, exact : BOOLEAN]
            BY <1>2
        <3>3. [s |-> pos.s, k |-> pos.k + 1, exact |-> TRUE] \in [s : Int, k : Int, exact : BOOLEAN]
            BY <3>1
        <3>4. [s |-> pos.s + 1, k |-> 1, exact |-> TRUE] \in [s : Int, k : Int, exact : BOOLEAN]
            BY <3>1
        <3>. QED
            BY <2>1, <3>2, <3>3, <3>4 DEF Following
    <2>3. \A e \in kept, q \in Position : Answers(q, e) => ~Earlier(q, pos')
        BY <1>2, <1>4, <2>1, NothingBetween
    <2>4. SearchInv'
        BY <1>1, <1>2, <2>1, <2>2, <2>3 DEF SearchInv, Position, Answers, Earlier, table
    <2>. QED
        BY <1>5, <2>1, <2>4 DEF Inv, NothingPassedOver, NotFoundOnlyIfTouched, Found
<1>. QED
    BY <1>6, <1>7

(* The location of the row found is there unless the entry was touched. *)
LEMMA ResolveStep == ASSUME Inv, GetStorageLocation PROVE Inv'
<1>1. pc = "resolve" /\ pc' \in {"hit", "signed", "notFound"}
      /\ UNCHANGED <<table, request, order, pos, match, kept>>
    BY DEF GetStorageLocation
<1>2. TableInv' /\ SearchInv' /\ NothingPassedOver'
    BY <1>1 DEF Inv, TableInv, SearchInv, NothingPassedOver, Found, Position, Answers,
                Earlier, table
<1>3. NotFoundOnlyIfTouched'
    <2>1. PICK e \in match : IF e.location \in locations THEN pc' \in {"hit", "signed"}
                                                         ELSE pc' = "notFound"
        BY DEF GetStorageLocation
    <2>. QED
        BY <1>1, <2>1 DEF Inv, TableInv, SearchInv, NotFoundOnlyIfTouched, table
<1>. QED
    BY <1>2, <1>3 DEF Inv

-----------------------------------------------------------------------------
(* Every step of the tables and of the lookup keeps the invariant. *)
LEMMA InvStep == Inv /\ [Next]_vars => Inv'
<1> SUFFICES ASSUME Inv, [Next]_vars PROVE Inv'
    OBVIOUS
<1>1. CASE TableStep
    <2>1. CASE SaveStep
        <3>1. ASSUME NEW t \in 0 .. MaxTime, NEW k \in Key, NEW asked \in Tokens,
                     NEW s \in WriteScope(asked), InsertCacheEntry(k, s, t)
              PROVE  Inv'
            <4>1. PICK i \in DOMAIN asked : s = asked[i].scope
                BY <3>1 DEF WriteScope
            <4>2. asked \in Seq(Scope)
                BY TokenAssumption
            <4>3. asked[i] \in Scope
                BY <4>2
            <4>4. s \in ScopeName
                BY <4>1, <4>3 DEF Scope
            <4>. QED
                BY <1>1, <3>1, <4>4, InsertStep DEF TableStep
        <3>2. ASSUME NEW t \in 0 .. MaxTime, NEW e \in entries,
                     UpdateCacheEntryLocation(e, t)
              PROVE  Inv'
            BY <1>1, <3>2, UpdateStep DEF TableStep
        <3>. QED
            BY <2>1, <3>1, <3>2 DEF SaveStep
    <2>2. ASSUME NEW l \in locations, DeleteStorageLocation(l) PROVE Inv'
        BY <1>1, <2>2, DeleteStep DEF TableStep, DeleteStorageLocation, Inv, TableInv
    <2>3. ASSUME NEW e \in entries, DeleteCacheEntry(e) PROVE Inv'
        BY <1>1, <2>3, DeleteStep DEF TableStep, DeleteCacheEntry, Inv, TableInv
    <2>. QED
        BY <1>1, <2>1, <2>2, <2>3 DEF TableStep
<1>2. ASSUME NEW asked \in Tokens, NEW keys \in KeyLists,
             TwirpGet(asked, keys) \/ MgmtMatch(asked, keys)
      PROVE  Inv'
    BY <1>2, BeginStep DEF TwirpGet, MgmtMatch
<1>3. CASE FindCacheEntry
    BY <1>3, FindStep
<1>4. CASE FindNoRows
    BY <1>4, NoRowsStep
<1>5. CASE GetStorageLocation
    BY <1>5, ResolveStep
<1>6. CASE LookupFails
    BY <1>6 DEF LookupFails, Inv, TableInv, SearchInv, NothingPassedOver,
                NotFoundOnlyIfTouched, Found, Position, Answers, Earlier, table
<1>7. CASE UNCHANGED vars
    BY <1>7 DEF vars, table, lookup, Inv, TableInv, SearchInv, NothingPassedOver,
                NotFoundOnlyIfTouched, Found, Position, Answers, Earlier
<1>. QED
    BY <1>1, <1>2, <1>3, <1>4, <1>5, <1>6, <1>7 DEF Next, Rest

(* The invariant holds of every behaviour. *)
THEOREM LookupInvariant == Spec => []Inv
<1>1. Init => Inv
    BY DEF Init, Inv, TableInv, SearchInv, NothingPassedOver, NotFoundOnlyIfTouched,
           Found, First
<1>. QED
    BY <1>1, InvStep, PTL DEF Spec

(* A lookup passes over no entry that is there all the time, whatever is    *)
(* saved, replaced or removed meanwhile (service.go:306-336).              *)
THEOREM StayingEntriesFound == Spec => []NothingPassedOver
BY LookupInvariant, PTL DEF Inv

(* A location is missing only when its entry was replaced or removed.       *)
THEOREM NotFoundIsNews == Spec => []NotFoundOnlyIfTouched
BY LookupInvariant, PTL DEF Inv

-----------------------------------------------------------------------------
(* The order of the scopes.  The sort is a recursive function over its      *)
(* rounds: that it exists, and what each round leaves, are inductions, here *)
(* by the least round for which it would not be so.                        *)

(* A set of natural numbers has a least one. *)
LEMMA LeastNat ==
    ASSUME NEW T \in SUBSET Nat, T # {}
    PROVE  \E n \in T : \A m \in T : n <= m
<1>. DEFINE upTo == {0 .. m : m \in T}
<1>1. upTo \subseteq FiniteSubsetsOf(Int) /\ upTo # {}
  <2>1. ASSUME NEW m \in T PROVE 0 .. m \in FiniteSubsetsOf(Int)
    <3>1. IsFiniteSet(0 .. m) /\ 0 .. m \in SUBSET Int
      BY FS_Interval
    <3>. QED
      BY <3>1 DEF FiniteSubsetsOf
  <2>. QED
    BY <2>1
<1>2. PICK A \in upTo : \A B \in upTo : ~(<<B, A>> \in StrictSubsetOrdering(Int))
  <2>. HIDE DEF upTo
  <2>. QED
    BY <1>1, WFMin, FS_StrictSubsetOrderingWellFounded
<1>3. PICK n \in T : A = 0 .. n
  BY <1>2
<1>4. ASSUME NEW m \in T PROVE n <= m
  <2>. SUFFICES ASSUME m < n PROVE FALSE
    OBVIOUS
  <2>1. (0 .. m) \subseteq A /\ (0 .. m) # A
    BY <1>3
  <2>2. <<0 .. m, A>> \in StrictSubsetOrdering(Int)
    BY <2>1, <1>3 DEF StrictSubsetOrdering
  <2>. QED
    BY <2>2, <1>2
<1>. QED
  BY <1>4

(* What round n leaves, from what the rounds before it left. *)
Round(asked, f, n) == IF n = 0 THEN <<>> ELSE InsertScope(asked, f[n - 1], n)

(* The rounds of the sort exist, as a function, and the last is its result. *)
LEMMA SortRounds ==
    ASSUME NEW asked, NEW N \in Nat, N = Len(asked)
    PROVE  \E g : /\ g = [n \in 0 .. N |-> Round(asked, g, n)]
                  /\ ScopesByPermissionDesc(asked) = g[N]
<1>. DEFINE Good(n) == \E g : g = [k \in 0 .. n |-> Round(asked, g, k)]
            T == {n \in Nat : ~Good(n)}
<1>1. T = {}
  <2>. SUFFICES ASSUME T # {} PROVE FALSE
    OBVIOUS
  <2>1. PICK n \in T : \A m \in T : n <= m
    <3>. HIDE DEF Good
    <3>. QED
     BY LeastNat
  <2>2. CASE n = 0
    <3>. DEFINE g == [k \in 0 .. 0 |-> <<>>]
    <3>1. g = [k \in 0 .. 0 |-> Round(asked, g, k)]
      BY DEF Round
    <3>. QED
      BY <2>1, <2>2, <3>1
  <2>3. CASE n # 0
    <3>1. n - 1 \in Nat /\ Good(n - 1)
      <4>. HIDE DEF Good
      <4>. QED
       BY <2>1, <2>3
    <3>2. PICK g : g = [k \in 0 .. n - 1 |-> Round(asked, g, k)]
      BY <3>1
    <3>. DEFINE h == [k \in 0 .. n |-> IF k = n THEN InsertScope(asked, g[n - 1], n) ELSE g[k]]
    <3>3. ASSUME NEW k \in 0 .. n PROVE h[k] = Round(asked, h, k)
      <4>1. k = 0 \/ h[k - 1] = g[k - 1]
        BY <2>1, <3>1
      <4>2. CASE k = n
        BY <2>1, <2>3, <4>1, <4>2 DEF Round
      <4>3. CASE k # n
        <5>1. g[k] = Round(asked, g, k)
          BY <2>1, <3>2, <4>3
        <5>. QED
          BY <2>1, <4>1, <4>3, <5>1 DEF Round
      <4>. QED
        BY <4>2, <4>3
    <3>4. h = [k \in 0 .. n |-> Round(asked, h, k)]
      BY <3>3
    <3>5. Good(n)
      <4>. HIDE DEF h
      <4>. QED
        BY <3>4
    <3>. QED
      BY <2>1, <3>5
  <2>. QED
    BY <2>2, <2>3
<1>2. Good(N)
  <2>. HIDE DEF Good
  <2>. QED
    BY <1>1
<1>. DEFINE f == CHOOSE g : g = [n \in 0 .. N |-> IF n = 0 THEN <<>> ELSE InsertScope(asked, g[n - 1], n)]
<1>3. f = [n \in 0 .. N |-> Round(asked, f, n)]
  BY <1>2 DEF Round
<1>4. ScopesByPermissionDesc(asked) = f[N]
  BY DEF ScopesByPermissionDesc
<1>. QED
  BY <1>3, <1>4

(* The first n scopes of a token, by permission, those of equal permission  *)
(* in the order of the token.                                              *)
Ranked(asked, n, sorted) ==
    /\ sorted \in Seq(1 .. n) /\ Len(sorted) = n
    /\ \A i \in 1 .. n : \E h \in 1 .. n : sorted[h] = i
    /\ \A h, i \in 1 .. n : h < i =>
           \/ asked[sorted[h]].permission > asked[sorted[i]].permission
           \/ /\ asked[sorted[h]].permission = asked[sorted[i]].permission
              /\ sorted[h] < sorted[i]

(* The place where the next scope goes: after those that are not smaller.   *)
LEMMA PlaceExists ==
    ASSUME NEW asked \in Seq(Scope), NEW n \in Nat, n < Len(asked),
           NEW sorted, Ranked(asked, n, sorted)
    PROVE  \E k \in 0 .. n :
               /\ k > 0 => asked[sorted[k]].permission >= asked[n + 1].permission
               /\ \A m \in k + 1 .. n : asked[sorted[m]].permission < asked[n + 1].permission
<1>. DEFINE p(m) == asked[sorted[m]].permission
            T == {k \in 0 .. n : \A m \in k + 1 .. n : p(m) < asked[n + 1].permission}
<1>0. /\ \A m \in 1 .. n : p(m) \in Nat
      /\ asked[n + 1].permission \in Nat
  <2>. HIDE DEF p
  <2>1. \A i \in 1 .. Len(asked) : asked[i] \in Scope
    OBVIOUS
  <2>2. \A i \in 1 .. Len(asked) : asked[i].permission \in Nat
    BY <2>1 DEF Scope
  <2>3. sorted \in Seq(1 .. n) /\ Len(sorted) = n
    BY DEF Ranked
  <2>4. \A m \in 1 .. n : sorted[m] \in 1 .. n
    BY <2>3
  <2>. QED
    BY <2>2, <2>4 DEF p
<1>1. n \in T /\ T \subseteq Nat
  OBVIOUS
<1>2. PICK k \in T : \A m \in T : k <= m
  <2>. HIDE DEF T
  <2>. QED
    BY <1>1, LeastNat
<1>3. ASSUME k > 0 PROVE p(k) >= asked[n + 1].permission
  <2>. SUFFICES ASSUME ~(p(k) >= asked[n + 1].permission) PROVE FALSE
    OBVIOUS
  <2>1. k \in 1 .. n /\ p(k) < asked[n + 1].permission
    BY <1>0, <1>3
  <2>2. \A m \in (k - 1) + 1 .. n : m = k \/ m \in k + 1 .. n
    BY <2>1
  <2>. HIDE DEF p
  <2>3. k - 1 \in T
    BY <2>1, <2>2
  <2>. QED
    BY <1>2, <2>1, <2>3
<1>. QED
  BY <1>2, <1>3

(* A sequence cut after the first k, with an element put in between. *)
Put(s, k, x) == SubSeq(s, 1, k) \o <<x>> \o SubSeq(s, k + 1, Len(s))

(* t is s with x put in after the first k. *)
IsPut(t, s, k, x) ==
    /\ Len(t) = Len(s) + 1
    /\ \A m \in 1 .. k : t[m] = s[m]
    /\ t[k + 1] = x
    /\ \A m \in k + 1 .. Len(s) : t[m + 1] = s[m]

(* Put does that. *)
LEMMA PutAfter ==
    ASSUME NEW S, NEW s \in Seq(S), NEW x \in S, NEW k \in 0 .. Len(s)
    PROVE  Put(s, k, x) \in Seq(S) /\ IsPut(Put(s, k, x), s, k, x)
<1>. DEFINE t == Put(s, k, x)
            a == SubSeq(s, 1, k)
            b == SubSeq(s, k + 1, Len(s))
            c == a \o <<x>>
<1>0. Len(s) \in Nat /\ \A m \in 1 .. Len(s) : s[m] \in S
  BY ElementOfSeq
<1>1. a \in Seq(S) /\ Len(a) = k /\ \A m \in 1 .. k : a[m] = s[m]
  <2>1. /\ a \in Seq(S) /\ Len(a) = IF 1 <= k THEN k - 1 + 1 ELSE 0
        /\ \A m \in 1 .. k - 1 + 1 : a[m] = s[1 + m - 1]
    BY <1>0, SubSeqProperties
  <2>. HIDE DEF a
  <2>2. \A m \in 1 .. k : m \in 1 .. k - 1 + 1 /\ 1 + m - 1 = m
    BY <1>0
  <2>. QED
    BY <1>0, <2>1, <2>2
<1>2. b \in Seq(S) /\ Len(b) = Len(s) - k /\ \A m \in 1 .. Len(s) - k : b[m] = s[k + m]
  <2>1. /\ b \in Seq(S) /\ Len(b) = IF k + 1 <= Len(s) THEN Len(s) - (k + 1) + 1 ELSE 0
        /\ \A m \in 1 .. Len(s) - (k + 1) + 1 : b[m] = s[k + 1 + m - 1]
    BY <1>0, SubSeqProperties
  <2>. HIDE DEF b
  <2>2. \A m \in 1 .. Len(s) - k : m \in 1 .. Len(s) - (k + 1) + 1 /\ k + 1 + m - 1 = k + m
    BY <1>0
  <2>3. ASSUME NEW m \in 1 .. Len(s) - k PROVE b[m] = s[k + m]
    <3>1. b[m] = s[k + 1 + m - 1]
      BY <2>1, <2>2
    <3>. QED
      BY <2>2, <3>1
  <2>4. Len(b) = Len(s) - k
    BY <1>0, <2>1
  <2>. QED
    BY <2>1, <2>3, <2>4
<1>3. t = c \o b
  BY DEF Put
<1>. HIDE DEF a, b, t
<1>4. c \in Seq(S) /\ Len(c) = k + 1 /\ c[k + 1] = x /\ \A m \in 1 .. k : c[m] = s[m]
  <2>1. <<x>> \in Seq(S) /\ Len(<<x>>) = 1 /\ <<x>>[1] = x
    OBVIOUS
  <2>2. /\ c \in Seq(S) /\ Len(c) = Len(a) + 1
        /\ \A m \in 1 .. Len(a) + 1 : c[m] = IF m <= Len(a) THEN a[m] ELSE <<x>>[m - Len(a)]
    BY <1>1, <2>1, ConcatProperties
  <2>. HIDE DEF c
  <2>3. c[k + 1] = <<x>>[1]
    BY <1>0, <1>1, <2>2
  <2>4. \A m \in 1 .. k : c[m] = a[m]
    BY <1>0, <1>1, <2>2
  <2>. QED
    BY <1>0, <1>1, <2>1, <2>2, <2>3, <2>4
<1>. HIDE DEF c
<1>5. /\ t \in Seq(S) /\ Len(t) = Len(c) + Len(b)
      /\ \A m \in 1 .. Len(c) + Len(b) : t[m] = IF m <= Len(c) THEN c[m] ELSE b[m - Len(c)]
  <2>1. b \in Seq(S) /\ c \in Seq(S)
    BY <1>2, <1>4
  <2>2. /\ c \o b \in Seq(S) /\ Len(c \o b) = Len(c) + Len(b)
        /\ \A m \in 1 .. Len(c) + Len(b) :
               (c \o b)[m] = IF m <= Len(c) THEN c[m] ELSE b[m - Len(c)]
    BY <2>1, ConcatProperties
  <2>. QED
    BY <1>3, <2>2
<1>6. ASSUME NEW m \in 1 .. k + 1 PROVE t[m] = c[m]
  <2>1. Len(c) = k + 1 /\ Len(b) = Len(s) - k
    BY <1>2, <1>4
  <2>2. m \in 1 .. Len(c) + Len(b) /\ m <= Len(c)
    BY <1>0, <2>1
  <2>3. t[m] = IF m <= Len(c) THEN c[m] ELSE b[m - Len(c)]
    BY <1>5, <2>2
  <2>. QED
    BY <2>2, <2>3
<1>7. ASSUME NEW m \in k + 1 .. Len(s) PROVE t[m + 1] = s[m]
  <2>1. /\ m - k \in 1 .. Len(s) - k /\ (m + 1) - (k + 1) = m - k /\ k + (m - k) = m
        /\ m + 1 \in 1 .. (k + 1) + (Len(s) - k) /\ ~(m + 1 <= k + 1)
    BY <1>0
  <2>2. t[m + 1] = b[m - k]
    BY <1>2, <1>4, <1>5, <2>1
  <2>3. b[m - k] = s[k + (m - k)]
    BY <1>2, <2>1
  <2>. QED
    BY <2>1, <2>2, <2>3
<1>8. Len(t) = Len(s) + 1
  <2>1. Len(c) = k + 1 /\ Len(b) = Len(s) - k /\ Len(t) = Len(c) + Len(b)
    BY <1>2, <1>4, <1>5
  <2>. QED
    BY <1>0, <2>1
<1>9. t[k + 1] = x
  <2>1. k + 1 \in 1 .. k + 1
    BY <1>0
  <2>2. t[k + 1] = c[k + 1]
    BY <1>6, <2>1
  <2>. QED
    BY <1>4, <2>2
<1>10. ASSUME NEW m \in 1 .. k PROVE t[m] = s[m]
  <2>1. m \in 1 .. k + 1
    BY <1>0
  <2>2. t[m] = c[m]
    BY <1>6, <2>1
  <2>. QED
    BY <1>4, <2>2
<1>11. t \in Seq(S)
  BY <1>5
<1>. QED
  BY <1>7, <1>8, <1>9, <1>10, <1>11 DEF t, IsPut

(* One round of the sort. *)
LEMMA RoundRanks ==
    ASSUME NEW asked \in Seq(Scope), NEW n \in Nat, n < Len(asked),
           NEW sorted, Ranked(asked, n, sorted)
    PROVE  Ranked(asked, n + 1, InsertScope(asked, sorted, n + 1))
<1>. DEFINE t == InsertScope(asked, sorted, n + 1)
            q(i) == asked[i].permission
            Place(k) == /\ k > 0 => q(sorted[k]) >= q(n + 1)
                        /\ \A m \in k + 1 .. n : q(sorted[m]) < q(n + 1)
<1>0. /\ sorted \in Seq(1 .. n) /\ Len(sorted) = n
      /\ \A m \in 1 .. n : sorted[m] \in 1 .. n
  <2>1. sorted \in Seq(1 .. n) /\ Len(sorted) = n
    BY DEF Ranked
  <2>. QED
    BY <2>1
<1>1. \A i \in 1 .. n + 1 : q(i) \in Nat
  <2>1. \A i \in 1 .. n + 1 : asked[i] \in Scope
    OBVIOUS
  <2>. QED
    BY <2>1 DEF Scope
<1>2. PICK k \in 0 .. n : Place(k) /\ t = SubSeq(sorted, 1, k) \o <<n + 1>> \o SubSeq(sorted, k + 1, n)
  <2>. DEFINE stop == CHOOSE k \in 0 .. n : Place(k)
  <2>1. \E k \in 0 .. n : Place(k)
    BY PlaceExists
  <2>2. stop \in 0 .. n /\ Place(stop)
    <3>. HIDE DEF Place
    <3>. QED
      BY <2>1
  <2>3. t = SubSeq(sorted, 1, stop) \o <<n + 1>> \o SubSeq(sorted, stop + 1, n)
    BY <1>0 DEF InsertScope
  <2>. HIDE DEF stop
  <2>. QED
    BY <2>2, <2>3
<1>. SUFFICES Ranked(asked, n + 1, t)
  OBVIOUS
<1>. HIDE DEF t, q
<1>3. /\ t \in Seq(1 .. n + 1) /\ Len(t) = Len(sorted) + 1
      /\ \A m \in 1 .. k : t[m] = sorted[m]
      /\ t[k + 1] = n + 1
      /\ \A m \in k + 1 .. Len(sorted) : t[m + 1] = sorted[m]
  <2>1. sorted \in Seq(1 .. n + 1)
    <3>1. sorted \in Seq(1 .. n) /\ 1 .. n \subseteq 1 .. n + 1
      BY <1>0
    <3>. QED
      BY <3>1, SeqMonotonic
  <2>2. n + 1 \in 1 .. n + 1 /\ k \in 0 .. Len(sorted)
    BY <1>0
  <2>3. t = Put(sorted, k, n + 1)
    BY <1>0, <1>2 DEF Put
  <2>4. Put(sorted, k, n + 1) \in Seq(1 .. n + 1) /\ IsPut(Put(sorted, k, n + 1), sorted, k, n + 1)
    BY <2>1, <2>2, PutAfter
  <2>5. t \in Seq(1 .. n + 1) /\ IsPut(t, sorted, k, n + 1)
    BY <2>3, <2>4
  <2>. QED
    BY <2>5 DEF IsPut
<1>4. Len(sorted) = n /\ \A m \in 1 .. n : sorted[m] \in 1 .. n
  BY <1>0
<1>5. Len(t) = n + 1 /\ t \in Seq(1 .. n + 1)
  BY <1>3, <1>4
<1>6. ASSUME NEW m \in 1 .. k PROVE t[m] = sorted[m]
  BY <1>3
<1>7. t[k + 1] = n + 1
  BY <1>3
<1>8. ASSUME NEW m \in k + 2 .. n + 1
      PROVE  m - 1 \in k + 1 .. n /\ t[m] = sorted[m - 1]
  <2>1. m - 1 \in k + 1 .. Len(sorted) /\ (m - 1) + 1 = m /\ m - 1 \in k + 1 .. n
    BY <1>4
  <2>2. t[(m - 1) + 1] = sorted[m - 1]
    BY <1>3, <2>1
  <2>. QED
    BY <2>1, <2>2
<1>9. ASSUME NEW i \in 1 .. n + 1 PROVE \E h \in 1 .. n + 1 : t[h] = i
  <2>1. CASE i = n + 1
    <3>1. k + 1 \in 1 .. n + 1
      OBVIOUS
    <3>. QED
      BY <1>7, <2>1, <3>1
  <2>2. CASE i # n + 1
    <3>1. i \in 1 .. n
      BY <2>2
    <3>2. PICK h \in 1 .. n : sorted[h] = i
      BY <3>1 DEF Ranked
    <3>3. CASE h <= k
      <4>1. h \in 1 .. k /\ h \in 1 .. n + 1
        BY <3>3
      <4>2. t[h] = sorted[h]
        BY <1>6, <4>1
      <4>. QED
        BY <3>2, <4>1, <4>2
    <3>4. CASE h > k
      <4>1. h + 1 \in k + 2 .. n + 1 /\ h + 1 \in 1 .. n + 1 /\ (h + 1) - 1 = h
        BY <3>4
      <4>2. t[h + 1] = sorted[(h + 1) - 1]
        BY <1>8, <4>1
      <4>. QED
        BY <3>2, <4>1, <4>2
    <3>. QED
      BY <3>3, <3>4
  <2>. QED
    BY <2>1, <2>2
<1>. DEFINE r(m) == q(sorted[m])
            Before(h, i) == r(h) > r(i) \/ (r(h) = r(i) /\ sorted[h] < sorted[i])
<1>10. \A h, i \in 1 .. n : h < i => Before(h, i)
  BY DEF Ranked, q
<1>11. /\ k > 0 => r(k) >= q(n + 1)
       /\ \A m \in k + 1 .. n : r(m) < q(n + 1)
       /\ \A m \in 1 .. n : r(m) \in Nat
       /\ q(n + 1) \in Nat
  <2>1. n + 1 \in 1 .. n + 1 /\ \A i \in 1 .. n : i \in 1 .. n + 1
    OBVIOUS
  <2>. QED
    BY <1>1, <1>2, <1>4, <2>1
<1>12. ASSUME NEW h \in 1 .. k PROVE h \in 1 .. n /\ r(h) >= q(n + 1)
  <2>1. k \in 1 .. n /\ h \in 1 .. n /\ r(k) >= q(n + 1) /\ r(h) \in Nat /\ r(k) \in Nat
    BY <1>11
  <2>2. h = k \/ r(h) >= r(k)
    <3>. HIDE DEF r
    <3>1. CASE h < k
      BY <1>10, <2>1, <3>1
    <3>2. CASE ~(h < k)
      BY <2>1, <3>2
    <3>. QED
      BY <3>1, <3>2
  <2>. HIDE DEF r
  <2>. QED
    BY <1>11, <2>1, <2>2
<1>13. ASSUME NEW h \in 1 .. n + 1, NEW i \in 1 .. n + 1, h < i
       PROVE  q(t[h]) > q(t[i]) \/ (q(t[h]) = q(t[i]) /\ t[h] < t[i])
  <2>1. CASE i <= k
    <3>1. h \in 1 .. k /\ i \in 1 .. k /\ h \in 1 .. n /\ i \in 1 .. n
      BY <1>13, <2>1
    <3>2. t[h] = sorted[h] /\ t[i] = sorted[i] /\ Before(h, i)
      <4>. HIDE DEF Before
      <4>. QED
        BY <1>6, <1>10, <1>13, <3>1
    <3>. QED
      BY <3>2
  <2>2. CASE h <= k /\ i = k + 1
    <3>1. h \in 1 .. k
      BY <2>2
    <3>2. t[h] = sorted[h] /\ t[i] = n + 1 /\ r(h) >= q(n + 1) /\ h \in 1 .. n
      BY <1>6, <1>7, <1>12, <2>2, <3>1
    <3>3. sorted[h] < n + 1 /\ r(h) \in Nat /\ q(n + 1) \in Nat
      BY <1>4, <1>11, <3>2
    <3>. QED
      BY <3>2, <3>3
  <2>3. CASE h <= k /\ i > k + 1
    <3>1. h \in 1 .. k /\ i \in k + 2 .. n + 1 /\ h \in 1 .. n
      BY <2>3
    <3>2. t[h] = sorted[h] /\ t[i] = sorted[i - 1] /\ i - 1 \in k + 1 .. n
      BY <1>6, <1>8, <3>1
    <3>3. i - 1 \in 1 .. n /\ h < i - 1
      BY <2>3, <3>1, <3>2
    <3>4. Before(h, i - 1)
      <4>. HIDE DEF Before
      <4>. QED
        BY <1>10, <3>1, <3>3
    <3>. QED
      BY <3>2, <3>4
  <2>4. CASE h = k + 1
    <3>1. i \in k + 2 .. n + 1
      BY <1>13, <2>4
    <3>2. t[h] = n + 1 /\ t[i] = sorted[i - 1] /\ i - 1 \in k + 1 .. n
      BY <1>7, <1>8, <2>4, <3>1
    <3>3. i - 1 \in 1 .. n /\ r(i - 1) < q(n + 1)
      BY <1>11, <3>2
    <3>4. r(i - 1) \in Nat /\ q(n + 1) \in Nat
      BY <1>11, <3>3
    <3>. QED
      BY <3>2, <3>3, <3>4
  <2>5. CASE h > k + 1
    <3>1. h \in k + 2 .. n + 1 /\ i \in k + 2 .. n + 1
      BY <1>13, <2>5
    <3>2. /\ t[h] = sorted[h - 1] /\ h - 1 \in k + 1 .. n
          /\ t[i] = sorted[i - 1] /\ i - 1 \in k + 1 .. n
      BY <1>8, <3>1
    <3>3. h - 1 \in 1 .. n /\ i - 1 \in 1 .. n /\ h - 1 < i - 1
      BY <1>13, <3>2
    <3>4. Before(h - 1, i - 1)
      <4>. HIDE DEF Before
      <4>. QED
        BY <1>10, <3>3
    <3>. QED
      BY <3>2, <3>4
  <2>. QED
    BY <2>1, <2>2, <2>3, <2>4, <2>5, <1>13
<1>14. \A i \in 1 .. n + 1 : \E h \in 1 .. n + 1 : t[h] = i
  BY <1>9
<1>15. \A h, i \in 1 .. n + 1 : h < i =>
          q(t[h]) > q(t[i]) \/ (q(t[h]) = q(t[i]) /\ t[h] < t[i])
  BY <1>13
<1>. QED
  BY <1>5, <1>14, <1>15 DEF Ranked, q

(* So the sort ranks the scopes. *)
LEMMA SortRanks ==
    ASSUME NEW asked \in Seq(Scope)
    PROVE  Ranked(asked, Len(asked), ScopesByPermissionDesc(asked))
<1>. DEFINE N == Len(asked)
<1>0. N \in Nat
  OBVIOUS
<1>1. PICK g : /\ g = [n \in 0 .. N |-> Round(asked, g, n)]
               /\ ScopesByPermissionDesc(asked) = g[N]
  BY <1>0, SortRounds
<1>. DEFINE T == {n \in 0 .. N : ~Ranked(asked, n, g[n])}
<1>2. T = {}
  <2>. SUFFICES ASSUME T # {} PROVE FALSE
    OBVIOUS
  <2>1. PICK n \in T : \A m \in T : n <= m
    <3>1. T \subseteq Nat
      BY <1>0
    <3>. HIDE DEF T
    <3>. QED
      BY <3>1, LeastNat
  <2>2. n \in 0 .. N /\ g[n] = Round(asked, g, n) /\ ~Ranked(asked, n, g[n])
    BY <1>1, <2>1
  <2>3. CASE n = 0
    <3>1. g[n] = <<>>
      BY <2>2, <2>3 DEF Round
    <3>. QED
      <4>1. Ranked(asked, 0, <<>>)
        <5>1. <<>> \in Seq(1 .. 0) /\ Len(<<>>) = 0
          BY EmptySeq
        <5>. QED
          BY <5>1 DEF Ranked
      <4>. QED
        BY <2>2, <2>3, <3>1, <4>1
  <2>4. CASE n # 0
    <3>1. n - 1 \in Nat /\ n - 1 < N /\ (n - 1) + 1 = n /\ n - 1 \in 0 .. N /\ ~(n <= n - 1)
      BY <1>0, <2>2, <2>4
    <3>2. Ranked(asked, n - 1, g[n - 1])
      BY <2>1, <3>1
    <3>3. g[n] = InsertScope(asked, g[n - 1], n)
      BY <2>2, <2>4 DEF Round
    <3>4. Ranked(asked, (n - 1) + 1, InsertScope(asked, g[n - 1], (n - 1) + 1))
      BY <3>1, <3>2, RoundRanks
    <3>. QED
      BY <2>2, <3>1, <3>3, <3>4
  <2>. QED
    BY <2>3, <2>4
<1>3. N \in 0 .. N
  BY <1>0
<1>. QED
  BY <1>1, <1>2, <1>3

(* A runner's scopes are well-formed and searched as the sort ranked them.  *)
OrderInv ==
    pc # "idle" /\ request.by = "runner" =>
        /\ request.asked \in Seq(Scope)
        /\ Ranked(request.asked, Len(request.asked), order)

(* Only the start of a lookup sets the order. *)
LEMMA OrderStep == ASSUME OrderInv, [Next]_vars PROVE OrderInv'
<1>1. CASE UNCHANGED <<request, order>> /\ (pc = "idle" => pc' = "idle")
  BY <1>1 DEF OrderInv, Ranked
<1>2. ASSUME NEW asked \in Tokens, NEW keys \in KeyLists, TwirpGet(asked, keys)
      PROVE  OrderInv'
  <2>1. asked \in Seq(Scope)
    BY TokenAssumption
  <2>2. Ranked(asked, Len(asked), ScopesByPermissionDesc(asked))
    BY <2>1, SortRanks
  <2>3. request'.asked = asked /\ order' = ScopesByPermissionDesc(asked)
    BY <1>2 DEF TwirpGet, Begin
  <2>4. request'.asked \in Seq(Scope)
    BY <2>1, <2>3
  <2>5. Ranked(request'.asked, Len(request'.asked), order')
    BY <2>2, <2>3
  <2>. QED
    BY <2>4, <2>5 DEF OrderInv, Ranked
<1>3. ASSUME NEW asked \in Tokens, NEW keys \in KeyLists, MgmtMatch(asked, keys)
      PROVE  OrderInv'
  <2>1. request'.by = "management"
    BY <1>3 DEF MgmtMatch, Begin
  <2>. QED
    BY <2>1 DEF OrderInv
<1>4. CASE TableStep
  BY <1>1, <1>4 DEF TableStep, SaveStep, InsertCacheEntry, UpdateCacheEntryLocation,
                    DeleteStorageLocation, DeleteCacheEntry, lookup
<1>5. CASE FindCacheEntry \/ FindNoRows \/ GetStorageLocation \/ LookupFails
  BY <1>1, <1>5 DEF FindCacheEntry, FindNoRows, GetStorageLocation, LookupFails
<1>6. CASE UNCHANGED vars
  BY <1>1, <1>6 DEF vars, lookup
<1>. QED
  BY <1>2, <1>3, <1>4, <1>5, <1>6 DEF Next, Rest

(* A runner's scopes are searched by permission, those of equal permission  *)
(* in the order of the token, each exactly once (scope.go:92-104): the     *)
(* stable sort is right for every token.                                   *)
THEOREM ScopesAreRanked == Spec => []ScopesRanked
<1>1. Init => OrderInv
  BY DEF Init, OrderInv
<1>2. OrderInv => ScopesRanked
  <2>. SUFFICES ASSUME OrderInv, pc # "idle", request.by = "runner"
                PROVE  ScopesRanked
    BY DEF ScopesRanked
  <2>. DEFINE asked == request.asked
              n == Len(asked)
  <2>1. asked \in Seq(Scope) /\ Ranked(asked, n, order)
    BY DEF OrderInv
  <2>2. n \in Nat /\ DOMAIN asked = 1 .. n
    BY <2>1
  <2>3. order \in Seq(1 .. n) /\ Len(order) = n
    BY <2>1 DEF Ranked
  <2>4. DOMAIN order = 1 .. n /\ \A i \in 1 .. n : order[i] \in 1 .. n
    BY <2>3
  <2>5. {order[i] : i \in DOMAIN order} = DOMAIN asked
    <3>1. \A i \in 1 .. n : \E h \in 1 .. n : order[h] = i
      BY <2>1 DEF Ranked
    <3>. QED
      BY <2>2, <2>4, <3>1
  <2>6. \A h, i \in 1 .. n : h < i =>
            \/ asked[order[h]].permission > asked[order[i]].permission
            \/ /\ asked[order[h]].permission = asked[order[i]].permission
               /\ order[h] < order[i]
    BY <2>1 DEF Ranked
  <2>. HIDE DEF n
  <2>. QED
    BY <2>4, <2>5, <2>6 DEF ScopesRanked
<1>3. OrderInv /\ [Next]_vars => OrderInv'
  BY OrderStep
<1>. QED
  BY <1>1, <1>2, <1>3, PTL DEF Spec
=============================================================================

----------------------------- MODULE CacheTable -----------------------------
(***************************************************************************)
(* What the two tables of the cache promise whoever reads them: an entry    *)
(* leads to one location, the location has a row, and no other entry leads  *)
(* there.  Saves, cleanup jobs and the management API may change the tables *)
(* in these five ways and in no other, and never two at once, although none *)
(* of them opens a transaction.                                            *)
(***************************************************************************)
EXTENDS TLAPS

CONSTANTS
    Entry,      \* ids of cache entries
    Location    \* ids of storage locations

VARIABLES
    locations,  \* rows of table storage_locations
    leadsTo     \* the location of every entry of table cache_entries

vars == <<locations, leadsTo>>

Known == DOMAIN leadsTo
Free(l) == \A e \in Known : leadsTo[e] # l

Init ==
    /\ locations = {}
    /\ leadsTo = [e \in {} |-> e]

AddLocation(l) ==
    /\ locations' = locations \cup {l}
    /\ UNCHANGED leadsTo

(* A new entry leads to a location nobody else knows, *)
AddEntry(e, l) ==
    /\ e \notin Known /\ l \in locations /\ Free(l)
    /\ leadsTo' = [d \in Known \cup {e} |-> IF d = e THEN l ELSE leadsTo[d]]
    /\ UNCHANGED locations

(* and so does an entry whose cache is saved again. *)
MoveEntry(e, l) ==
    /\ e \in Known /\ l \in locations /\ Free(l)
    /\ leadsTo' = [leadsTo EXCEPT ![e] = l]
    /\ UNCHANGED locations

(* A location takes the entry that leads there with it. *)
DropLocation(l) ==
    /\ locations' = locations \ {l}
    /\ leadsTo' = [e \in {d \in Known : leadsTo[d] # l} |-> leadsTo[e]]

DropEntry(e) ==
    /\ leadsTo' = [d \in Known \ {e} |-> leadsTo[d]]
    /\ UNCHANGED locations

Next ==
    \/ \E l \in Location : AddLocation(l) \/ DropLocation(l)
    \/ \E e \in Entry : DropEntry(e)
    \/ \E e \in Entry, l \in Location : AddEntry(e, l) \/ MoveEntry(e, l)

Spec == Init /\ [][Next]_vars

-----------------------------------------------------------------------------
Live == \A e \in Known : leadsTo[e] \in locations
Unshared == \A d, e \in Known : leadsTo[d] = leadsTo[e] => d = e

(* Whatever implements the table serves every entry from a location of its  *)
(* own that has a row (migrations.go:111, the foreign key, says the latter  *)
(* only).                                                                  *)
THEOREM EveryEntryServed == Spec => [](Live /\ Unshared)
<1>1. Init => Live /\ Unshared
  BY DEF Init, Live, Unshared, Known
<1>2. Live /\ Unshared /\ [Next]_vars => (Live /\ Unshared)'
  <2>. SUFFICES ASSUME Live, Unshared, [Next]_vars PROVE (Live /\ Unshared)'
    OBVIOUS
  <2>. USE DEF Live, Unshared, Known, Free
  <2>1. ASSUME NEW l \in Location, AddLocation(l) PROVE (Live /\ Unshared)'
    BY <2>1 DEF AddLocation
  <2>2. ASSUME NEW l \in Location, DropLocation(l) PROVE (Live /\ Unshared)'
    BY <2>2 DEF DropLocation
  <2>3. ASSUME NEW e \in Entry, DropEntry(e) PROVE (Live /\ Unshared)'
    BY <2>3 DEF DropEntry
  <2>4. ASSUME NEW e \in Entry, NEW l \in Location, AddEntry(e, l)
        PROVE  (Live /\ Unshared)'
    BY <2>4 DEF AddEntry
  <2>5. ASSUME NEW e \in Entry, NEW l \in Location, MoveEntry(e, l)
        PROVE  (Live /\ Unshared)'
    BY <2>5 DEF MoveEntry
  <2>6. CASE UNCHANGED vars
    BY <2>6 DEF vars
  <2>. QED
    BY <2>1, <2>2, <2>3, <2>4, <2>5, <2>6 DEF Next
<1>. QED
  BY <1>1, <1>2, PTL DEF Spec
=============================================================================

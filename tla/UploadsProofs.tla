---------------------------- MODULE UploadsProofs ----------------------------
(***************************************************************************)
(* What holds of Uploads for every number of sessions, keys, parts and      *)
(* retries, and for every choice of what may fail.                          *)
(*                                                                         *)
(* Three inductive invariants, one on top of the other.  RefInv: which      *)
(* entry may refer to which location; the finalize that inserted a location *)
(* remembers in its local existingLoc (here fin[l].old, itself when it      *)
(* found none) the only entry that can ever lead there.  From it follow the *)
(* refinement of CacheTable and ServedInv: a published key has an entry     *)
(* until somebody takes one.  RowInv and FolderInv: where rows, counts and  *)
(* parts of an upload come from and what can take them away.               *)
(***************************************************************************)
EXTENDS Uploads, FiniteSetTheorems, TLAPS

-----------------------------------------------------------------------------
(* Type correctness.                                                        *)

(* Assigning the step a finalize is at keeps its record typed. *)
LEMMA AdvanceType ==
    ASSUME TypeOK, NEW f \in Fin, NEW pc \in FinPCs, Advance(f, pc)
    PROVE  fin' \in [Fin -> FinType]
  BY DEF TypeOK, FinType, Advance

(* So do the upload it accepts and the number of parts, *)
LEMMA AcceptType ==
    ASSUME TypeOK, NEW f \in Fin, NEW pc \in FinPCs, NEW u \in Session, NEW n \in Nat
    PROVE  [fin EXCEPT ![f] = [@ EXCEPT !.pc = pc, !.up = u, !.parts = n]] \in [Fin -> FinType]
<1>0. fin[f] \in FinType
  BY DEF TypeOK
<1>1. [fin[f] EXCEPT !.pc = pc, !.up = u, !.parts = n] \in FinType
  BY <1>0 DEF FinType
<1>. QED
  BY <1>1 DEF TypeOK

(* and the entry and the location it finds. *)
LEMMA LookupType ==
    ASSUME TypeOK, NEW f \in Fin, NEW pc \in FinPCs, NEW e \in Fin, NEW l \in Fin
    PROVE  [fin EXCEPT ![f] = [@ EXCEPT !.pc = pc, !.old = e, !.oldLoc = l]] \in [Fin -> FinType]
<1>0. fin[f] \in FinType
  BY DEF TypeOK
<1>1. [fin[f] EXCEPT !.pc = pc, !.old = e, !.oldLoc = l] \in FinType
  BY <1>0 DEF FinType
<1>. QED
  BY <1>1 DEF TypeOK

(* A job that has listed a page, taken a victim or come to the end of a     *)
(* folder is typed again.                                                  *)
LEMMA SweepTypes ==
    ASSUME NEW S, NEW sweep \in Sweep(S)
    PROVE  /\ Idle \in Sweep(S)
           /\ \A T \in SUBSET S : Listed(sweep, T) \in Sweep(S)
           /\ \A x \in sweep.todo : Taken(sweep, x) \in Sweep(S)
           /\ \A x \in sweep.drop : x \in S /\ [sweep EXCEPT !.drop = {}] \in Sweep(S)
           /\ \A x \in S : [sweep EXCEPT !.todo = {x}] \in Sweep(S)
<1>0. sweep.page \in Nat /\ sweep.todo \subseteq S /\ sweep.drop \subseteq S
  BY DEF Sweep
<1>1. Idle \in Sweep(S)
  BY DEF Idle, Sweep
<1>2. ASSUME NEW T \in SUBSET S PROVE Listed(sweep, T) \in Sweep(S)
  <2>1. NextPage(T, sweep.page) \in Nat
    BY <1>0 DEF NextPage
  <2>. QED
    BY <2>1 DEF Listed, Sweep
<1>3. ASSUME NEW x \in sweep.todo PROVE Taken(sweep, x) \in Sweep(S)
  <2>1. x \in S
    BY <1>0
  <2>2. sweep.todo \ {x} \in SUBSET S /\ {x} \in SUBSET S
    BY <1>0, <2>1
  <2>. QED
    BY <1>0, <2>2 DEF Taken, Sweep
<1>4. ASSUME NEW x \in sweep.drop
      PROVE  x \in S /\ [sweep EXCEPT !.drop = {}] \in Sweep(S)
  BY <1>0 DEF Sweep
<1>5. ASSUME NEW x \in S PROVE [sweep EXCEPT !.todo = {x}] \in Sweep(S)
  <2>1. [sweep EXCEPT !.todo = {x}] = [page |-> sweep.page, todo |-> {x}, drop |-> sweep.drop]
    BY DEF Sweep
  <2>2. {x} \in SUBSET S
    OBVIOUS
  <2>. QED
    BY <1>0, <2>1, <2>2 DEF Sweep
<1>. QED
  BY <1>1, <1>2, <1>3, <1>4, <1>5

(* So is the record of the two jobs that remove locations. *)
LEMMA LocSweepType ==
    ASSUME TypeOK, NEW j \in LocJob, NEW s \in Sweep(Fin)
    PROVE  [locSweep EXCEPT ![j] = s] \in [LocJob -> Sweep(Fin)]
  BY DEF TypeOK

(* Every statement of every request and job keeps the types. *)
LEMMA TypeStep == TypeOK /\ [Next]_vars => TypeOK'
<1>. SUFFICES ASSUME TypeOK, [Next]_vars PROVE TypeOK'
  OBVIOUS
<1>. USE SessionAssumption, PartsAssumption, TriesAssumption, SwitchAssumption
<1>. USE DEF TypeOK, FinType, LocJob, FinPCs, PutPCs, Put, Owner, Part, rows, cache, files, sweeps, ghosts
<1>1. ASSUME NEW c \in Session, CheckUpload(c) PROVE TypeOK'
  BY <1>1 DEF CheckUpload
<1>2. ASSUME NEW c \in Session, InsertUpload(c) PROVE TypeOK'
  BY <1>2 DEF InsertUpload
<1>3. ASSUME NEW c \in Session, AbortCreate(c) PROVE TypeOK'
  BY <1>3 DEF AbortCreate
<1>4. ASSUME NEW c \in Session, Age(c) PROVE TypeOK'
  BY <1>4 DEF Age
<1>5. ASSUME NEW p \in Put, FindUploadByID(p) PROVE TypeOK'
  BY <1>5 DEF FindUploadByID
<1>6. ASSUME NEW p \in Put, IncStartedPartCount(p) PROVE TypeOK'
  BY <1>6 DEF IncStartedPartCount
<1>7. ASSUME NEW p \in Put, OpenPart(p) PROVE TypeOK'
  <2>1. CASE AtomicPut
    BY <1>7, <2>1 DEF OpenPart
  <2>2. CASE ~AtomicPut
    <3>1. Owner(p) \in Session /\ Part(p) \in Index
      OBVIOUS
    <3>2. stored' \in [Session -> SUBSET Index] /\ whole' \in [Session -> SUBSET Index]
      BY <1>7, <2>2, <3>1 DEF OpenPart
    <3>3. linked' \subseteq Put /\ put' \in [Put -> PutPCs]
      BY <1>7, <2>2 DEF OpenPart
    <3>. QED
      BY <1>7, <2>2, <3>2, <3>3 DEF OpenPart
  <2>. QED
    BY <2>1, <2>2
<1>8. ASSUME NEW p \in Put, WritePart(p) PROVE TypeOK'
  BY <1>8 DEF WritePart
<1>9. ASSUME NEW p \in Put, IncFinishedPartCount(p) PROVE TypeOK'
  BY <1>9 DEF IncFinishedPartCount
<1>10. ASSUME NEW p \in Put, AbortPut(p) PROVE TypeOK'
  BY <1>10 DEF AbortPut
<1>11. ASSUME NEW f \in Fin, FindUpload(f) PROVE TypeOK'
  <2>1. CASE Advance(f, "none")
    BY <1>11, <2>1, AdvanceType DEF FindUpload
  <2>2. ASSUME NEW u \in FindUploadByKey(KeyOfFin(f)),
               fin' = [fin EXCEPT ![f] =
                   [@ EXCEPT !.pc = IF CheckCounts(u) THEN "count" ELSE "reject",
                             !.up = u, !.parts = finished[u]]]
        PROVE  fin' \in [Fin -> FinType]
    <3>1. u \in Session /\ finished[u] \in Nat
      BY <2>2 DEF FindUploadByKey
    <3>. HIDE DEF FinPCs, FinType
    <3>2. "count" \in FinPCs /\ "reject" \in FinPCs
      BY DEF FinPCs
    <3>3. CASE CheckCounts(u)
      BY <2>2, <3>1, <3>2, <3>3, AcceptType
    <3>4. CASE ~CheckCounts(u)
      BY <2>2, <3>1, <3>2, <3>4, AcceptType
    <3>. QED
      BY <3>3, <3>4
  <2>. QED
    BY <1>11, <2>1, <2>2 DEF FindUpload
<1>12. ASSUME NEW f \in Fin, CountParts(f) PROVE TypeOK'
  BY <1>12, AdvanceType DEF CountParts
<1>13. ASSUME NEW f \in Fin, RejectUpload(f) PROVE TypeOK'
  BY <1>13, AdvanceType DEF RejectUpload
<1>14. ASSUME NEW f \in Fin, InsertStorageLocation(f) PROVE TypeOK'
  BY <1>14, AdvanceType DEF InsertStorageLocation
<1>15. ASSUME NEW f \in Fin, FindExisting(f) PROVE TypeOK'
  <2>1. CASE Advance(f, "insert")
    BY <1>15, <2>1, AdvanceType DEF FindExisting
  <2>2. ASSUME NEW e \in FindExistingCacheEntryWithLocation(KeyOfFin(f)),
               fin' = [fin EXCEPT ![f] =
                   [@ EXCEPT !.pc = "update", !.old = e, !.oldLoc = locationId[e]]]
        PROVE  fin' \in [Fin -> FinType]
    <3>1. e \in Fin /\ locationId[e] \in Fin
      BY <2>2 DEF FindExistingCacheEntryWithLocation
    <3>. QED
      BY <2>2, <3>1, LookupType
  <2>. QED
    BY <1>15, <2>1, <2>2 DEF FindExisting
<1>16. ASSUME NEW f \in Fin, InsertCacheEntry(f) PROVE TypeOK'
  BY <1>16, AdvanceType DEF InsertCacheEntry
<1>17. ASSUME NEW f \in Fin, UpdateCacheEntryLocation(f) PROVE TypeOK'
  BY <1>17, AdvanceType DEF UpdateCacheEntryLocation
<1>18. ASSUME NEW f \in Fin, DropOldLocation(f) PROVE TypeOK'
  BY <1>18, AdvanceType DEF DropOldLocation, DeleteStorageLocation
<1>19. ASSUME NEW f \in Fin, DropOldFolder(f) PROVE TypeOK'
  BY <1>19, AdvanceType DEF DropOldFolder, DeleteFolder, Folder
<1>20. ASSUME NEW f \in Fin, DeleteUpload(f) PROVE TypeOK'
  BY <1>20, AdvanceType DEF DeleteUpload
<1>21. ASSUME NEW f \in Fin, AbortFin(f) PROVE TypeOK'
  BY <1>21, AdvanceType DEF AbortFin, FinEnds
<1>22. ASSUME NEW e \in Fin, DeleteCacheEntry(e) PROVE TypeOK'
  <2>1. KeyOfFin(e) \in Key
    BY DEF KeyOfFin, Fin
  <2>. QED
    BY <1>22, <2>1 DEF DeleteCacheEntry
<1>0. upSweep \in Sweep(Session) /\ \A j \in LocJob : locSweep[j] \in Sweep(Fin)
  OBVIOUS
<1>23. CASE ListStaleUploads
  <2>1. PICK S \in Page(Stale, upSweep.page) : upSweep' = Listed(upSweep, S)
    BY <1>23 DEF ListStaleUploads
  <2>2. S \in SUBSET Session
    BY <2>1 DEF Page, Stale
  <2>. QED
    BY <1>0, <1>23, <2>1, <2>2, SweepTypes DEF ListStaleUploads
<1>24. CASE SweepUpload
  <2>1. PICK c \in upSweep.todo : upSweep' = Taken(upSweep, c)
    BY <1>24 DEF SweepUpload
  <2>2. upSweep' \in Sweep(Session)
    BY <1>0, <2>1, SweepTypes
  <2>. QED
    BY <1>24, <2>2 DEF SweepUpload
<1>25. CASE SweepUploadFails
  <2>1. PICK c \in upSweep.todo : upSweep' = Taken(upSweep, c)
    BY <1>25 DEF SweepUploadFails
  <2>2. upSweep' \in Sweep(Session)
    BY <1>0, <2>1, SweepTypes
  <2>. QED
    BY <1>25, <2>2 DEF SweepUploadFails
<1>26. CASE SweepUploadFolder
  <2>1. PICK c \in upSweep.drop :
            /\ upSweep' = [upSweep EXCEPT !.drop = {}]
            /\ DeleteFolder(c) /\ swept' = swept \cup {c}
    BY <1>26 DEF SweepUploadFolder
  <2>2. c \in Session /\ upSweep' \in Sweep(Session)
    BY <1>0, <2>1, SweepTypes
  <2>. QED
    BY <1>26, <2>1, <2>2 DEF SweepUploadFolder, DeleteFolder
<1>27. CASE ListOrphans
  <2>1. PICK S \in Page(ListOrphanedStorageLocations, locSweep["orphans"].page) :
            locSweep' = [locSweep EXCEPT !["orphans"] = Listed(@, S)]
    BY <1>27 DEF ListOrphans
  <2>2. S \in SUBSET Fin
    BY <2>1 DEF Page, ListOrphanedStorageLocations
  <2>3. Listed(locSweep["orphans"], S) \in Sweep(Fin)
    BY <1>0, <2>2, SweepTypes
  <2>4. locSweep' \in [LocJob -> Sweep(Fin)]
    BY <2>1, <2>3, LocSweepType
  <2>. QED
    BY <1>27, <2>4 DEF ListOrphans
<1>28. CASE ListExpired
  <2>1. PICK l \in locations :
            locSweep' = [locSweep EXCEPT !["expiry"] = [@ EXCEPT !.todo = {l}]]
    BY <1>28 DEF ListExpired
  <2>2. [locSweep["expiry"] EXCEPT !.todo = {l}] \in Sweep(Fin)
    BY <1>0, <2>1, SweepTypes
  <2>3. locSweep' \in [LocJob -> Sweep(Fin)]
    BY <2>1, <2>2, LocSweepType
  <2>. QED
    BY <1>28, <2>3 DEF ListExpired
<1>29. ASSUME NEW j \in LocJob, SweepLocation(j) PROVE TypeOK'
  <2>1. PICK l \in locSweep[j].todo :
            /\ locSweep' = [locSweep EXCEPT ![j] = Taken(@, l)]
            /\ DeleteStorageLocation(l)
            /\ lost' = lost \cup {KeyOfFin(e) : e \in entries \ entries'}
    BY <1>29 DEF SweepLocation
  <2>2. Taken(locSweep[j], l) \in Sweep(Fin)
    BY <1>0, <2>1, SweepTypes
  <2>3. locSweep' \in [LocJob -> Sweep(Fin)]
    BY <2>1, <2>2, LocSweepType
  <2>4. \A e \in Fin : KeyOfFin(e) \in Key
    BY DEF KeyOfFin, Fin
  <2>5. lost' \subseteq Key
    BY <2>1, <2>4
  <2>. QED
    BY <1>29, <2>1, <2>3, <2>5 DEF SweepLocation, DeleteStorageLocation
<1>30. ASSUME NEW j \in LocJob, SweepLocationFails(j) PROVE TypeOK'
  <2>1. PICK l \in locSweep[j].todo : locSweep' = [locSweep EXCEPT ![j] = Taken(@, l)]
    BY <1>30 DEF SweepLocationFails
  <2>2. Taken(locSweep[j], l) \in Sweep(Fin)
    BY <1>0, <2>1, SweepTypes
  <2>3. locSweep' \in [LocJob -> Sweep(Fin)]
    BY <2>1, <2>2, LocSweepType
  <2>. QED
    BY <1>30, <2>3 DEF SweepLocationFails
<1>31. ASSUME NEW j \in LocJob, SweepLocationFolder(j) PROVE TypeOK'
  <2>1. PICK l \in locSweep[j].drop :
            /\ locSweep' = [locSweep EXCEPT ![j] = [@ EXCEPT !.drop = {}]]
            /\ DeleteFolder(Folder(l))
            /\ swept' = IF l \in locations THEN swept \cup {Folder(l)} ELSE swept
    BY <1>31 DEF SweepLocationFolder
  <2>2. l \in Fin /\ [locSweep[j] EXCEPT !.drop = {}] \in Sweep(Fin)
    BY <1>0, <2>1, SweepTypes
  <2>3. locSweep' \in [LocJob -> Sweep(Fin)]
    BY <2>1, <2>2, LocSweepType
  <2>4. Folder(l) \in Session
    BY <2>2 DEF Folder
  <2>5. swept' \subseteq Session
    BY <2>1, <2>4
  <2>6. /\ stored' \in [Session -> SUBSET Index]
        /\ whole' \in [Session -> SUBSET Index]
        /\ linked' \subseteq Put
    BY <2>1 DEF DeleteFolder
  <2>. QED
    BY <1>31, <2>3, <2>5, <2>6 DEF SweepLocationFolder
<1>32. CASE StopJobs
  <2>1. Idle \in Sweep(Session) /\ Idle \in Sweep(Fin)
    BY DEF Sweep, Idle
  <2>. QED
    BY <1>32, <2>1 DEF StopJobs
<1>33. CASE Rest
  BY <1>33 DEF Rest, vars
<1>34. CASE UNCHANGED vars
  BY <1>34 DEF vars
<1>. QED
  BY <1>1, <1>2, <1>3, <1>4, <1>5, <1>6, <1>7, <1>8, <1>9, <1>10, <1>11, <1>12, <1>13, <1>14, <1>15, <1>16, <1>17, <1>18, <1>19, <1>20, <1>21, <1>22, <1>23, <1>24, <1>25, <1>26, <1>27, <1>28, <1>29, <1>30, <1>31, <1>32, <1>33, <1>34
     DEF Next, CreateStep, PutStep, FinStep, JobStep
-----------------------------------------------------------------------------
(* Where locations come from and who refers to them.                        *)

(* A finalize that has settled which entry leads to its location. *)
SettledPCs == {"dropLoc", "dropFolder", "close", "ok", "failed"}
Settled(f) == fin[f].pc \in SettledPCs

(* A finalize that may have inserted its location. *)
InsertedPCs == SettledPCs \cup {"lookup", "insert", "update"}
Inserted(l) == fin[l].pc \in InsertedPCs /\ fin[l].parts # 0

(* Until it finds an entry to replace, a finalize is its own old entry, so  *)
(* the request that inserted a location always knows the one entry that may *)
(* refer to it: fin[l].old.                                                *)
OldUnset == \A f \in Fin :
    fin[f].pc \notin SettledPCs \cup {"update"} => fin[f].old = f

EntryOfLocation == \A e \in entries :
    Settled(e) /\ Settled(locationId[e]) /\ fin[locationId[e]].old = e

OldIsEntryOfOldLoc == \A f \in Fin : fin[f].pc \in {"update", "dropLoc"} =>
    Settled(fin[f].old) /\ Settled(fin[f].oldLoc) /\ fin[fin[f].oldLoc].old = fin[f].old

EntryHasLeftOldLoc == \A f \in Fin :
    fin[f].pc = "dropLoc" /\ fin[f].old \in entries => locationId[fin[f].old] # fin[f].oldLoc

RefInv == OldUnset /\ EntryOfLocation /\ OldIsEntryOfOldLoc /\ EntryHasLeftOldLoc

-----------------------------------------------------------------------------
(* RefInv is inductive.                                                     *)

(* Advancing a finalize changes nothing but where it is. *)
LEMMA AdvanceFin ==
    ASSUME TypeOK, NEW f \in Fin, NEW pc, Advance(f, pc)
    PROVE  /\ \A g \in Fin : g # f => fin'[g] = fin[g]
           /\ fin'[f].pc = pc
           /\ fin'[f].up = fin[f].up /\ fin'[f].parts = fin[f].parts
           /\ fin'[f].old = fin[f].old /\ fin'[f].oldLoc = fin[f].oldLoc
<1>1. fin \in [Fin -> FinType] /\ fin[f] \in FinType
  BY DEF TypeOK
<1>. QED
  BY <1>1 DEF Advance, FinType

(* A step that leaves the finalizes and locationId alone. *)
LEMMA RefFrame ==
    ASSUME RefInv, fin' = fin, locationId' = locationId, entries' \subseteq entries
    PROVE  RefInv'
  BY DEF RefInv, OldUnset, EntryOfLocation, OldIsEntryOfOldLoc, EntryHasLeftOldLoc, Settled

(* A step of a finalize that touches neither its old entry nor the others.  *)
LEMMA RefAdvance ==
    ASSUME TypeOK, RefInv, NEW f \in Fin, NEW pc, Advance(f, pc),
           locationId' = locationId, entries' \subseteq entries,
           pc \notin {"update", "dropLoc"},
           Settled(f) => pc \in SettledPCs,
           pc \notin SettledPCs => fin[f].pc \notin SettledPCs \cup {"update"}
    PROVE  RefInv'
<1>. USE AdvanceFin DEF RefInv
<1>1. \A g \in Fin : Settled(g) => Settled(g)'
  BY DEF Settled
<1>2. \A g \in Fin : fin'[g].old = fin[g].old /\ fin'[g].oldLoc = fin[g].oldLoc
  OBVIOUS
<1>3. \A g \in Fin : fin'[g].pc \in {"update", "dropLoc"} => fin'[g].pc = fin[g].pc
  OBVIOUS
<1>4. locationId \in [Fin -> Fin] /\ entries \subseteq Fin /\ fin \in [Fin -> FinType]
  BY DEF TypeOK
<1>5. \A g \in Fin : fin[g].old \in Fin /\ fin[g].oldLoc \in Fin
  BY <1>4 DEF FinType
<1>6. OldUnset'
  BY <1>2 DEF OldUnset, SettledPCs
<1>7. EntryOfLocation'
  BY <1>1, <1>2, <1>4 DEF EntryOfLocation
<1>8. OldIsEntryOfOldLoc'
  BY <1>1, <1>2, <1>3, <1>5 DEF OldIsEntryOfOldLoc
<1>9. EntryHasLeftOldLoc'
  BY <1>2, <1>3, <1>5 DEF EntryHasLeftOldLoc
<1>. QED
  BY <1>6, <1>7, <1>8, <1>9

(* Finding the upload comes before everything RefInv speaks of. *)
LEMMA RefFindUpload ==
    ASSUME TypeOK, RefInv, NEW f \in Fin, FindUpload(f)
    PROVE  RefInv'
<1>1. locationId' = locationId /\ entries' = entries
  BY DEF FindUpload, cache
<1>2. CASE Advance(f, "none")
  BY <1>1, <1>2, RefAdvance DEF FindUpload, Settled, SettledPCs
<1>3. ASSUME NEW u \in FindUploadByKey(KeyOfFin(f)),
             fin' = [fin EXCEPT ![f] =
                 [@ EXCEPT !.pc = IF CheckCounts(u) THEN "count" ELSE "reject",
                           !.up = u, !.parts = finished[u]]]
      PROVE  RefInv'
  <2>1. fin \in [Fin -> FinType] /\ fin[f] \in FinType
    BY DEF TypeOK
  <2>2. fin[f].pc = "idle" /\ fin'[f].pc \in {"count", "reject"}
    BY <1>3, <2>1 DEF FindUpload, FinType
  <2>3. \A g \in Fin : fin'[g].old = fin[g].old /\ fin'[g].oldLoc = fin[g].oldLoc
    BY <1>3, <2>1 DEF FinType
  <2>4. \A g \in Fin : g # f => fin'[g] = fin[g]
    BY <1>3, <2>1
  <2>5. locationId \in [Fin -> Fin] /\ entries \subseteq Fin
    BY DEF TypeOK
  <2>6. \A g \in Fin : fin[g].old \in Fin /\ fin[g].oldLoc \in Fin
    BY <2>1 DEF FinType
  <2>7. ~Settled(f)
    BY <2>2 DEF Settled, SettledPCs
  <2>8. OldUnset'
    BY <2>2, <2>3, <2>4 DEF RefInv, OldUnset, SettledPCs
  <2>9. EntryOfLocation'
    BY <1>1, <2>3, <2>4, <2>5, <2>7 DEF RefInv, EntryOfLocation, Settled
  <2>10. OldIsEntryOfOldLoc'
    BY <2>2, <2>3, <2>4, <2>6, <2>7 DEF RefInv, OldIsEntryOfOldLoc, Settled
  <2>11. EntryHasLeftOldLoc'
    BY <1>1, <2>2, <2>3, <2>4 DEF RefInv, EntryHasLeftOldLoc
  <2>. QED
    BY <2>8, <2>9, <2>10, <2>11 DEF RefInv
<1>. QED
  BY <1>2, <1>3 DEF FindUpload

(* Finding an entry makes it the one entry of the new location, too. *)
LEMMA RefFindExisting ==
    ASSUME TypeOK, RefInv, NEW f \in Fin, FindExisting(f)
    PROVE  RefInv'
<1>1. locationId' = locationId /\ entries' = entries
  BY DEF FindExisting, cache
<1>2. CASE Advance(f, "insert")
  BY <1>1, <1>2, RefAdvance DEF FindExisting, Settled, SettledPCs
<1>3. ASSUME NEW e \in FindExistingCacheEntryWithLocation(KeyOfFin(f)),
             fin' = [fin EXCEPT ![f] =
                 [@ EXCEPT !.pc = "update", !.old = e, !.oldLoc = locationId[e]]]
      PROVE  RefInv'
  <2>1. fin \in [Fin -> FinType] /\ fin[f] \in FinType
    BY DEF TypeOK
  <2>2. /\ fin[f].pc = "lookup" /\ fin'[f].pc = "update"
        /\ fin'[f].old = e /\ fin'[f].oldLoc = locationId[e]
    BY <1>3, <2>1 DEF FindExisting, FinType
  <2>3. \A g \in Fin : g # f => fin'[g] = fin[g]
    BY <1>3, <2>1
  <2>4. locationId \in [Fin -> Fin] /\ entries \subseteq Fin /\ e \in entries
    BY DEF TypeOK, FindExistingCacheEntryWithLocation
  <2>5. \A g \in Fin : fin[g].old \in Fin /\ fin[g].oldLoc \in Fin
    BY <2>1 DEF FinType
  <2>6. ~Settled(f)
    BY <2>2 DEF Settled, SettledPCs
  <2>7. OldUnset'
    BY <2>2, <2>3 DEF RefInv, OldUnset
  <2>8. EntryOfLocation'
    BY <1>1, <2>3, <2>4, <2>6 DEF RefInv, EntryOfLocation, Settled
  <2>9. OldIsEntryOfOldLoc'
    BY <2>2, <2>3, <2>4, <2>5, <2>6 DEF RefInv, EntryOfLocation, OldIsEntryOfOldLoc, Settled
  <2>10. EntryHasLeftOldLoc'
    BY <1>1, <2>2, <2>3 DEF RefInv, EntryHasLeftOldLoc
  <2>. QED
    BY <2>7, <2>8, <2>9, <2>10 DEF RefInv
<1>. QED
  BY <1>2, <1>3 DEF FindExisting

(* The insert makes an entry out of a request that had no old one. *)
LEMMA RefInsert ==
    ASSUME TypeOK, RefInv, NEW f \in Fin, InsertCacheEntry(f)
    PROVE  RefInv'
<1>1. CASE f \notin locations
  BY <1>1, RefAdvance DEF InsertCacheEntry, Settled, SettledPCs
<1>2. CASE f \in locations
  <2>1. fin \in [Fin -> FinType] /\ locationId \in [Fin -> Fin] /\ entries \subseteq Fin
    BY DEF TypeOK
  <2>2. /\ fin[f].pc = "insert" /\ Advance(f, "close")
        /\ entries' = entries \cup {f}
        /\ locationId' = [locationId EXCEPT ![f] = f]
    BY <1>2 DEF InsertCacheEntry
  <2>3. /\ \A g \in Fin : g # f => fin'[g] = fin[g]
        /\ fin'[f].pc = "close"
        /\ fin'[f].old = fin[f].old /\ fin'[f].oldLoc = fin[f].oldLoc
    BY <2>2, AdvanceFin
  <2>4. \A g \in Fin : fin[g].old \in Fin /\ fin[g].oldLoc \in Fin
    BY <2>1 DEF FinType
  <2>5. ~Settled(f) /\ \A g \in Fin : Settled(g) => Settled(g)'
    BY <2>2, <2>3 DEF Settled, SettledPCs
  <2>6. Settled(f)' /\ fin'[f].old = f
    BY <2>2, <2>3 DEF Settled, SettledPCs, RefInv, OldUnset
  <2>7. OldUnset'
    BY <2>3, <2>6 DEF RefInv, OldUnset
  <2>8. EntryOfLocation'
    BY <2>1, <2>2, <2>3, <2>5, <2>6 DEF RefInv, EntryOfLocation
  <2>9. OldIsEntryOfOldLoc'
    BY <2>3, <2>4, <2>5 DEF RefInv, OldIsEntryOfOldLoc
  <2>10. EntryHasLeftOldLoc'
    BY <2>1, <2>2, <2>3, <2>4, <2>5 DEF RefInv, OldIsEntryOfOldLoc, EntryHasLeftOldLoc
  <2>. QED
    BY <2>7, <2>8, <2>9, <2>10 DEF RefInv
<1>. QED
  BY <1>1, <1>2

(* The update moves the old entry to a location nobody referred to.         *)
LEMMA RefUpdate ==
    ASSUME TypeOK, RefInv, NEW f \in Fin, UpdateCacheEntryLocation(f)
    PROVE  RefInv'
<1>. DEFINE e == fin[f].old
<1>1. fin \in [Fin -> FinType] /\ locationId \in [Fin -> Fin] /\ entries \subseteq Fin
  BY DEF TypeOK
<1>2. \A g \in Fin : fin[g].old \in Fin /\ fin[g].oldLoc \in Fin
  BY <1>1 DEF FinType
<1>3. fin[f].pc = "update" /\ entries' = entries /\ ~Settled(f)
  BY DEF UpdateCacheEntryLocation, Settled, SettledPCs
<1>4. CASE e \in entries /\ f \notin locations
  BY <1>3, <1>4, RefAdvance DEF UpdateCacheEntryLocation, Settled, SettledPCs
<1>5. CASE e \notin entries \/ f \in locations
  <2>1. /\ Advance(f, "dropLoc")
        /\ locationId' = IF e \in entries THEN [locationId EXCEPT ![e] = f] ELSE locationId
    <3>1. CASE e \in entries
      BY <1>5, <3>1 DEF UpdateCacheEntryLocation
    <3>2. CASE e \notin entries
      BY <3>2 DEF UpdateCacheEntryLocation
    <3>. QED
      BY <3>1, <3>2
  <2>2. locationId' = IF e \in entries THEN [locationId EXCEPT ![e] = f] ELSE locationId
    BY <2>1
  <2>3. /\ \A g \in Fin : g # f => fin'[g] = fin[g]
        /\ fin'[f].pc = "dropLoc"
        /\ \A g \in Fin : fin'[g].old = fin[g].old /\ fin'[g].oldLoc = fin[g].oldLoc
    <3>1. Advance(f, "dropLoc")
      BY <2>1
    <3>2. /\ \A g \in Fin : g # f => fin'[g] = fin[g]
          /\ fin'[f].pc = "dropLoc"
          /\ fin'[f].old = fin[f].old /\ fin'[f].oldLoc = fin[f].oldLoc
      BY <3>1, AdvanceFin
    <3>. QED
      BY <3>2
  <2>4. \A g \in Fin : Settled(g) => Settled(g)'
    BY <2>3, <1>3 DEF Settled
  <2>5. Settled(f)'
    BY <2>3 DEF Settled, SettledPCs
  <2>6. OldUnset'
    BY <2>3, <2>5 DEF RefInv, OldUnset, Settled
  <2>7. EntryOfLocation'
    <3>1. SUFFICES ASSUME NEW d \in entries
                   PROVE  (/\ Settled(d) /\ Settled(locationId[d])
                           /\ fin[locationId[d]].old = d)'
      BY <1>3 DEF EntryOfLocation
    <3>2. Settled(d) /\ Settled(locationId[d]) /\ fin[locationId[d]].old = d
      BY DEF RefInv, EntryOfLocation
    <3>3. CASE locationId'[d] = locationId[d]
      <4>1. Settled(d)' /\ Settled(locationId[d])'
        BY <1>1, <2>4, <3>2, <3>3
      <4>. QED
        BY <1>1, <2>3, <3>2, <3>3, <4>1
    <3>4. CASE d = e /\ locationId'[d] = f
      <4>1. Settled(d)' /\ Settled(locationId[d])'
        BY <1>1, <2>4, <2>5, <3>2, <3>4
      <4>. QED
        BY <2>3, <3>4, <4>1
    <3>. QED
      BY <1>1, <1>2, <2>2, <3>3, <3>4
  <2>8. OldIsEntryOfOldLoc'
    BY <1>2, <1>3, <2>3, <2>4 DEF RefInv, OldIsEntryOfOldLoc
  <2>9. EntryHasLeftOldLoc'
    <3>1. SUFFICES ASSUME NEW g \in Fin, fin'[g].pc = "dropLoc", fin'[g].old \in entries
                   PROVE  locationId'[fin'[g].old] # fin'[g].oldLoc
      BY <1>3 DEF EntryHasLeftOldLoc
    <3>2. fin[g].pc \in {"update", "dropLoc"}
      BY <1>3, <2>3, <3>1
    <3>3. Settled(fin[g].oldLoc)
      BY <3>2 DEF RefInv, OldIsEntryOfOldLoc
    <3>4. CASE fin[g].old = e
      BY <1>1, <1>2, <1>3, <2>2, <2>3, <3>1, <3>3, <3>4
    <3>5. CASE fin[g].old # e
      <4>1. g # f /\ fin[g].pc = "dropLoc"
        BY <2>3, <3>1, <3>5
      <4>2. locationId[fin[g].old] # fin[g].oldLoc
        BY <2>3, <3>1, <4>1 DEF RefInv, EntryHasLeftOldLoc
      <4>. QED
        BY <1>1, <1>2, <2>2, <2>3, <3>5, <4>2
    <3>. QED
      BY <3>4, <3>5
  <2>. QED
    BY <2>6, <2>7, <2>8, <2>9 DEF RefInv
<1>. QED
  BY <1>4, <1>5

(* The location a finalize replaces has no entry any more: the entry it     *)
(* found there has left, and no other was ever there.                       *)
LEMMA ReplaceTakesNone ==
    ASSUME RefInv, NEW f \in Fin, DropOldLocation(f)
    PROVE  entries' = entries
<1>1. fin[f].pc = "dropLoc"
  BY DEF DropOldLocation
<1>2. entries' = {e \in entries : locationId[e] # fin[f].oldLoc}
  BY DEF DropOldLocation, DeleteStorageLocation
<1>3. ASSUME NEW e \in entries PROVE locationId[e] # fin[f].oldLoc
  <2>1. fin[locationId[e]].old = e
    BY DEF RefInv, EntryOfLocation
  <2>2. fin[fin[f].oldLoc].old = fin[f].old
    BY <1>1 DEF RefInv, OldIsEntryOfOldLoc
  <2>3. fin[f].old \in entries => locationId[fin[f].old] # fin[f].oldLoc
    BY <1>1 DEF RefInv, EntryHasLeftOldLoc
  <2>. QED
    BY <2>1, <2>2, <2>3
<1>. QED
  BY <1>2, <1>3

(* Every step of the system keeps RefInv. *)
LEMMA RefStep == TypeOK /\ RefInv /\ [Next]_vars => RefInv'
<1>. SUFFICES ASSUME TypeOK, RefInv, [Next]_vars PROVE RefInv'
  OBVIOUS
<1>1. ASSUME NEW c \in Session, CreateStep(c) \/ AbortCreate(c) \/ Age(c)
      PROVE  RefInv'
  BY <1>1, RefFrame
     DEF CreateStep, CheckUpload, InsertUpload, AbortCreate, Age, cache
<1>2. ASSUME NEW p \in Put, PutStep(p) \/ AbortPut(p)
      PROVE  RefInv'
  BY <1>2, RefFrame
     DEF PutStep, FindUploadByID, IncStartedPartCount, OpenPart, WritePart,
         IncFinishedPartCount, AbortPut, cache
<1>3. ASSUME NEW f \in Fin, FinStep(f) PROVE RefInv'
  <2>. USE RefAdvance DEF Settled, SettledPCs, cache
  <2>1. CASE CountParts(f)
    BY <2>1 DEF CountParts
  <2>2. CASE RejectUpload(f)
    BY <2>2 DEF RejectUpload
  <2>3. CASE InsertStorageLocation(f)
    BY <2>3 DEF InsertStorageLocation
  <2>4. CASE DropOldLocation(f)
    BY <2>4 DEF DropOldLocation, DeleteStorageLocation
  <2>5. CASE DropOldFolder(f)
    BY <2>5 DEF DropOldFolder
  <2>6. CASE DeleteUpload(f)
    BY <2>6 DEF DeleteUpload
  <2>. QED
    BY <1>3, <2>1, <2>2, <2>3, <2>4, <2>5, <2>6,
       RefFindUpload, RefFindExisting, RefInsert, RefUpdate DEF FinStep
<1>4. ASSUME NEW f \in Fin, AbortFin(f) PROVE RefInv'
  BY <1>4, RefAdvance DEF AbortFin, cache, SettledPCs
<1>5. ASSUME NEW e \in Fin, DeleteCacheEntry(e) PROVE RefInv'
  BY <1>5, RefFrame DEF DeleteCacheEntry
<1>6. ASSUME ListStaleUploads \/ SweepUpload \/ SweepUploadFails \/ SweepUploadFolder
      PROVE  RefInv'
  BY <1>6, RefFrame
     DEF ListStaleUploads, SweepUpload, SweepUploadFails, SweepUploadFolder, cache
<1>7. ASSUME ListOrphans \/ ListExpired \/ StopJobs
      PROVE  RefInv'
  BY <1>7, RefFrame DEF ListOrphans, ListExpired, StopJobs, cache
<1>8. ASSUME NEW j \in LocJob,
             SweepLocation(j) \/ SweepLocationFails(j) \/ SweepLocationFolder(j)
      PROVE  RefInv'
  BY <1>8, RefFrame
     DEF SweepLocation, SweepLocationFails, SweepLocationFolder,
         DeleteStorageLocation, cache
<1>9. ASSUME UNCHANGED vars PROVE RefInv'
  BY <1>9, RefFrame DEF vars, cache
<1>. QED
  BY <1>1, <1>2, <1>3, <1>4, <1>5, <1>6, <1>7, <1>8, <1>9
     DEF Next, JobStep, Rest

-----------------------------------------------------------------------------
(* The theorems.                                                            *)

(* The empty database and the empty storage are typed. *)
LEMMA TypeInit == Init => TypeOK
<1>. SUFFICES ASSUME Init PROVE TypeOK
  OBVIOUS
<1>1. fin \in [Fin -> FinType]
  BY DEF Init, FinType, FinPCs, Fin
<1>2. upSweep \in Sweep(Session) /\ locSweep \in [LocJob -> Sweep(Fin)]
  BY DEF Init, Sweep, Idle
<1>. QED
  BY <1>1, <1>2, PartsAssumption DEF Init, TypeOK, PutPCs

(* With no entry and no finalize under way RefInv holds. *)
LEMMA RefInit == Init => RefInv
<1>. SUFFICES ASSUME Init PROVE RefInv
  OBVIOUS
<1>1. \A f \in Fin : fin[f].pc = "idle" /\ fin[f].old = f
  BY DEF Init
<1>. QED
  BY <1>1 DEF Init, RefInv, OldUnset, EntryOfLocation, OldIsEntryOfOldLoc,
              EntryHasLeftOldLoc

(* The rows, the files and the local variables of every request keep their  *)
(* types, for any number of sessions, parts and retries: in particular no   *)
(* statement leaves an entry, a location or a sweep naming a finalize that  *)
(* does not exist.                                                          *)
THEOREM TypeCorrect == Spec => []TypeOK
<1>1. TypeOK /\ [Next]_vars => TypeOK'
  BY TypeStep
<1>. QED
  BY <1>1, TypeInit, PTL DEF Spec

(* Who refers to what, whatever the interleaving of any number of clients,  *)
(* retries, jobs and failures: the inductive invariant of the next two.     *)
THEOREM References == Spec => [](TypeOK /\ RefInv)
<1>1. Init => TypeOK /\ RefInv
  BY TypeInit, RefInit
<1>2. (TypeOK /\ RefInv) /\ [Next]_vars => (TypeOK /\ RefInv)'
  BY TypeStep, RefStep
<1>. QED
  BY <1>1, <1>2, PTL DEF Spec

(* Two entries never lead to one location, so deleting a location takes at  *)
(* most the one entry that is served from it (CompleteUpload, and the ON    *)
(* DELETE CASCADE of cache_entries).                                        *)
THEOREM Unshared == Spec => []LocationsUnshared
<1>1. RefInv => LocationsUnshared
  BY DEF RefInv, EntryOfLocation, LocationsUnshared
<1>. QED
  BY <1>1, References, PTL

(* The DELETE of the old location in CompleteUpload never takes an entry    *)
(* with it: by then the entry the finalize found there has left, and no     *)
(* other entry was ever there.                                              *)
THEOREM ReplaceIsSafe == Spec => ReplaceKeepsEntries
<1>. DEFINE Keeps == \A f \in Fin : DropOldLocation(f) => entries' = entries
<1>1. TypeOK /\ RefInv => Keeps
  BY ReplaceTakesNone
<1>2. TypeOK /\ RefInv => [Keeps]_vars
  BY <1>1
<1>. QED
  BY <1>2, References, PTL DEF ReplaceKeepsEntries

-----------------------------------------------------------------------------
(* Uploads implements CacheTable, for every number of sessions, keys, parts *)
(* and retries and every choice of what runs and what may fail.  That a     *)
(* finalize only ever claims a location nobody refers to is RefInv; the     *)
(* rest is what each statement does to the two tables.                      *)

leadsTo == [e \in entries |-> locationId[e]]

(* Most statements leave the two tables alone. *)
LEMMA TableFrame == UNCHANGED cache => UNCHANGED Table!vars
  BY DEF cache, Table!vars

(* A location inserted by a finalize is a row more. *)
LEMMA LocationAdded ==
    ASSUME NEW f \in Fin, InsertStorageLocation(f)
    PROVE  Table!AddLocation(f)
  BY DEF InsertStorageLocation, Table!AddLocation

(* No entry leads to the location of a finalize that has settled on none. *)
LEMMA OwnLocationFree ==
    ASSUME TypeOK, RefInv, NEW f \in Fin, ~Settled(f)
    PROVE  f \notin entries /\ Table!Free(f)
<1>1. \A e \in entries : Settled(e) /\ Settled(locationId[e])
  BY DEF RefInv, EntryOfLocation
<1>. QED
  BY <1>1 DEF Table!Free, Table!Known

(* The INSERT of the entry adds it, or is refused by the foreign key. *)
LEMMA EntryAdded ==
    ASSUME TypeOK, RefInv, NEW f \in Fin, InsertCacheEntry(f)
    PROVE  Table!AddEntry(f, f) \/ UNCHANGED Table!vars
<1>1. CASE f \notin locations
  BY <1>1 DEF InsertCacheEntry, Table!vars
<1>2. CASE f \in locations
  <2>1. ~Settled(f)
    BY DEF InsertCacheEntry, Settled, SettledPCs
  <2>2. f \notin entries /\ Table!Free(f)
    BY <2>1, OwnLocationFree
  <2>3. /\ entries' = entries \cup {f} /\ locations' = locations
        /\ locationId' = [locationId EXCEPT ![f] = f]
    BY <1>2 DEF InsertCacheEntry
  <2>4. locationId \in [Fin -> Fin] /\ entries \subseteq Fin
    BY DEF TypeOK
  <2>5. leadsTo' = [d \in entries \cup {f} |-> IF d = f THEN f ELSE leadsTo[d]]
    BY <2>3, <2>4 DEF leadsTo
  <2>. QED
    BY <1>2, <2>2, <2>3, <2>5 DEF Table!AddEntry, Table!Known, leadsTo
<1>. QED
  BY <1>1, <1>2

(* The UPDATE moves the entry, finds none, or is refused. *)
LEMMA EntryMoved ==
    ASSUME TypeOK, RefInv, NEW f \in Fin, UpdateCacheEntryLocation(f)
    PROVE  Table!MoveEntry(fin[f].old, f) \/ UNCHANGED Table!vars
<1>. DEFINE e == fin[f].old
<1>0. entries' = entries /\ locations' = locations
  BY DEF UpdateCacheEntryLocation
<1>1. CASE UNCHANGED locationId
  BY <1>0, <1>1 DEF Table!vars
<1>2. CASE ~UNCHANGED locationId
  <2>1. /\ e \in entries /\ f \in locations
        /\ locationId' = [locationId EXCEPT ![e] = f]
    BY <1>2 DEF UpdateCacheEntryLocation
  <2>2. ~Settled(f)
    BY DEF UpdateCacheEntryLocation, Settled, SettledPCs
  <2>3. Table!Free(f)
    BY <2>2, OwnLocationFree
  <2>4. locationId \in [Fin -> Fin] /\ entries \subseteq Fin
    BY DEF TypeOK
  <2>5. leadsTo' = [leadsTo EXCEPT ![e] = f]
    BY <1>0, <2>1, <2>4 DEF leadsTo
  <2>. QED
    BY <1>0, <2>1, <2>3, <2>5 DEF Table!MoveEntry, Table!Known, leadsTo
<1>. QED
  BY <1>1, <1>2

(* The DELETE of a location cascades to what leads there. *)
LEMMA LocationDropped ==
    ASSUME NEW l \in Fin, DeleteStorageLocation(l)
    PROVE  Table!DropLocation(l)
<1>1. entries' = {e \in entries : locationId[e] # l} /\ locationId' = locationId
  BY DEF DeleteStorageLocation
<1>2. leadsTo' = [e \in {d \in entries : leadsTo[d] # l} |-> leadsTo[e]]
  BY <1>1 DEF leadsTo
<1>. QED
  BY <1>2 DEF DeleteStorageLocation, Table!DropLocation, Table!Known, leadsTo

(* The management API takes one entry. *)
LEMMA EntryDropped ==
    ASSUME NEW e \in Fin, DeleteCacheEntry(e)
    PROVE  Table!DropEntry(e)
  BY DEF DeleteCacheEntry, Table!DropEntry, Table!Known

(* Every statement of Uploads is a change CacheTable allows, or none. *)
LEMMA TableStep ==
    TypeOK /\ RefInv /\ [Next]_vars => [Table!Next]_(Table!vars)
<1>. SUFFICES ASSUME TypeOK, RefInv, [Next]_vars
              PROVE  Table!Next \/ UNCHANGED Table!vars
  OBVIOUS
<1>1. ASSUME NEW c \in Session, CreateStep(c) \/ AbortCreate(c) \/ Age(c)
      PROVE  UNCHANGED cache
  BY <1>1 DEF CreateStep, CheckUpload, InsertUpload, AbortCreate, Age, cache
<1>2. ASSUME NEW p \in Put, PutStep(p) \/ AbortPut(p) PROVE UNCHANGED cache
  BY <1>2 DEF PutStep, FindUploadByID, IncStartedPartCount, OpenPart, WritePart,
              IncFinishedPartCount, AbortPut, cache
<1>3. ASSUME NEW f \in Fin, FinStep(f) \/ AbortFin(f)
      PROVE  Table!Next \/ UNCHANGED Table!vars
  <2>1. CASE InsertStorageLocation(f)
    BY <2>1, LocationAdded DEF Table!Next
  <2>2. CASE InsertCacheEntry(f)
    BY <2>2, EntryAdded DEF Table!Next
  <2>3. CASE UpdateCacheEntryLocation(f)
    <3>1. fin[f].old \in Fin
      BY DEF TypeOK, FinType
    <3>. QED
      BY <2>3, <3>1, EntryMoved DEF Table!Next
  <2>4. CASE DropOldLocation(f)
    <3>1. fin[f].oldLoc \in Fin
      BY DEF TypeOK, FinType
    <3>. QED
      BY <2>4, <3>1, LocationDropped DEF DropOldLocation, Table!Next
  <2>5. CASE FindUpload(f) \/ CountParts(f) \/ RejectUpload(f) \/ FindExisting(f)
             \/ DropOldFolder(f) \/ DeleteUpload(f) \/ AbortFin(f)
    <3>1. UNCHANGED cache
      BY <2>5 DEF FindUpload, CountParts, RejectUpload, FindExisting,
                  DropOldFolder, DeleteUpload, AbortFin
    <3>. QED
      BY <3>1, TableFrame
  <2>. QED
    BY <1>3, <2>1, <2>2, <2>3, <2>4, <2>5 DEF FinStep
<1>4. ASSUME NEW e \in Fin, DeleteCacheEntry(e) PROVE Table!Next
  BY <1>4, EntryDropped DEF Table!Next
<1>5. ASSUME NEW j \in LocJob, SweepLocation(j) PROVE Table!Next
  <2>1. PICK l \in locSweep[j].todo : DeleteStorageLocation(l)
    BY <1>5 DEF SweepLocation
  <2>2. l \in Fin
    BY DEF TypeOK, Sweep
  <2>. QED
    BY <2>1, <2>2, LocationDropped DEF Table!Next
<1>6. ASSUME NEW j \in LocJob, SweepLocationFails(j) \/ SweepLocationFolder(j)
      PROVE  UNCHANGED cache
  BY <1>6 DEF SweepLocationFails, SweepLocationFolder
<1>7. ASSUME \/ ListStaleUploads \/ SweepUpload \/ SweepUploadFails
             \/ SweepUploadFolder \/ ListOrphans \/ ListExpired \/ StopJobs
      PROVE  UNCHANGED cache
  BY <1>7 DEF ListStaleUploads, SweepUpload, SweepUploadFails, SweepUploadFolder,
              ListOrphans, ListExpired, StopJobs, cache
<1>8. ASSUME UNCHANGED vars PROVE UNCHANGED cache
  BY <1>8 DEF vars
<1>. QED
  BY <1>1, <1>2, <1>3, <1>4, <1>5, <1>6, <1>7, <1>8, TableFrame
     DEF Next, JobStep, Rest

(* Saves, retries, cleanup jobs and the management API keep the table of    *)
(* the cache, whatever interleaves and whatever stops halfway: the          *)
(* statements of CompleteUpload need no transaction for that.              *)
THEOREM UploadsKeepTheTable == Spec => TableKept
<1>1. Init => Table!Init
  BY DEF Init, Table!Init
<1>. QED
  BY <1>1, TableStep, References, PTL DEF Spec, TableKept, Table!Spec

(* Hence no entry is left without the row of its location and none shares   *)
(* it (migrations.go:111 relies on the first, the cascade on the second).   *)
THEOREM EntriesServed ==
    Spec => [](\A e \in entries : locationId[e] \in locations)
<1>1. Table!Spec => [](Table!Live /\ Table!Unshared)
  BY Table!EveryEntryServed
<1>2. Table!Live => \A e \in entries : locationId[e] \in locations
  BY DEF Table!Live, Table!Known
<1>. QED
  BY <1>1, <1>2, UploadsKeepTheTable, PTL DEF TableKept

-----------------------------------------------------------------------------
(* A saved key is served.  An entry leaves the table only by a job or the   *)
(* management API, and then its key is noted in lost; so it suffices that a *)
(* finalize that has got past its INSERT or UPDATE had an entry of its key  *)
(* at that moment.  The UPDATE may find none: then the entry it looked up   *)
(* has been taken.                                                          *)

KeyHasEntry(k) == \E e \in entries : KeyOfFin(e) = k

OldOfSameKey(f) == fin[f].pc = "update" =>
    /\ KeyOfFin(fin[f].old) = KeyOfFin(f)
    /\ fin[f].old \in entries \/ KeyOfFin(f) \in lost

PublishedKeyKept(f) ==
    fin[f].pc \in SettledPCs \ {"failed"} /\ KeyOfFin(f) \notin lost =>
        KeyHasEntry(KeyOfFin(f))

ServedInv == \A f \in Fin : OldOfSameKey(f) /\ PublishedKeyKept(f)

(* Whatever takes an entry notes its key. *)
LEMMA TakenIsNoted ==
    ASSUME TypeOK, RefInv, [Next]_vars
    PROVE  /\ lost \subseteq lost'
           /\ \A e \in entries : e \in entries' \/ KeyOfFin(e) \in lost'
<1>. DEFINE Noted == /\ lost \subseteq lost'
                     /\ \A e \in entries : e \in entries' \/ KeyOfFin(e) \in lost'
<1>1. ASSUME NEW c \in Session, CreateStep(c) \/ AbortCreate(c) \/ Age(c)
      PROVE  Noted
  BY <1>1 DEF CreateStep, CheckUpload, InsertUpload, AbortCreate, Age, cache, sweeps, ghosts
<1>2. ASSUME NEW p \in Put, PutStep(p) \/ AbortPut(p)
      PROVE  Noted
  BY <1>2
     DEF PutStep, FindUploadByID, IncStartedPartCount, OpenPart, WritePart,
         IncFinishedPartCount, AbortPut, cache, sweeps, ghosts
<1>3. ASSUME NEW f \in Fin, FinStep(f) \/ AbortFin(f) PROVE Noted
  <2>1. CASE DropOldLocation(f)
    BY <2>1, ReplaceTakesNone DEF DropOldLocation, sweeps, ghosts
  <2>2. CASE FindUpload(f) \/ CountParts(f) \/ RejectUpload(f)
             \/ InsertStorageLocation(f) \/ FindExisting(f) \/ AbortFin(f)
    BY <2>2 DEF FindUpload, CountParts, RejectUpload, InsertStorageLocation,
                FindExisting, AbortFin, cache, sweeps, ghosts
  <2>3. CASE InsertCacheEntry(f) \/ UpdateCacheEntryLocation(f) \/ DropOldFolder(f)
             \/ DeleteUpload(f)
    BY <2>3 DEF InsertCacheEntry, UpdateCacheEntryLocation, DropOldFolder,
                DeleteUpload, cache, sweeps, ghosts
  <2>. QED
    BY <1>3, <2>1, <2>2, <2>3 DEF FinStep
<1>4. ASSUME NEW e \in Fin, DeleteCacheEntry(e) PROVE Noted
  BY <1>4 DEF DeleteCacheEntry
<1>5. ASSUME ListStaleUploads \/ SweepUpload \/ SweepUploadFails \/ SweepUploadFolder
             \/ ListOrphans \/ ListExpired \/ StopJobs
      PROVE  Noted
  BY <1>5 DEF ListStaleUploads, SweepUpload, SweepUploadFails, SweepUploadFolder,
              ListOrphans, ListExpired, StopJobs, cache, ghosts
<1>6. ASSUME NEW j \in LocJob, SweepLocation(j) PROVE Noted
  BY <1>6 DEF SweepLocation
<1>7. ASSUME NEW j \in LocJob, SweepLocationFails(j) \/ SweepLocationFolder(j)
      PROVE  Noted
  BY <1>7 DEF SweepLocationFails, SweepLocationFolder, cache, ghosts
<1>8. ASSUME UNCHANGED vars PROVE Noted
  BY <1>8 DEF vars, cache, sweeps, ghosts
<1>. QED
  BY <1>1, <1>2, <1>3, <1>4, <1>5, <1>6, <1>7, <1>8 DEF Next, JobStep, Rest

(* Which finalizes a step leaves where they are. *)
LEMMA FinFrame ==
    ASSUME [Next]_vars
    PROVE  fin' = fin \/ \E f \in Fin : FinStep(f) \/ AbortFin(f)
<1>1. ASSUME NEW c \in Session, CreateStep(c) \/ AbortCreate(c) \/ Age(c)
      PROVE  fin' = fin
  BY <1>1 DEF CreateStep, CheckUpload, InsertUpload, AbortCreate, Age
<1>2. ASSUME NEW p \in Put, PutStep(p) \/ AbortPut(p) PROVE fin' = fin
  BY <1>2
     DEF PutStep, FindUploadByID, IncStartedPartCount, OpenPart, WritePart,
         IncFinishedPartCount, AbortPut
<1>3. ASSUME NEW e \in Fin, DeleteCacheEntry(e) PROVE fin' = fin
  BY <1>3 DEF DeleteCacheEntry
<1>4. ASSUME ListStaleUploads \/ SweepUpload \/ SweepUploadFails \/ SweepUploadFolder
             \/ ListOrphans \/ ListExpired \/ StopJobs
      PROVE  fin' = fin
  BY <1>4 DEF ListStaleUploads, SweepUpload, SweepUploadFails, SweepUploadFolder,
              ListOrphans, ListExpired, StopJobs
<1>5. ASSUME NEW j \in LocJob,
             SweepLocation(j) \/ SweepLocationFails(j) \/ SweepLocationFolder(j)
      PROVE  fin' = fin
  BY <1>5 DEF SweepLocation, SweepLocationFails, SweepLocationFolder
<1>6. ASSUME UNCHANGED vars PROVE fin' = fin
  BY <1>6 DEF vars
<1>. QED
  BY <1>1, <1>2, <1>3, <1>4, <1>5, <1>6 DEF Next, JobStep, Rest

(* What a step leaves true of the finalizes that do not move. *)
LEMMA ServedFrame ==
    ASSUME TypeOK, RefInv, ServedInv, [Next]_vars, NEW f \in Fin, fin'[f] = fin[f]
    PROVE  (OldOfSameKey(f) /\ PublishedKeyKept(f))'
<1>1. /\ lost \subseteq lost'
      /\ \A e \in entries : e \in entries' \/ KeyOfFin(e) \in lost'
  BY TakenIsNoted
<1>2. OldOfSameKey(f) /\ PublishedKeyKept(f)
  BY DEF ServedInv
<1>3. OldOfSameKey(f)'
  BY <1>1, <1>2 DEF OldOfSameKey, KeyOfFin
<1>4. PublishedKeyKept(f)'
  <2>1. (\E e \in entries' : KeyOfFin(e) = KeyOfFin(f)) => PublishedKeyKept(f)'
    BY DEF PublishedKeyKept, KeyHasEntry, KeyOfFin
  <2>2. KeyOfFin(f) \in lost' => PublishedKeyKept(f)'
    BY DEF PublishedKeyKept, KeyOfFin
  <2>3. fin[f].pc \notin SettledPCs \ {"failed"} => PublishedKeyKept(f)'
    BY DEF PublishedKeyKept
  <2>4. \/ KeyOfFin(f) \in lost'
        \/ fin[f].pc \notin SettledPCs \ {"failed"}
        \/ \E e \in entries' : KeyOfFin(e) = KeyOfFin(f)
    BY <1>1, <1>2 DEF PublishedKeyKept, KeyHasEntry
  <2>. QED
    BY <2>1, <2>2, <2>3, <2>4
<1>. QED
  BY <1>3, <1>4

(* What the search for the upload makes of a finalize. *)
LEMMA FoundUpload ==
    ASSUME TypeOK, NEW f \in Fin, FindUpload(f)
    PROVE  \/ fin'[f].pc = "none"
           \/ \E u \in uploads :
                 /\ fin'[f].pc = IF CheckCounts(u) THEN "count" ELSE "reject"
                 /\ fin'[f].up = u /\ fin'[f].parts = finished[u]
<1>1. fin \in [Fin -> FinType] /\ fin[f] \in FinType
  BY DEF TypeOK
<1>2. CASE Advance(f, "none")
  BY <1>2, AdvanceFin
<1>3. ASSUME NEW u \in FindUploadByKey(KeyOfFin(f)),
             fin' = [fin EXCEPT ![f] =
                 [@ EXCEPT !.pc = IF CheckCounts(u) THEN "count" ELSE "reject",
                           !.up = u, !.parts = finished[u]]]
      PROVE  /\ fin'[f].pc = IF CheckCounts(u) THEN "count" ELSE "reject"
             /\ fin'[f].up = u /\ fin'[f].parts = finished[u]
  <2>. DEFINE pc == IF CheckCounts(u) THEN "count" ELSE "reject"
  <2>. HIDE DEF pc
  <2>1. fin'[f] = [fin[f] EXCEPT !.pc = pc, !.up = u, !.parts = finished[u]]
    BY <1>1, <1>3 DEF pc
  <2>2. fin'[f].pc = pc /\ fin'[f].up = u /\ fin'[f].parts = finished[u]
    BY <1>1, <2>1 DEF FinType
  <2>. QED
    BY <2>2 DEF pc
<1>. QED
  BY <1>2, <1>3 DEF FindUpload, FindUploadByKey

(* The step of a finalize itself: the lookup finds an entry of its key, the *)
(* INSERT makes one, and the UPDATE finds the one looked up, or it is noted. *)
LEMMA ServedFinStep ==
    ASSUME TypeOK, RefInv, ServedInv, [Next]_vars, NEW f \in Fin,
           FinStep(f) \/ AbortFin(f)
    PROVE  (OldOfSameKey(f) /\ PublishedKeyKept(f))'
<1>0. /\ lost \subseteq lost'
      /\ \A e \in entries : e \in entries' \/ KeyOfFin(e) \in lost'
  BY TakenIsNoted
<1>1. fin \in [Fin -> FinType] /\ fin[f] \in FinType
  BY DEF TypeOK
<1>2. OldOfSameKey(f) /\ PublishedKeyKept(f)
  BY DEF ServedInv
<1>3. (\E e \in entries' : KeyOfFin(e) = KeyOfFin(f)) => PublishedKeyKept(f)'
  BY DEF PublishedKeyKept, KeyHasEntry, KeyOfFin
<1>4. CASE FindUpload(f) \/ CountParts(f) \/ RejectUpload(f) \/ InsertStorageLocation(f)
           \/ AbortFin(f)
  <2>1. fin'[f].pc \notin {"update"} \cup (SettledPCs \ {"failed"})
    <3>1. CASE FindUpload(f)
      BY <3>1, FoundUpload DEF SettledPCs
    <3>2. CASE ~FindUpload(f)
      BY <1>4, <3>2, AdvanceFin DEF CountParts, RejectUpload, InsertStorageLocation,
                                    AbortFin, SettledPCs
    <3>. QED
      BY <3>1, <3>2
  <2>. QED
    BY <2>1 DEF OldOfSameKey, PublishedKeyKept
<1>5. CASE FindExisting(f)
  <2>1. CASE Advance(f, "insert")
    <3>1. fin'[f].pc = "insert"
      BY <2>1, AdvanceFin
    <3>. QED
      BY <3>1 DEF OldOfSameKey, PublishedKeyKept, SettledPCs
  <2>2. ASSUME NEW e \in FindExistingCacheEntryWithLocation(KeyOfFin(f)),
               fin' = [fin EXCEPT ![f] =
                   [@ EXCEPT !.pc = "update", !.old = e, !.oldLoc = locationId[e]]]
        PROVE  (OldOfSameKey(f) /\ PublishedKeyKept(f))'
    <3>1. fin'[f].pc = "update" /\ fin'[f].old = e
      BY <1>1, <2>2 DEF FinType
    <3>2. KeyOfFin(e) = KeyOfFin(f) /\ e \in entries'
      BY <1>5, <2>2 DEF FindExistingCacheEntryWithLocation, FindExisting, cache
    <3>. QED
      BY <3>1, <3>2 DEF OldOfSameKey, PublishedKeyKept, KeyOfFin, SettledPCs
  <2>. QED
    BY <1>5, <2>1, <2>2 DEF FindExisting
<1>6. CASE InsertCacheEntry(f)
  <2>1. CASE f \in locations
    <3>1. fin'[f].pc = "close" /\ f \in entries'
      BY <1>6, <2>1, AdvanceFin DEF InsertCacheEntry
    <3>. QED
      BY <1>3, <3>1 DEF OldOfSameKey
  <2>2. CASE f \notin locations
    <3>1. fin'[f].pc = "failed"
      BY <1>6, <2>2, AdvanceFin DEF InsertCacheEntry
    <3>. QED
      BY <3>1 DEF OldOfSameKey, PublishedKeyKept
  <2>. QED
    BY <2>1, <2>2
<1>7. CASE UpdateCacheEntryLocation(f)
  <2>1. fin[f].pc = "update" /\ fin'[f].pc \in {"dropLoc", "failed"}
    BY <1>7, AdvanceFin DEF UpdateCacheEntryLocation
  <2>2. entries' = entries
    BY <1>7 DEF UpdateCacheEntryLocation
  <2>3. CASE fin[f].old \in entries
    BY <1>2, <1>3, <2>1, <2>2, <2>3 DEF OldOfSameKey
  <2>4. CASE fin[f].old \notin entries
    <3>1. KeyOfFin(f) \in lost'
      BY <1>0, <1>2, <2>1, <2>4 DEF OldOfSameKey
    <3>. QED
      BY <2>1, <3>1 DEF OldOfSameKey, PublishedKeyKept, KeyOfFin
  <2>. QED
    BY <2>3, <2>4
<1>8. CASE DropOldLocation(f) \/ DropOldFolder(f) \/ DeleteUpload(f)
  <2>1. fin[f].pc \in SettledPCs \ {"failed"} /\ fin'[f].pc # "update"
    BY <1>8, AdvanceFin DEF DropOldLocation, DropOldFolder, DeleteUpload, SettledPCs
  <2>2. CASE KeyOfFin(f) \in lost'
    BY <2>1, <2>2 DEF OldOfSameKey, PublishedKeyKept, KeyOfFin
  <2>3. CASE KeyOfFin(f) \notin lost'
    <3>1. KeyHasEntry(KeyOfFin(f))
      BY <1>0, <1>2, <2>1, <2>3 DEF PublishedKeyKept
    <3>2. \E e \in entries' : KeyOfFin(e) = KeyOfFin(f)
      BY <1>0, <2>3, <3>1 DEF KeyHasEntry
    <3>. QED
      BY <1>3, <2>1, <3>2 DEF OldOfSameKey
  <2>. QED
    BY <2>2, <2>3
<1>. QED
  BY <1>4, <1>5, <1>6, <1>7, <1>8 DEF FinStep

(* A finalize moves alone. *)
LEMMA FinMovesAlone ==
    ASSUME TypeOK, NEW f \in Fin, FinStep(f) \/ AbortFin(f), NEW g \in Fin, g # f
    PROVE  fin'[g] = fin[g]
<1>1. fin \in [Fin -> FinType]
  BY DEF TypeOK
<1>. QED
  BY <1>1 DEF FinStep, AbortFin, FindUpload, CountParts, RejectUpload,
              InsertStorageLocation, FindExisting, InsertCacheEntry,
              UpdateCacheEntryLocation, DropOldLocation, DropOldFolder,
              DeleteUpload, Advance

(* So ServedInv is inductive on top of RefInv. *)
LEMMA ServedStep ==
    TypeOK /\ RefInv /\ ServedInv /\ [Next]_vars => ServedInv'
<1>. SUFFICES ASSUME TypeOK, RefInv, ServedInv, [Next]_vars PROVE ServedInv'
  OBVIOUS
<1>1. SUFFICES ASSUME NEW f \in Fin PROVE (OldOfSameKey(f) /\ PublishedKeyKept(f))'
  BY DEF ServedInv
<1>2. CASE fin'[f] = fin[f]
  BY <1>2, ServedFrame
<1>3. CASE fin'[f] # fin[f]
  <2>1. FinStep(f) \/ AbortFin(f)
    BY <1>3, FinFrame, FinMovesAlone
  <2>. QED
    BY <2>1, ServedFinStep
<1>. QED
  BY <1>2, <1>3

(* A save that was reported as a success has an entry of its key, and that  *)
(* entry a location with a row, until a job or the management API takes an  *)
(* entry of the key: however many finalizes of the key interleave or stop   *)
(* between two of the statements of CompleteUpload.                         *)
THEOREM SavedKeysAreServed == Spec => []SavedKeyIsServed
<1>1. Init => ServedInv
  BY DEF Init, ServedInv, OldOfSameKey, PublishedKeyKept, SettledPCs
<1>2. Spec => []ServedInv
  BY <1>1, ServedStep, References, PTL DEF Spec
<1>3. ServedInv /\ (\A e \in entries : locationId[e] \in locations) => SavedKeyIsServed
  BY DEF ServedInv, PublishedKeyKept, KeyHasEntry, SavedKeyIsServed, SettledPCs
<1>. QED
  BY <1>2, <1>3, EntriesServed, PTL

-----------------------------------------------------------------------------
(* A cache entry leads to one whole upload, but for the accidents that      *)
(* OwnUploadIntact names.  The argument follows the upload c of a save from *)
(* its row to the entry: while the row is there, each put of c that has     *)
(* been answered is counted, and its part is whole; a finalize that accepts *)
(* c finds them all; and from then on only a delete of the folder could     *)
(* take a part, which each deleter does in the name of a location whose row *)
(* it has seen.  Hence OnlyInserted: whoever has a location in hand, to     *)
(* sweep or to replace, has it from a finalize that inserted it.           *)

Done(c) == {p \in Put : Owner(p) = c /\ put[p] = "done"}

(* A client sends nothing before it has its upload. *)
NothingBeforeCreate == \A c \in Session : create[c] # "ok" =>
    /\ c \notin uploads /\ finished[c] = 0
    /\ \A p \in Put : Owner(p) = c => put[p] = "idle"

FinishedCounted == \A c \in uploads :
    IsFiniteSet(Done(c)) /\ Cardinality(Done(c)) = finished[c]

(* No finalize accepts an upload without parts. *)
NotEmpty == \A f \in Fin :
    fin[f].pc \in {"count", "insertLoc"} \cup (InsertedPCs \ {"failed"}) => fin[f].parts # 0

OnlyInserted ==
    /\ \A l \in locations : Inserted(l)
    /\ \A j \in LocJob : \A l \in locSweep[j].todo \cup locSweep[j].drop : Inserted(l)
    /\ \A f \in Fin : fin[f].pc \in {"update", "dropLoc", "dropFolder"} => Inserted(fin[f].oldLoc)

OldRowGone == \A f \in Fin : fin[f].pc = "dropFolder" => fin[f].oldLoc \notin locations

RowInv == NothingBeforeCreate /\ FinishedCounted /\ NotEmpty /\ OnlyInserted /\ OldRowGone

InsertedBy(c) == {f \in Fin : Inserted(f) /\ Folder(f) = c}

(* The puts of an upload that is still there, each part sent once. *)
PartsKept == \A c \in uploads :
    c \notin swept /\ Single(c) /\ InsertedBy(c) = {} =>
        \A p \in Put : Owner(p) = c =>
            /\ put[p] \in {"written", "done"} => Part(p) \in whole[c]
            /\ put[p] = "writing" => AtomicPut \/ p \in linked

(* A finalize that has accepted its own upload, until its location is gone. *)
Keeps(f) == fin[f].pc \in {"count", "insertLoc"} \/ f \in locations

SaveKept == \A f \in Fin :
    /\ Keeps(f) /\ f[1] = Folder(f) /\ Folder(f) \notin swept
    /\ Single(Folder(f)) /\ InsertedBy(Folder(f)) \subseteq {f}
    => PartsAcked(Folder(f)) /\ Intact(f)

FolderInv == PartsKept /\ SaveKept

-----------------------------------------------------------------------------
(* What a step does to one request.                                         *)

(* A put that moves does so by a statement of its own. *)
LEMMA PutFrame ==
    ASSUME [Next]_vars
    PROVE  put' = put \/ \E p \in Put : PutStep(p) \/ AbortPut(p)
<1>1. ASSUME NEW c \in Session, CreateStep(c) \/ AbortCreate(c) \/ Age(c)
      PROVE  put' = put
  BY <1>1 DEF CreateStep, CheckUpload, InsertUpload, AbortCreate, Age
<1>2. ASSUME NEW f \in Fin, FinStep(f) \/ AbortFin(f) \/ DeleteCacheEntry(f)
      PROVE  put' = put
  BY <1>2 DEF FinStep, AbortFin, FindUpload, CountParts, RejectUpload,
              InsertStorageLocation, FindExisting, InsertCacheEntry,
              UpdateCacheEntryLocation, DropOldLocation, DropOldFolder,
              DeleteUpload, DeleteCacheEntry
<1>3. ASSUME ListStaleUploads \/ SweepUpload \/ SweepUploadFails \/ SweepUploadFolder
             \/ ListOrphans \/ ListExpired \/ StopJobs
      PROVE  put' = put
  BY <1>3 DEF ListStaleUploads, SweepUpload, SweepUploadFails, SweepUploadFolder,
              ListOrphans, ListExpired, StopJobs
<1>4. ASSUME NEW j \in LocJob,
             SweepLocation(j) \/ SweepLocationFails(j) \/ SweepLocationFolder(j)
      PROVE  put' = put
  BY <1>4 DEF SweepLocation, SweepLocationFails, SweepLocationFolder
<1>5. ASSUME UNCHANGED vars PROVE put' = put
  BY <1>5 DEF vars
<1>. QED
  BY <1>1, <1>2, <1>3, <1>4, <1>5 DEF Next, JobStep, Rest

(* The order of the states of a put. *)
LEMMA PutMoves ==
    ASSUME TypeOK, NEW p \in Put, PutStep(p) \/ AbortPut(p)
    PROVE  /\ \A q \in Put : q # p => put'[q] = put[q]
           /\ put[p] # "done" /\ put'[p] # "idle"
           /\ put'[p] = "writing" => OpenPart(p)
           /\ put'[p] = "written" => WritePart(p)
           /\ put'[p] = "done" => \/ put[p] = "written" /\ IncFinishedPartCount(p)
                                  \/ Owner(p) \notin uploads /\ uploads' = uploads
           /\ put[p] = "idle" => create[Owner(p)] = "ok"
<1>1. put \in [Put -> PutPCs]
  BY DEF TypeOK
<1>. QED
  BY <1>1 DEF PutStep, FindUploadByID, IncStartedPartCount, OpenPart, WritePart,
              IncFinishedPartCount, AbortPut, rows

(* Hence an answered put stays answered, and a put once sent stays sent. *)
LEMMA PutsGoOn ==
    ASSUME TypeOK, [Next]_vars, NEW p \in Put
    PROVE  /\ put[p] = "done" => put'[p] = "done"
           /\ put'[p] = "idle" => put[p] = "idle"
  BY PutFrame, PutMoves

(* A part that was sent twice stays sent twice. *)
LEMMA SingleBefore ==
    ASSUME TypeOK, [Next]_vars, NEW c, Single(c)'
    PROVE  Single(c)
  BY PutsGoOn DEF Single, Owner, Part

(* What the search for an entry to replace makes of a finalize. *)
LEMMA FoundEntry ==
    ASSUME TypeOK, NEW f \in Fin, FindExisting(f)
    PROVE  /\ fin'[f].up = fin[f].up /\ fin'[f].parts = fin[f].parts
           /\ \/ fin'[f].pc = "insert"
              \/ fin'[f].pc = "update" /\ fin'[f].oldLoc \in locations
<1>1. fin \in [Fin -> FinType] /\ fin[f] \in FinType
  BY DEF TypeOK
<1>2. CASE Advance(f, "insert")
  BY <1>2, AdvanceFin
<1>3. ASSUME NEW e \in FindExistingCacheEntryWithLocation(KeyOfFin(f)),
             fin' = [fin EXCEPT ![f] =
                 [@ EXCEPT !.pc = "update", !.old = e, !.oldLoc = locationId[e]]]
      PROVE  /\ fin'[f].up = fin[f].up /\ fin'[f].parts = fin[f].parts
             /\ fin'[f].pc = "update" /\ fin'[f].oldLoc \in locations
  <2>1. fin'[f] = [fin[f] EXCEPT !.pc = "update", !.old = e, !.oldLoc = locationId[e]]
    BY <1>1, <1>3
  <2>2. /\ fin'[f].up = fin[f].up /\ fin'[f].parts = fin[f].parts
        /\ fin'[f].pc = "update" /\ fin'[f].oldLoc = locationId[e]
    BY <1>1, <2>1 DEF FinType
  <2>. QED
    BY <1>3, <2>2 DEF FindExistingCacheEntryWithLocation
<1>. QED
  BY <1>2, <1>3 DEF FindExisting

(* Past the search, a finalize keeps its upload and the number of parts;    *)
(* where it gets from where.                                               *)
LEMMA FinMoves ==
    ASSUME TypeOK, NEW f \in Fin, FinStep(f) \/ AbortFin(f), ~FindUpload(f)
    PROVE  /\ fin'[f].up = fin[f].up /\ fin'[f].parts = fin[f].parts
           /\ fin[f].pc \in InsertedPCs => fin'[f].pc \in InsertedPCs
           /\ fin'[f].pc # "count"
           /\ fin'[f].pc = "insertLoc" => fin[f].pc = "count"
           /\ fin'[f].pc \in InsertedPCs \ {"failed"} =>
                  fin[f].pc \in {"insertLoc"} \cup (InsertedPCs \ {"failed"})
           /\ fin'[f].pc \in {"update", "dropLoc", "dropFolder"} =>
                  \/ FindExisting(f)
                  \/ /\ fin[f].pc \in {"update", "dropLoc"}
                     /\ fin'[f].oldLoc = fin[f].oldLoc
           /\ fin'[f].pc = "dropFolder" => DropOldLocation(f)
<1>1. CASE FindExisting(f)
  BY <1>1, FoundEntry DEF FindExisting, InsertedPCs
<1>2. CASE ~FindExisting(f)
  <2>. USE AdvanceFin DEF InsertedPCs, SettledPCs, FinEnds
  <2>1. CASE CountParts(f)
    BY <2>1 DEF CountParts
  <2>2. CASE RejectUpload(f)
    BY <2>2 DEF RejectUpload
  <2>3. CASE InsertStorageLocation(f)
    BY <2>3 DEF InsertStorageLocation
  <2>4. CASE InsertCacheEntry(f)
    BY <2>4 DEF InsertCacheEntry
  <2>5. CASE UpdateCacheEntryLocation(f)
    BY <2>5 DEF UpdateCacheEntryLocation
  <2>6. CASE DropOldLocation(f)
    BY <2>6 DEF DropOldLocation
  <2>7. CASE DropOldFolder(f)
    BY <2>7 DEF DropOldFolder
  <2>8. CASE DeleteUpload(f)
    BY <2>8 DEF DeleteUpload
  <2>9. CASE AbortFin(f)
    BY <2>9 DEF AbortFin
  <2>. QED
    BY <1>2, <2>1, <2>2, <2>3, <2>4, <2>5, <2>6, <2>7, <2>8, <2>9 DEF FinStep
<1>. QED
  BY <1>1, <1>2

(* A location stays inserted, with the folder and parts it was given. *)
LEMMA InsertedStays ==
    ASSUME TypeOK, [Next]_vars, NEW l \in Fin, Inserted(l)
    PROVE  Inserted(l)' /\ fin'[l].up = fin[l].up /\ fin'[l].parts = fin[l].parts
<1>1. CASE fin'[l] = fin[l]
  BY <1>1 DEF Inserted
<1>2. CASE fin'[l] # fin[l]
  <2>1. FinStep(l) \/ AbortFin(l)
    BY <1>2, FinFrame, FinMovesAlone
  <2>2. ~FindUpload(l)
    BY DEF FindUpload, Inserted, InsertedPCs, SettledPCs
  <2>. QED
    BY <2>1, <2>2, FinMoves DEF Inserted
<1>. QED
  BY <1>1, <1>2

(* So no folder loses a location that was inserted for it. *)
LEMMA InsertedByGrows ==
    ASSUME TypeOK, [Next]_vars, NEW c
    PROVE  InsertedBy(c) \subseteq InsertedBy(c)'
  BY InsertedStays DEF InsertedBy, Folder

(* Where a new row of a location, and a row of an upload, comes from. *)
LEMMA RowsAdded ==
    ASSUME TypeOK, [Next]_vars
    PROVE  /\ \A l \in locations' : l \in locations \/ InsertStorageLocation(l)
           /\ \A c \in uploads' : c \in uploads \/ InsertUpload(c)
<1>. DEFINE Added == /\ \A l \in locations' : l \in locations \/ InsertStorageLocation(l)
                     /\ \A c \in uploads' : c \in uploads \/ InsertUpload(c)
<1>1. ASSUME NEW c \in Session, CreateStep(c) \/ AbortCreate(c) \/ Age(c)
      PROVE  Added
  BY <1>1 DEF CreateStep, CheckUpload, InsertUpload, AbortCreate, Age, cache, rows
<1>2. ASSUME NEW p \in Put, PutStep(p) \/ AbortPut(p)
      PROVE  Added
  BY <1>2
     DEF PutStep, FindUploadByID, IncStartedPartCount, OpenPart, WritePart,
         IncFinishedPartCount, AbortPut, cache, rows
<1>3. ASSUME NEW f \in Fin, FinStep(f) \/ AbortFin(f) \/ DeleteCacheEntry(f) PROVE Added
  <2>1. CASE InsertStorageLocation(f)
    BY <2>1 DEF InsertStorageLocation, rows
  <2>2. CASE FindUpload(f) \/ CountParts(f) \/ RejectUpload(f) \/ FindExisting(f)
             \/ AbortFin(f) \/ DropOldFolder(f) \/ DeleteUpload(f)
    BY <2>2 DEF FindUpload, CountParts, RejectUpload, FindExisting, AbortFin,
                DropOldFolder, DeleteUpload, cache, rows
  <2>3. CASE InsertCacheEntry(f) \/ UpdateCacheEntryLocation(f) \/ DropOldLocation(f)
             \/ DeleteCacheEntry(f)
    BY <2>3 DEF InsertCacheEntry, UpdateCacheEntryLocation, DropOldLocation,
                DeleteStorageLocation, DeleteCacheEntry, rows
  <2>. QED
    BY <1>3, <2>1, <2>2, <2>3 DEF FinStep
<1>4. ASSUME ListStaleUploads \/ SweepUpload \/ SweepUploadFails \/ SweepUploadFolder
             \/ ListOrphans \/ ListExpired \/ StopJobs
      PROVE  Added
  BY <1>4 DEF ListStaleUploads, SweepUpload, SweepUploadFails, SweepUploadFolder,
              ListOrphans, ListExpired, StopJobs, cache, rows
<1>5. ASSUME NEW j \in LocJob,
             SweepLocation(j) \/ SweepLocationFails(j) \/ SweepLocationFolder(j)
      PROVE  Added
  BY <1>5 DEF SweepLocation, SweepLocationFails, SweepLocationFolder,
              DeleteStorageLocation, cache, rows
<1>6. ASSUME UNCHANGED vars PROVE Added
  BY <1>6 DEF vars, cache, rows
<1>. QED
  BY <1>1, <1>2, <1>3, <1>4, <1>5, <1>6 DEF Next, JobStep, Rest

(* What a job has in hand was there before, or is listed from the rows. *)
LEMMA SweepsAdded ==
    ASSUME TypeOK, [Next]_vars, NEW j \in LocJob
    PROVE  locSweep'[j].todo \cup locSweep'[j].drop
               \subseteq locSweep[j].todo \cup locSweep[j].drop \cup locations
<1>. DEFINE Hand == locSweep'[j].todo \cup locSweep'[j].drop
                        \subseteq locSweep[j].todo \cup locSweep[j].drop \cup locations
<1>0. locSweep \in [LocJob -> Sweep(Fin)] /\ \A i \in LocJob : locSweep[i] \in Sweep(Fin)
  BY DEF TypeOK
<1>1. CASE locSweep' = locSweep
  BY <1>1
<1>2. CASE ListOrphans
  <2>1. PICK S \in Page(ListOrphanedStorageLocations, locSweep["orphans"].page) :
            locSweep' = [locSweep EXCEPT !["orphans"] = Listed(@, S)]
    BY <1>2 DEF ListOrphans
  <2>2. S \subseteq locations
    BY <2>1 DEF Page, ListOrphanedStorageLocations
  <2>. QED
    BY <1>0, <2>1, <2>2 DEF Listed
<1>3. CASE ListExpired
  <2>1. PICK l \in locations :
            locSweep' = [locSweep EXCEPT !["expiry"] = [@ EXCEPT !.todo = {l}]]
    BY <1>3 DEF ListExpired
  <2>2. CASE j = "expiry"
    <3>1. locSweep'[j] = [locSweep[j] EXCEPT !.todo = {l}]
      BY <1>0, <2>1, <2>2
    <3>2. locSweep'[j].todo = {l} /\ locSweep'[j].drop = locSweep[j].drop
      BY <1>0, <3>1 DEF Sweep
    <3>. QED
      BY <3>2
  <2>3. CASE j # "expiry"
    BY <1>0, <2>1, <2>3
  <2>. QED
    BY <2>2, <2>3
<1>4. ASSUME NEW i \in LocJob, SweepLocation(i) \/ SweepLocationFails(i) PROVE Hand
  <2>1. PICK l \in locSweep[i].todo : locSweep' = [locSweep EXCEPT ![i] = Taken(@, l)]
    BY <1>4 DEF SweepLocation, SweepLocationFails
  <2>. QED
    BY <1>0, <2>1 DEF Taken
<1>5. ASSUME NEW i \in LocJob, SweepLocationFolder(i) PROVE Hand
  <2>1. locSweep' = [locSweep EXCEPT ![i] = [@ EXCEPT !.drop = {}]]
    BY <1>5 DEF SweepLocationFolder
  <2>2. CASE i = j
    <3>1. locSweep'[j] = [locSweep[j] EXCEPT !.drop = {}]
      BY <1>0, <2>1, <2>2
    <3>2. locSweep'[j].todo = locSweep[j].todo /\ locSweep'[j].drop = {}
      BY <1>0, <3>1 DEF Sweep
    <3>. QED
      BY <3>2
  <2>3. CASE i # j
    BY <1>0, <2>1, <2>3
  <2>. QED
    BY <2>2, <2>3
<1>6. CASE StopJobs
  BY <1>6 DEF StopJobs, Idle
<1>7. ASSUME NEW c \in Session, CreateStep(c) \/ AbortCreate(c) \/ Age(c)
      PROVE  locSweep' = locSweep
  BY <1>7 DEF CreateStep, CheckUpload, InsertUpload, AbortCreate, Age, sweeps
<1>8. ASSUME NEW p \in Put, PutStep(p) \/ AbortPut(p) PROVE locSweep' = locSweep
  BY <1>8
     DEF PutStep, FindUploadByID, IncStartedPartCount, OpenPart, WritePart,
         IncFinishedPartCount, AbortPut, sweeps
<1>9. ASSUME NEW f \in Fin, FinStep(f) \/ AbortFin(f) \/ DeleteCacheEntry(f)
      PROVE  locSweep' = locSweep
  BY <1>9 DEF FinStep, AbortFin, FindUpload, CountParts, RejectUpload,
              InsertStorageLocation, FindExisting, InsertCacheEntry,
              UpdateCacheEntryLocation, DropOldLocation, DropOldFolder,
              DeleteUpload, DeleteCacheEntry, sweeps
<1>10. ASSUME ListStaleUploads \/ SweepUpload \/ SweepUploadFails \/ SweepUploadFolder
       PROVE  locSweep' = locSweep
  BY <1>10 DEF ListStaleUploads, SweepUpload, SweepUploadFails, SweepUploadFolder
<1>11. ASSUME UNCHANGED vars PROVE locSweep' = locSweep
  BY <1>11 DEF vars, sweeps
<1>. QED
  BY <1>1, <1>2, <1>3, <1>4, <1>5, <1>6, <1>7, <1>8, <1>9, <1>10, <1>11
     DEF Next, JobStep, Rest

(* Only the end of a put counts as finished, only CreateUpload makes one of *)
(* the requests that create an upload move.                                *)
LEMMA CountFrame ==
    ASSUME [Next]_vars
    PROVE  /\ finished' = finished \/ \E p \in Put : IncFinishedPartCount(p)
           /\ create' = create \/ \E c \in Session : CreateStep(c) \/ AbortCreate(c)
<1>1. ASSUME NEW c \in Session, CreateStep(c) \/ AbortCreate(c)
      PROVE  finished' = finished
  BY <1>1 DEF CreateStep, CheckUpload, InsertUpload, AbortCreate, rows
<1>2. ASSUME NEW c \in Session, Age(c) PROVE finished' = finished /\ create' = create
  BY <1>2 DEF Age
<1>3. ASSUME NEW p \in Put, PutStep(p) \/ AbortPut(p)
      PROVE  create' = create /\ (finished' = finished \/ IncFinishedPartCount(p))
  BY <1>3
     DEF PutStep, FindUploadByID, IncStartedPartCount, OpenPart, WritePart,
         IncFinishedPartCount, AbortPut, rows
<1>4. ASSUME NEW f \in Fin, FinStep(f) \/ AbortFin(f) \/ DeleteCacheEntry(f)
      PROVE  finished' = finished /\ create' = create
  BY <1>4 DEF FinStep, AbortFin, FindUpload, CountParts, RejectUpload,
              InsertStorageLocation, FindExisting, InsertCacheEntry,
              UpdateCacheEntryLocation, DropOldLocation, DropOldFolder,
              DeleteUpload, DeleteCacheEntry, rows
<1>5. ASSUME ListStaleUploads \/ SweepUpload \/ SweepUploadFails \/ SweepUploadFolder
             \/ ListOrphans \/ ListExpired \/ StopJobs
      PROVE  finished' = finished /\ create' = create
  BY <1>5 DEF ListStaleUploads, SweepUpload, SweepUploadFails, SweepUploadFolder,
              ListOrphans, ListExpired, StopJobs, rows
<1>6. ASSUME NEW j \in LocJob,
             SweepLocation(j) \/ SweepLocationFails(j) \/ SweepLocationFolder(j)
      PROVE  finished' = finished /\ create' = create
  BY <1>6 DEF SweepLocation, SweepLocationFails, SweepLocationFolder, rows
<1>7. ASSUME UNCHANGED vars PROVE finished' = finished /\ create' = create
  BY <1>7 DEF vars, rows
<1>. QED
  BY <1>1, <1>2, <1>3, <1>4, <1>5, <1>6, <1>7 DEF Next, JobStep, Rest

(* Nothing is sent or counted before the upload is created. *)
LEMMA NothingBeforeCreateStep ==
    ASSUME TypeOK, NothingBeforeCreate, [Next]_vars
    PROVE  NothingBeforeCreate'
<1>. SUFFICES ASSUME NEW c \in Session, create'[c] # "ok"
              PROVE  /\ c \notin uploads' /\ finished'[c] = 0
                     /\ \A p \in Put : Owner(p) = c => put'[p] = "idle"
  BY DEF NothingBeforeCreate, Owner
<1>1. create \in [Session -> {"idle", "checked", "busy", "ok", "failed"}]
      /\ finished \in [Session -> Nat]
  BY DEF TypeOK
<1>2. create[c] # "ok"
  BY <1>1, CountFrame DEF CreateStep, CheckUpload, InsertUpload, AbortCreate
<1>3. c \notin uploads /\ finished[c] = 0 /\ \A p \in Put : Owner(p) = c => put[p] = "idle"
  BY <1>2 DEF NothingBeforeCreate
<1>4. c \notin uploads'
  BY <1>1, <1>3, RowsAdded DEF InsertUpload
<1>5. finished'[c] = 0
  <2>1. ASSUME NEW p \in Put, IncFinishedPartCount(p) PROVE finished'[c] = 0
    BY <1>1, <1>3, <2>1 DEF IncFinishedPartCount
  <2>. QED
    BY <1>3, <2>1, CountFrame
<1>6. ASSUME NEW p \in Put, Owner(p) = c PROVE put'[p] = "idle"
  <2>1. put[p] = "idle"
    BY <1>3, <1>6
  <2>2. ~(PutStep(p) \/ AbortPut(p))
    BY <1>2, <1>6, <2>1, PutMoves
  <2>. QED
    BY <2>1, <2>2, PutFrame, PutMoves
<1>. QED
  BY <1>4, <1>5, <1>6

(* The count of finished parts is the number of puts that were answered,    *)
(* as long as the row is there: an answered put was counted.                *)
LEMMA FinishedCountedStep ==
    ASSUME TypeOK, NothingBeforeCreate, FinishedCounted, [Next]_vars
    PROVE  FinishedCounted'
<1>. SUFFICES ASSUME NEW c \in uploads'
              PROVE  IsFiniteSet(Done(c)') /\ Cardinality(Done(c)') = finished'[c]
  BY DEF FinishedCounted
<1>0. put \in [Put -> PutPCs] /\ finished \in [Session -> Nat] /\ uploads \subseteq Session
      /\ c \in Session
  <2>1. TypeOK'
    BY TypeStep
  <2>. QED
    BY <2>1 DEF TypeOK
<1>1. Done(c)' = {p \in Put : Owner(p) = c /\ put'[p] = "done"}
  BY DEF Done, Owner
<1>2. CASE c \notin uploads
  <2>1. InsertUpload(c)
    BY <1>2, RowsAdded
  <2>2. finished' = finished /\ put' = put /\ create[c] # "ok"
    BY <2>1 DEF InsertUpload
  <2>3. finished'[c] = 0 /\ Done(c)' = {}
    BY <1>0, <1>1, <2>2 DEF NothingBeforeCreate
  <2>. QED
    BY <2>3, FS_EmptySet
<1>3. CASE c \in uploads
  <2>1. IsFiniteSet(Done(c)) /\ Cardinality(Done(c)) = finished[c]
    BY <1>3 DEF FinishedCounted
  <2>2. CASE \E p \in Put : Owner(p) = c /\ put[p] # "done" /\ put'[p] = "done"
    <3>1. PICK p \in Put : Owner(p) = c /\ put[p] # "done" /\ put'[p] = "done"
      BY <2>2
    <3>2. PutStep(p) \/ AbortPut(p)
      BY <3>1, PutFrame, PutMoves
    <3>3. IncFinishedPartCount(p) /\ \A q \in Put : q # p => put'[q] = put[q]
      BY <1>3, <3>1, <3>2, PutMoves
    <3>4. finished'[c] = finished[c] + 1
      BY <1>0, <1>3, <3>1, <3>3 DEF IncFinishedPartCount
    <3>5. Done(c)' = Done(c) \cup {p} /\ p \notin Done(c)
      BY <1>1, <3>1, <3>3 DEF Done
    <3>. QED
      BY <2>1, <3>4, <3>5, FS_AddElement
  <2>3. CASE \A p \in Put : Owner(p) = c /\ put'[p] = "done" => put[p] = "done"
    <3>1. Done(c)' = Done(c)
      BY <1>1, <2>3, PutsGoOn DEF Done
    <3>2. finished'[c] = finished[c]
      <4>1. ASSUME NEW p \in Put, IncFinishedPartCount(p) PROVE Owner(p) # c
        BY <1>0, <2>3, <4>1 DEF IncFinishedPartCount
      <4>2. ASSUME NEW p \in Put, IncFinishedPartCount(p) PROVE finished'[c] = finished[c]
        BY <1>0, <4>1, <4>2 DEF IncFinishedPartCount
      <4>. QED
        BY <4>2, CountFrame
    <3>. QED
      BY <2>1, <3>1, <3>2
  <2>. QED
    BY <2>2, <2>3
<1>. QED
  BY <1>2, <1>3

(* CheckCounts refuses an upload without finished parts. *)
LEMMA NotEmptyStep ==
    ASSUME TypeOK, NotEmpty, [Next]_vars
    PROVE  NotEmpty'
<1>. SUFFICES ASSUME NEW f \in Fin,
                     fin'[f].pc \in {"count", "insertLoc"} \cup (InsertedPCs \ {"failed"})
              PROVE  fin'[f].parts # 0
  BY DEF NotEmpty
<1>1. CASE fin'[f] = fin[f]
  BY <1>1 DEF NotEmpty
<1>2. CASE FindUpload(f)
  BY <1>2, FoundUpload DEF CheckCounts, InsertedPCs, SettledPCs
<1>3. CASE (FinStep(f) \/ AbortFin(f)) /\ ~FindUpload(f)
  BY <1>3, FinMoves DEF NotEmpty
<1>. QED
  BY <1>1, <1>2, <1>3, FinFrame, FinMovesAlone

(* Jobs list, and lookups join, rows of locations that were inserted. *)
LEMMA OnlyInsertedStep ==
    ASSUME TypeOK, NotEmpty, OnlyInserted, [Next]_vars
    PROVE  OnlyInserted'
<1>0. /\ locations \subseteq Fin /\ locations' \subseteq Fin
      /\ \A j \in LocJob : locSweep[j].todo \cup locSweep[j].drop \subseteq Fin
      /\ \A f \in Fin : fin[f].oldLoc \in Fin
  <2>1. TypeOK'
    BY TypeStep
  <2>. QED
    BY <2>1 DEF TypeOK, Sweep, FinType
<1>1. ASSUME NEW l \in locations' PROVE Inserted(l)'
  <2>1. CASE l \in locations
    BY <1>0, <2>1, InsertedStays DEF OnlyInserted
  <2>2. CASE InsertStorageLocation(l)
    BY <1>0, <2>2, AdvanceFin DEF InsertStorageLocation, Inserted, InsertedPCs, NotEmpty
  <2>. QED
    BY <2>1, <2>2, RowsAdded
<1>2. ASSUME NEW j \in LocJob, NEW l \in locSweep'[j].todo \cup locSweep'[j].drop
      PROVE  Inserted(l)'
  <2>1. l \in locSweep[j].todo \cup locSweep[j].drop \cup locations
    BY SweepsAdded
  <2>2. l \in Fin /\ Inserted(l)
    BY <1>0, <2>1 DEF OnlyInserted
  <2>. QED
    BY <2>2, InsertedStays
<1>3. ASSUME NEW f \in Fin, fin'[f].pc \in {"update", "dropLoc", "dropFolder"}
      PROVE  \E l \in Fin : fin'[f].oldLoc = l /\ Inserted(l)
  <2>1. CASE fin'[f] = fin[f]
    BY <1>0, <1>3, <2>1 DEF OnlyInserted
  <2>2. CASE FindExisting(f)
    <3>1. fin'[f].oldLoc \in locations
      BY <1>3, <2>2, FoundEntry
    <3>. QED
      BY <1>0, <3>1 DEF OnlyInserted
  <2>3. CASE FindUpload(f)
    BY <1>3, <2>3, FoundUpload
  <2>4. CASE (FinStep(f) \/ AbortFin(f)) /\ ~FindUpload(f) /\ ~FindExisting(f)
    <3>1. fin[f].pc \in {"update", "dropLoc"} /\ fin'[f].oldLoc = fin[f].oldLoc
      BY <1>3, <2>4, FinMoves
    <3>. QED
      BY <1>0, <3>1 DEF OnlyInserted
  <2>. QED
    BY <2>1, <2>2, <2>3, <2>4, FinFrame, FinMovesAlone
<1>4. ASSUME NEW f \in Fin, fin'[f].pc \in {"update", "dropLoc", "dropFolder"}
      PROVE  Inserted(fin[f].oldLoc)'
  <2>1. PICK l \in Fin : fin'[f].oldLoc = l /\ Inserted(l)
    BY <1>3, <1>4
  <2>2. Inserted(l)'
    BY <2>1, InsertedStays
  <2>. QED
    BY <2>1, <2>2
<1>. QED
  BY <1>1, <1>2, <1>4 DEF OnlyInserted

(* The old row is deleted before the old folder, and never comes back. *)
LEMMA OldRowGoneStep ==
    ASSUME TypeOK, OnlyInserted, OldRowGone, [Next]_vars
    PROVE  OldRowGone'
<1>. SUFFICES ASSUME NEW f \in Fin, fin'[f].pc = "dropFolder"
              PROVE  fin'[f].oldLoc \notin locations'
  BY DEF OldRowGone
<1>1. CASE fin'[f] = fin[f]
  <2>1. Inserted(fin[f].oldLoc) /\ fin[f].oldLoc \notin locations
    BY <1>1 DEF OnlyInserted, OldRowGone
  <2>2. ~InsertStorageLocation(fin[f].oldLoc)
    BY <2>1 DEF InsertStorageLocation, Inserted, InsertedPCs, SettledPCs
  <2>. QED
    BY <1>1, <2>1, <2>2, RowsAdded
<1>2. CASE FindUpload(f)
  BY <1>2, FoundUpload
<1>3. CASE (FinStep(f) \/ AbortFin(f)) /\ ~FindUpload(f)
  <2>1. DropOldLocation(f)
    BY <1>3, FinMoves
  <2>. QED
    BY <2>1, AdvanceFin DEF DropOldLocation, DeleteStorageLocation
<1>. QED
  BY <1>1, <1>2, <1>3, FinFrame, FinMovesAlone

(* So RowInv is inductive on top of the types. *)
LEMMA RowStep == TypeOK /\ RowInv /\ [Next]_vars => RowInv'
  BY NothingBeforeCreateStep, FinishedCountedStep, NotEmptyStep, OnlyInsertedStep,
     OldRowGoneStep DEF RowInv

-----------------------------------------------------------------------------
(* What happens to the parts of an upload.                                  *)

FolderAlone(c) == /\ whole'[c] = whole[c]
                  /\ \A p \in Put : Owner(p) = c => (p \in linked' <=> p \in linked)

(* A folder is deleted for the sake of a location that was inserted for it  *)
(* and has no row any more, or it is noted in swept.                        *)
DeletedForGood(c) == \E l \in InsertedBy(c) : l \notin locations /\ locations' = locations

(* DeleteFolder takes one folder. *)
LEMMA DeletedFolder ==
    ASSUME TypeOK, NEW c \in Session, NEW d \in Session, DeleteFolder(d), d # c
    PROVE  FolderAlone(c)
  BY DEF TypeOK, DeleteFolder, FolderAlone

(* A put works on its own folder. *)
LEMMA OtherFolders ==
    ASSUME TypeOK, NEW c \in Session, NEW p \in Put, PutStep(p) \/ AbortPut(p),
           Owner(p) # c
    PROVE  FolderAlone(c)
<1>1. /\ stored \in [Session -> SUBSET Index] /\ whole \in [Session -> SUBSET Index]
      /\ Owner(p) \in Session
  BY DEF TypeOK, Put, Owner
<1>2. CASE OpenPart(p)
  <2>1. CASE AtomicPut
    BY <1>2, <2>1 DEF OpenPart, files, FolderAlone
  <2>2. CASE ~AtomicPut
    <3>1. /\ whole' = [whole EXCEPT ![Owner(p)] = @ \ {Part(p)}]
          /\ linked' = (linked \ Attempts(Owner(p), Part(p))) \cup {p}
      BY <1>2, <2>2 DEF OpenPart
    <3>2. \A q \in Attempts(Owner(p), Part(p)) : Owner(q) = Owner(p)
      BY DEF Attempts
    <3>. QED
      BY <1>1, <3>1, <3>2 DEF FolderAlone
  <2>. QED
    BY <2>1, <2>2
<1>3. CASE WritePart(p)
  BY <1>1, <1>3 DEF WritePart, FolderAlone
<1>4. CASE FindUploadByID(p) \/ IncStartedPartCount(p) \/ IncFinishedPartCount(p) \/ AbortPut(p)
  BY <1>4 DEF FindUploadByID, IncStartedPartCount, IncFinishedPartCount, AbortPut,
              files, FolderAlone
<1>. QED
  BY <1>2, <1>3, <1>4 DEF PutStep

(* So what becomes of a folder that cleanup:uploads leaves alone: nothing,  *)
(* or one of its puts writes, or it goes with its location.                *)
LEMMA FolderFate ==
    ASSUME TypeOK, OnlyInserted, OldRowGone, [Next]_vars, NEW c \in Session, c \notin swept'
    PROVE  \/ FolderAlone(c)
           \/ \E p \in Put : Owner(p) = c /\ (OpenPart(p) \/ WritePart(p))
           \/ DeletedForGood(c)
<1>1. ASSUME NEW s \in Session, CreateStep(s) \/ AbortCreate(s) \/ Age(s)
      PROVE  FolderAlone(c)
  BY <1>1 DEF CreateStep, CheckUpload, InsertUpload, AbortCreate, Age, files, FolderAlone
<1>2. ASSUME NEW p \in Put, PutStep(p) \/ AbortPut(p)
      PROVE  FolderAlone(c) \/ (Owner(p) = c /\ (OpenPart(p) \/ WritePart(p)))
  <2>1. CASE Owner(p) # c
    BY <1>2, <2>1, OtherFolders
  <2>2. CASE FindUploadByID(p) \/ IncStartedPartCount(p) \/ IncFinishedPartCount(p) \/ AbortPut(p)
    BY <2>2 DEF FindUploadByID, IncStartedPartCount, IncFinishedPartCount, AbortPut,
                files, FolderAlone
  <2>. QED
    BY <1>2, <2>1, <2>2 DEF PutStep
<1>3. ASSUME NEW f \in Fin, FinStep(f) \/ AbortFin(f) \/ DeleteCacheEntry(f)
      PROVE  FolderAlone(c) \/ DeletedForGood(c)
  <2>1. CASE DropOldFolder(f)
    <3>. DEFINE l == fin[f].oldLoc
    <3>1. l \in Fin /\ Folder(l) \in Session
      BY DEF TypeOK, FinType, Folder
    <3>2. Inserted(l) /\ l \notin locations
      BY <2>1 DEF DropOldFolder, OnlyInserted, OldRowGone
    <3>3. DeleteFolder(Folder(l)) /\ locations' = locations
      BY <2>1 DEF DropOldFolder, cache
    <3>4. CASE Folder(l) = c
      BY <3>1, <3>2, <3>3, <3>4 DEF DeletedForGood, InsertedBy
    <3>5. CASE Folder(l) # c
      BY <3>1, <3>3, <3>5, DeletedFolder
    <3>. QED
      BY <3>4, <3>5
  <2>2. CASE ~DropOldFolder(f)
    BY <1>3, <2>2
       DEF FinStep, AbortFin, FindUpload, CountParts, RejectUpload,
           InsertStorageLocation, FindExisting, InsertCacheEntry,
           UpdateCacheEntryLocation, DropOldLocation, DeleteUpload,
           DeleteCacheEntry, files, FolderAlone
  <2>. QED
    BY <2>1, <2>2
<1>4. CASE SweepUploadFolder
  <2>1. PICK d \in upSweep.drop : DeleteFolder(d) /\ swept' = swept \cup {d}
    BY <1>4 DEF SweepUploadFolder
  <2>2. d \in Session /\ d # c
    BY <2>1 DEF TypeOK, Sweep
  <2>. QED
    BY <2>1, <2>2, DeletedFolder
<1>5. ASSUME NEW j \in LocJob, SweepLocationFolder(j)
      PROVE  FolderAlone(c) \/ DeletedForGood(c)
  <2>1. PICK l \in locSweep[j].drop :
            /\ DeleteFolder(Folder(l))
            /\ swept' = IF l \in locations THEN swept \cup {Folder(l)} ELSE swept
    BY <1>5 DEF SweepLocationFolder
  <2>2. l \in Fin /\ Folder(l) \in Session
    BY <2>1 DEF TypeOK, Sweep, FinType, Folder
  <2>3. Inserted(l) /\ locations' = locations
    BY <1>5 DEF OnlyInserted, SweepLocationFolder, cache
  <2>4. CASE Folder(l) # c
    BY <2>1, <2>2, <2>4, DeletedFolder
  <2>5. CASE Folder(l) = c
    <3>1. l \notin locations
      BY <2>1, <2>5
    <3>. QED
      BY <2>2, <2>3, <2>5, <3>1 DEF DeletedForGood, InsertedBy
  <2>. QED
    BY <2>4, <2>5
<1>6. ASSUME NEW j \in LocJob, SweepLocation(j) \/ SweepLocationFails(j)
      PROVE  FolderAlone(c)
  BY <1>6 DEF SweepLocation, SweepLocationFails, files, FolderAlone
<1>7. ASSUME ListStaleUploads \/ SweepUpload \/ SweepUploadFails
             \/ ListOrphans \/ ListExpired \/ StopJobs
      PROVE  FolderAlone(c)
  BY <1>7 DEF ListStaleUploads, SweepUpload, SweepUploadFails, ListOrphans,
              ListExpired, StopJobs, files, FolderAlone
<1>8. ASSUME UNCHANGED vars PROVE FolderAlone(c)
  BY <1>8 DEF vars, files, FolderAlone
<1>. QED
  BY <1>1, <1>2, <1>3, <1>4, <1>5, <1>6, <1>7, <1>8 DEF Next, JobStep, Rest

(* What is noted in swept stays noted. *)
LEMMA SweptGrows ==
    ASSUME [Next]_vars
    PROVE  swept \subseteq swept'
<1>1. ASSUME NEW c \in Session, CreateStep(c) \/ AbortCreate(c) \/ Age(c)
      PROVE  swept' = swept
  BY <1>1 DEF CreateStep, CheckUpload, InsertUpload, AbortCreate, Age, sweeps, ghosts
<1>2. ASSUME NEW p \in Put, PutStep(p) \/ AbortPut(p) PROVE swept' = swept
  BY <1>2
     DEF PutStep, FindUploadByID, IncStartedPartCount, OpenPart, WritePart,
         IncFinishedPartCount, AbortPut, sweeps, ghosts
<1>3. ASSUME NEW f \in Fin, FinStep(f) \/ AbortFin(f) \/ DeleteCacheEntry(f)
      PROVE  swept' = swept
  BY <1>3 DEF FinStep, AbortFin, FindUpload, CountParts, RejectUpload,
              InsertStorageLocation, FindExisting, InsertCacheEntry,
              UpdateCacheEntryLocation, DropOldLocation, DropOldFolder,
              DeleteUpload, DeleteCacheEntry, sweeps, ghosts
<1>4. ASSUME ListStaleUploads \/ SweepUpload \/ SweepUploadFails
             \/ ListOrphans \/ ListExpired \/ StopJobs
      PROVE  swept' = swept
  BY <1>4 DEF ListStaleUploads, SweepUpload, SweepUploadFails, ListOrphans,
              ListExpired, StopJobs, ghosts
<1>5. CASE SweepUploadFolder
  BY <1>5 DEF SweepUploadFolder
<1>6. ASSUME NEW j \in LocJob,
             SweepLocation(j) \/ SweepLocationFails(j) \/ SweepLocationFolder(j)
      PROVE  swept \subseteq swept'
  BY <1>6 DEF SweepLocation, SweepLocationFails, SweepLocationFolder, ghosts
<1>7. ASSUME UNCHANGED vars PROVE swept' = swept
  BY <1>7 DEF vars, sweeps, ghosts
<1>. QED
  BY <1>1, <1>2, <1>3, <1>4, <1>5, <1>6, <1>7 DEF Next, JobStep, Rest

(* What PartsKept says of one put. *)
PutKept(p) == LET c == Owner(p) IN
    /\ put[p] \in {"written", "done"} => Part(p) \in whole[c]
    /\ put[p] = "writing" => AtomicPut \/ p \in linked

(* The file a put opens is its own, and the one before it was not written   *)
(* by a put of another part.                                               *)
LEMMA OpenKeepsParts ==
    ASSUME TypeOK, NEW c \in Session, Single(c)', \A p \in Put : Owner(p) = c => PutKept(p),
           NEW q \in Put, Owner(q) = c, OpenPart(q), NEW p \in Put, Owner(p) = c
    PROVE  PutKept(p)'
<1>0. /\ put \in [Put -> PutPCs] /\ whole \in [Session -> SUBSET Index]
  BY DEF TypeOK
<1>1. put[q] = "started" /\ put' = [put EXCEPT ![q] = "writing"]
  BY DEF OpenPart
<1>2. CASE AtomicPut
  <2>1. whole' = whole
    BY <1>2 DEF OpenPart, files
  <2>2. PutKept(p)
    OBVIOUS
  <2>. QED
    BY <1>0, <1>1, <1>2, <2>1, <2>2 DEF PutKept, Owner, Part
<1>3. CASE ~AtomicPut
  <2>1. /\ whole' = [whole EXCEPT ![c] = @ \ {Part(q)}]
        /\ linked' = (linked \ Attempts(c, Part(q))) \cup {q}
    BY <1>3 DEF OpenPart
  <2>2. CASE p = q
    BY <1>0, <1>1, <2>1, <2>2 DEF PutKept, Owner, Part
  <2>3. CASE p # q
    <3>1. put'[p] = put[p]
      BY <1>0, <1>1, <2>3
    <3>2. PutKept(p)
      OBVIOUS
    <3>3. CASE Part(p) = Part(q)
      <4>1. put'[p] = "idle"
        BY <1>0, <1>1, <2>3, <3>3 DEF Single, Owner, Part
      <4>. QED
        BY <4>1 DEF PutKept, Owner, Part
    <3>4. CASE Part(p) # Part(q)
      <4>1. Part(p) \in whole[c] => Part(p) \in whole'[c]
        BY <1>0, <2>1, <3>4
      <4>2. p \in linked => p \in linked'
        BY <2>1, <3>4 DEF Attempts
      <4>. QED
        BY <3>1, <3>2, <4>1, <4>2 DEF PutKept, Owner, Part
    <3>. QED
      BY <3>3, <3>4
  <2>. QED
    BY <2>2, <2>3
<1>. QED
  BY <1>2, <1>3

(* The end of the body makes the part whole. *)
LEMMA WriteKeepsParts ==
    ASSUME TypeOK, NEW c \in Session, \A p \in Put : Owner(p) = c => PutKept(p),
           NEW q \in Put, Owner(q) = c, WritePart(q), NEW p \in Put, Owner(p) = c
    PROVE  PutKept(p)'
<1>0. /\ put \in [Put -> PutPCs] /\ whole \in [Session -> SUBSET Index]
  BY DEF TypeOK
<1>1. /\ put[q] = "writing" /\ put' = [put EXCEPT ![q] = "written"]
      /\ linked' = linked
  BY DEF WritePart
<1>2. AtomicPut \/ q \in linked
  BY <1>1 DEF PutKept
<1>3. whole' = [whole EXCEPT ![c] = @ \cup {Part(q)}]
  BY <1>2 DEF WritePart
<1>4. PutKept(p)
  OBVIOUS
<1>5. CASE p = q
  BY <1>0, <1>1, <1>3, <1>5 DEF PutKept, Owner, Part
<1>6. CASE p # q
  BY <1>0, <1>1, <1>3, <1>4, <1>6 DEF PutKept, Owner, Part
<1>. QED
  BY <1>5, <1>6

(* While the row of an upload is there, its puts leave whole parts behind. *)
LEMMA PartsKeptStep ==
    ASSUME TypeOK, RowInv, PartsKept, [Next]_vars
    PROVE  PartsKept'
<1>. SUFFICES ASSUME NEW c \in uploads', c \notin swept', Single(c)', InsertedBy(c)' = {},
                     NEW p \in Put, Owner(p) = c
              PROVE  PutKept(p)'
  BY DEF PartsKept, PutKept, Owner, Part
<1>0. c \in Session /\ put \in [Put -> PutPCs]
  <2>1. TypeOK'
    BY TypeStep
  <2>. QED
    BY <2>1 DEF TypeOK
<1>1. CASE c \notin uploads
  <2>1. InsertUpload(c)
    BY <1>1, RowsAdded
  <2>2. create[c] # "ok" /\ put' = put
    BY <2>1 DEF InsertUpload
  <2>3. put'[p] = "idle"
    BY <1>0, <2>2 DEF RowInv, NothingBeforeCreate
  <2>. QED
    BY <2>3 DEF PutKept, Owner, Part
<1>2. CASE c \in uploads
  <2>1. c \notin swept /\ Single(c) /\ InsertedBy(c) = {}
    BY SweptGrows, SingleBefore, InsertedByGrows
  <2>2. \A q \in Put : Owner(q) = c => PutKept(q)
    BY <1>2, <2>1 DEF PartsKept, PutKept
  <2>3. CASE \E q \in Put : Owner(q) = c /\ OpenPart(q)
    BY <1>0, <2>2, <2>3, OpenKeepsParts
  <2>4. CASE \E q \in Put : Owner(q) = c /\ WritePart(q)
    BY <1>0, <2>2, <2>4, WriteKeepsParts
  <2>5. CASE ~\E q \in Put : Owner(q) = c /\ (OpenPart(q) \/ WritePart(q))
    <3>1. FolderAlone(c)
      BY <1>0, <2>1, <2>5, FolderFate DEF RowInv, DeletedForGood
    <3>2. /\ put'[p] \in {"writing", "written"} => put'[p] = put[p]
          /\ put'[p] = "done" => put[p] \in {"written", "done"}
      BY <1>2, <2>5, PutFrame, PutMoves
    <3>3. PutKept(p)
      BY <2>2
    <3>. QED
      BY <3>1, <3>2, <3>3 DEF FolderAlone, PutKept, Owner, Part
  <2>. QED
    BY <2>3, <2>4, <2>5
<1>. QED
  BY <1>1, <1>2

(* With each part sent once and all answered, the count is that of parts.   *)
LEMMA AllCounted ==
    ASSUME TypeOK, NEW c \in uploads, IsFiniteSet(Done(c)), Single(c), PartsAcked(c)
    PROVE  Cardinality(Done(c)) = NumParts
<1>. DEFINE part == [p \in Done(c) |-> Part(p)]
<1>1. \A p \in Done(c) : Part(p) \in Index
  BY DEF Done, Put, Part
<1>2. \A p, q \in Done(c) : Part(p) = Part(q) => p = q
  BY DEF Single, Done
<1>3. \A i \in Index : \E p \in Done(c) : Part(p) = i
  BY DEF PartsAcked, Attempts, Done
<1>4. part \in [Done(c) -> Index]
  BY <1>1
<1>5. part \in Injection(Done(c), Index)
  BY <1>2, <1>4 DEF Injection, IsInjective
<1>6. part \in Surjection(Done(c), Index)
  BY <1>3, <1>4 DEF Surjection
<1>7. ExistsBijection(Done(c), Index)
  BY <1>5, <1>6 DEF ExistsBijection, Bijection
<1>8. Cardinality(Index) = NumParts
  <2>1. NumParts \in Nat \ {0}
    BY PartsAssumption
  <2>2. Cardinality(0 .. NumParts - 1) = (NumParts - 1) - 0 + 1
    BY <2>1, FS_Interval
  <2>. QED
    BY <2>1, <2>2 DEF Index
<1>. QED
  BY <1>7, <1>8, FS_Bijection

(* The finalize finds every part whole, and from then on only a delete of   *)
(* the folder could change that: see FolderFate.                            *)
LEMMA SaveKeptStep ==
    ASSUME TypeOK, RowInv, PartsKept, SaveKept, [Next]_vars
    PROVE  SaveKept'
<1>. SUFFICES ASSUME NEW f \in Fin, NEW c, c = fin'[f].up,
                     Keeps(f)', f[1] = c, c \notin swept', Single(c)',
                     InsertedBy(c)' \subseteq {f}
              PROVE  PartsAcked(c)' /\ fin'[f].parts = NumParts /\ whole'[c] = Index
  BY DEF SaveKept, Folder, Intact, PartCount
<1>0. /\ c \in Session /\ put \in [Put -> PutPCs] /\ whole \in [Session -> SUBSET Index]
      /\ locations \subseteq Fin
  <2>1. TypeOK'
    BY TypeStep
  <2>. QED
    BY <2>1 DEF TypeOK, FinType
<1>1. c \notin swept /\ Single(c) /\ InsertedBy(c) \subseteq {f}
  BY SweptGrows, SingleBefore, InsertedByGrows
<1>2. CASE FindUpload(f)
  <2>1. locations' = locations /\ whole' = whole /\ put' = put /\ fin[f].pc = "idle"
    BY <1>2 DEF FindUpload, cache, files
  <2>2. f \notin locations /\ f \notin InsertedBy(c)
    BY <2>1 DEF RowInv, OnlyInserted, Inserted, InsertedBy, InsertedPCs, SettledPCs
  <2>3. fin'[f].pc = "count"
    BY <1>2, <2>1, <2>2, FoundUpload DEF Keeps
  <2>4. c \in uploads /\ fin'[f].parts = finished[c]
    BY <1>2, <2>3, FoundUpload
  <2>5. PartsAcked(c)
    BY <1>2 DEF FindUpload
  <2>6. fin'[f].parts = NumParts
    BY <1>1, <2>4, <2>5, AllCounted DEF RowInv, FinishedCounted
  <2>7. \A i \in Index : i \in whole[c]
    <3>1. InsertedBy(c) = {}
      BY <1>1, <2>2
    <3>. QED
      BY <1>1, <2>4, <2>5, <3>1 DEF PartsAcked, Attempts, PartsKept
  <2>8. PartsAcked(c)'
    BY <2>1, <2>5 DEF PartsAcked, Attempts, Owner, Part
  <2>. QED
    BY <1>0, <2>1, <2>6, <2>7, <2>8
<1>3. CASE ~FindUpload(f)
  <2>1. fin'[f].up = fin[f].up /\ fin'[f].parts = fin[f].parts
    BY <1>3, FinFrame, FinMovesAlone, FinMoves
  <2>2. Keeps(f)
    <3>1. CASE fin'[f].pc \in {"count", "insertLoc"}
      BY <1>3, <3>1, FinFrame, FinMovesAlone, FinMoves DEF Keeps
    <3>2. CASE f \in locations'
      BY <3>2, RowsAdded DEF Keeps, InsertStorageLocation
    <3>. QED
      BY <3>1, <3>2 DEF Keeps
  <2>3. PartsAcked(c) /\ fin[f].parts = NumParts /\ whole[c] = Index
    BY <1>1, <2>1, <2>2 DEF SaveKept, Folder, Intact, PartCount
  <2>4. PartsAcked(c)'
    BY <2>3, PutsGoOn DEF PartsAcked, Attempts, Owner, Part
  <2>5. ASSUME NEW p \in Put, Owner(p) = c, OpenPart(p) \/ WritePart(p) PROVE FALSE
    <3>1. Part(p) \in Index /\ put[p] \in {"started", "writing"}
      BY <2>5 DEF Put, Part, OpenPart, WritePart
    <3>2. PICK q \in Attempts(c, Part(p)) : put[q] = "done"
      BY <2>3, <3>1 DEF PartsAcked
    <3>. QED
      BY <1>1, <2>5, <3>1, <3>2 DEF Single, Attempts
  <2>6. ~DeletedForGood(c)
    <3>1. SUFFICES ASSUME NEW l \in InsertedBy(c), l \notin locations, locations' = locations
                   PROVE  FALSE
      BY DEF DeletedForGood
    <3>2. l = f /\ Inserted(f)'
      BY <1>1, InsertedStays DEF InsertedBy
    <3>. QED
      BY <3>1, <3>2 DEF Keeps, Inserted, InsertedPCs, SettledPCs
  <2>7. whole'[c] = whole[c]
    BY <1>0, <2>5, <2>6, FolderFate DEF RowInv, FolderAlone
  <2>. QED
    BY <2>1, <2>3, <2>4, <2>7
<1>. QED
  BY <1>2, <1>3

(* Rows, locations and folders at the start. *)
LEMMA FolderInit == Init => RowInv /\ FolderInv
<1>. SUFFICES ASSUME Init PROVE RowInv /\ FolderInv
  OBVIOUS
<1>1. \A f \in Fin : fin[f].pc = "idle"
  BY DEF Init
<1>2. RowInv
  BY <1>1 DEF Init, RowInv, NothingBeforeCreate, FinishedCounted, NotEmpty, OnlyInserted,
              OldRowGone, InsertedPCs, SettledPCs, Idle
<1>3. FolderInv
  BY <1>1 DEF Init, FolderInv, PartsKept, SaveKept, Keeps
<1>. QED
  BY <1>2, <1>3

(* The second and third inductive invariant: rows, counts, locations in     *)
(* hand, and the parts of undisturbed uploads and saves.                    *)
THEOREM Folders == Spec => [](RowInv /\ FolderInv)
<1>1. TypeOK /\ RowInv /\ FolderInv /\ [Next]_vars => (RowInv /\ FolderInv)'
  BY RowStep, PartsKeptStep, SaveKeptStep DEF FolderInv
<1>. QED
  BY <1>1, FolderInit, TypeCorrect, PTL DEF Spec

(* A cache entry leads to one whole upload: all parts of it, each with its  *)
(* full content, and as many as the location row says, however the requests *)
(* and jobs interleave and whatever fails, but for the accidents named in   *)
(* OwnUploadIntact (CreateUpload, UploadPart, CompleteUpload).              *)
THEOREM EntriesAreIntact == Spec => []OwnUploadIntact
<1>1. ASSUME TypeOK, RowInv, FolderInv, \A e \in entries : locationId[e] \in locations
      PROVE  OwnUploadIntact
  <2>1. SUFFICES ASSUME NEW l \in locations, l[1] = Folder(l), Folder(l) \notin swept,
                        Single(Folder(l)), SoleLocation(l)
                 PROVE  Intact(l)
    BY <1>1 DEF OwnUploadIntact
  <2>2. l \in Fin
    BY <1>1 DEF TypeOK
  <2>3. InsertedBy(Folder(l)) \subseteq {l}
    BY <2>1 DEF InsertedBy, SoleLocation, Accepted, Inserted, InsertedPCs, SettledPCs
  <2>. QED
    BY <1>1, <2>1, <2>2, <2>3 DEF FolderInv, SaveKept, Keeps
<1>2. TypeOK /\ (RowInv /\ FolderInv) /\ (\A e \in entries : locationId[e] \in locations)
          => OwnUploadIntact
  BY <1>1
<1>. QED
  BY <1>2, TypeCorrect, Folders, EntriesServed, PTL
=============================================================================

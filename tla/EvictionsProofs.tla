-------------------------- MODULE EvictionsProofs --------------------------
(***************************************************************************)
(* Proofs about Evictions: for any number of caches and saves, any page     *)
(* size, target and cap, an eviction leaves no entry without its folder and *)
(* no folder without an owner, takes the least recently used first, and     *)
(* does not evict more than was due.                                       *)
(*                                                                         *)
(* Three invariants, one above the other: who may still come to lead to a   *)
(* location and what the job holds of it (OwnerInv); how the room on the    *)
(* disk, the evictions counted and those due hang together (RoomInv); and   *)
(* where the time of the last use of a location is noted (UseInv).  From the *)
(* first it also follows that Evictions implements CacheTable.             *)
(***************************************************************************)
EXTENDS Evictions, FiniteSetTheorems, TLAPS

-----------------------------------------------------------------------------
(* The location of a save that has not written its entry. *)
Unwritten(s) == save[s].pc \in {"idle", "write"}

(* The old location that a save will drop. *)
WillDrop(q) == save[q].pc = "drop" \/ (save[q].pc = "write" /\ save[q].old # q)

Listed == job.todo \cup job.victim

Finite ==
    IsFiniteSet(entries) /\ IsFiniteSet(folders) /\ IsFiniteSet(reading)
    /\ IsFiniteSet(job.todo)

Typed == TypeOK /\ Finite

(* Nobody knows of the location of a save before it writes its entry; until *)
(* then it has row and folder.                                             *)
NewUnknown == \A s \in Save : Unwritten(s) =>
    /\ s \notin entries /\ \A e \in entries : locationId[e] # s
    /\ \A v \in Listed : v.loc # s
    /\ \A q \in Save : WillDrop(q) => save[q].oldLoc # s
    /\ save[s].pc = "write" => s \in locations \cap folders

(* A row that is gone would come back with its own location. *)
GoneIsOwn == \A e \in Save : e \notin entries => locationId[e] = e

NotShared == \A e, d \in entries : locationId[e] = locationId[d] => e = d

(* Nobody else leads to a location that is listed, and nobody at all to     *)
(* that of the victim.                                                     *)
ListedIsOwn == \A v \in job.todo : \A e \in entries : locationId[e] = v.loc => e = v.entry
VictimUnled == \A v \in job.victim : \A e \in entries : locationId[e] # v.loc

(* One victim at a time. *)
OneVictim ==
    /\ job.pc \in {"idle", "list", "next"} => job.victim = {}
    /\ job.pc \in {"location", "folder"} => job.victim # {} /\ \A v, w \in job.victim : v = w
    /\ job.pc = "idle" => job = NoRun
    /\ job.pc = "list" => job.todo = {}

OwnerInv ==
    NewUnknown /\ GoneIsOwn /\ NotShared /\ ListedIsOwn /\ VictimUnled /\ OneVictim
    /\ ServedHasFolder /\ FoldersOwned

(* What a run still has to evict of its page. *)
Left == Cardinality(job.todo) + Cardinality(job.victim)

RoomInv ==
    job.pc # "idle" =>
        /\ UsableFreeBytes >= Target - job.due + job.evicted
        /\ job.pc = "list" => job.evicted <= job.due - 1 /\ job.evicted <= MaxEvictions - 1
        /\ job.evicted + Left <= job.due + Batch - 1
        /\ job.evicted + Left <= MaxEvictions + Batch - 1

(* The times that notes carry, and where they can be of. *)
NotesKnown ==
    /\ now >= 1
    /\ \A n \in notes : n.at <= now /\ ~Unwritten(n.loc)
    /\ \A s \in Save : Unwritten(s) => lastDownloadedAt[s] = Null /\ s \notin overtaken
    /\ \A n \in notes : n.loc \in locations => n.at <= lastUse[n.loc]

(* The last use of a location is noted, or on its way, or was the save.     *)
UseNoted(l) ==
    \/ lastDownloadedAt[l] # Null /\ lastDownloadedAt[l] = lastUse[l]
    \/ \E n \in notes : n.loc = l /\ n.at # Null /\ n.at = lastUse[l]
    \/ /\ lastDownloadedAt[l] = Null
       /\ \A n \in notes : n.loc = l => n.at = Null
       /\ \A e \in entries : locationId[e] = l => updatedAt[e] = lastUse[l]

UseInv == NotesKnown /\ \A l \in locations \ overtaken : UseNoted(l)

-----------------------------------------------------------------------------
(* Type correctness. *)

LEMMA TargetFacts ==
    /\ Capacity \in Nat /\ Target \in Nat /\ MinFree \in Nat /\ Target >= MinFree
    /\ MinFree >= 1
    /\ Batch \in Nat /\ Batch >= 1 /\ MaxEvictions \in Nat /\ MaxEvictions >= 1
BY SizeAssumption, EnabledAssumption DEF Target

LEMMA RoomFacts ==
    Finite => /\ IsFiniteSet(folders \cup reading)
              /\ Cardinality(folders \cup reading) \in Nat
              /\ UsableFreeBytes \in Int
<1> SUFFICES ASSUME Finite
             PROVE  /\ IsFiniteSet(folders \cup reading)
                    /\ Cardinality(folders \cup reading) \in Nat
                    /\ UsableFreeBytes \in Int
    OBVIOUS
<1>1. IsFiniteSet(folders \cup reading)
    BY FS_Union DEF Finite
<1>2. Cardinality(folders \cup reading) \in Nat
    BY <1>1, FS_CardinalityType
<1>3. QED  BY <1>1, <1>2, TargetFacts DEF UsableFreeBytes

LEMMA NoRunTyped ==
    NoRun \in [pc : {"idle", "list", "next", "location", "folder"},
               todo : SUBSET Victims, victim : SUBSET Victims, evicted : Nat,
               late : BOOLEAN, due : Nat]
BY DEF NoRun

LEMMA TypedStart == Init => Typed
<1> SUFFICES ASSUME Init PROVE Typed
    OBVIOUS
<1>1. save \in [Save -> [pc : {"idle", "write", "drop", "done"},
                         old : Save, oldLoc : Save, at : Nat]]
    BY DEF Init, NoSave, Null
<1>2. Finite
    BY FS_EmptySet DEF Init, Finite, NoRun
<1>3. QED  BY <1>1, <1>2, NoRunTyped DEF Init, Typed, TypeOK, Null

(* The rows that are left, and their columns. *)
LEMMA RowsDeleted ==
    ASSUME Typed, NEW E, NEW L, DeleteRows(E, L)
    PROVE  /\ entries' \subseteq Save /\ IsFiniteSet(entries') /\ locations' \subseteq Save
           /\ locationId' \in [Save -> Save]
           /\ updatedAt' \in [Save -> Nat] /\ lastDownloadedAt' \in [Save -> Nat]
           /\ merging' \subseteq Save
           /\ lastUse' \in [Save -> Nat] /\ overtaken' \subseteq Save /\ UNCHANGED leaked
<1>1. entries' \in SUBSET entries
    BY DEF DeleteRows
<1>2. IsFiniteSet(entries')
    BY <1>1, FS_Subset DEF Typed, Finite
<1>3. QED  BY <1>1, <1>2 DEF Typed, TypeOK, DeleteRows, Null

LEMMA SaveTyped ==
    ASSUME Typed, NEW s \in Save, SaveStep(s)
    PROVE  Typed'
<1> USE DEF Typed, TypeOK, Finite
<1>1. CASE BeginSave(s)
    <2> DEFINE existing == {e \in entries : KeyOf(e) = KeyOf(s) /\ locationId[e] \in locations}
               old == IF existing = {} THEN s ELSE CHOOSE e \in existing : TRUE
    <2>1. old \in Save
        OBVIOUS
    <2>2. save' = [save EXCEPT ![s] =
              [pc |-> "write", old |-> old, oldLoc |-> locationId[old], at |-> now]]
        BY <1>1 DEF BeginSave
    <2> HIDE DEF old
    <2>3. save' \in [Save -> [pc : {"idle", "write", "drop", "done"},
                              old : Save, oldLoc : Save, at : Nat]]
        BY <2>1, <2>2
    <2>4. IsFiniteSet(folders')
        BY <1>1, FS_AddElement DEF BeginSave
    <2>5. QED
        BY <1>1, <2>3, <2>4 DEF BeginSave, downloading, ghosts
<1>2. CASE InsertCacheEntry(s)
    <2>1. save' \in [Save -> [pc : {"idle", "write", "drop", "done"},
                              old : Save, oldLoc : Save, at : Nat]]
        BY <1>2 DEF InsertCacheEntry, Done, NoSave, Null
    <2>2. IsFiniteSet(entries')
        BY <1>2, FS_AddElement DEF InsertCacheEntry
    <2>3. QED  BY <1>2, <2>1, <2>2 DEF InsertCacheEntry, downloading
<1>3. CASE UpdateCacheEntryLocation(s)
    BY <1>3 DEF UpdateCacheEntryLocation, downloading
<1>4. CASE DropOldLocation(s)
    <2>1. save' \in [Save -> [pc : {"idle", "write", "drop", "done"},
                              old : Save, oldLoc : Save, at : Nat]]
        BY <1>4 DEF DropOldLocation, Done, NoSave, Null
    <2>2. IsFiniteSet(folders')
        BY <1>4, FS_RemoveElement DEF DropOldLocation
    <2>3. QED
        BY <1>4, <2>1, <2>2, RowsDeleted DEF DropOldLocation, DeleteStorageLocation, downloading
<1>5. QED  BY <1>1, <1>2, <1>3, <1>4 DEF SaveStep

LEMMA DownloadTyped ==
    ASSUME Typed,
           \/ Tick
           \/ \E s \in Save : Download(s) \/ MergeEnds(s) \/ EndReading(s)
           \/ \E n \in notes : ReadClock(n) \/ UpdateStorageLastDownloaded(n)
    PROVE  Typed'
<1> USE DEF Typed, TypeOK, Finite
<1>1. CASE Tick
    BY <1>1 DEF Tick, tables, downloading, ghosts
<1>2. ASSUME NEW s \in Save, Download(s) PROVE Typed'
    <2>1. IsFiniteSet(reading')
        BY <1>2, FS_AddElement DEF Download
    <2>2. QED  BY <1>2, <2>1 DEF Download, ghosts, Null
<1>3. ASSUME NEW s \in Save, MergeEnds(s) PROVE Typed'
    BY <1>3 DEF MergeEnds, downloading, ghosts
<1>4. ASSUME NEW s \in Save, EndReading(s) PROVE Typed'
    <2>1. IsFiniteSet(reading')
        BY <1>4, FS_RemoveElement DEF EndReading
    <2>2. QED  BY <1>4, <2>1 DEF EndReading, tables, ghosts
<1>5. ASSUME NEW n \in notes, ReadClock(n) PROVE Typed'
    <2>1. [n EXCEPT !.at = now] \in [id : Nat, loc : Save, at : Nat]
        OBVIOUS
    <2>2. QED  BY <1>5, <2>1 DEF ReadClock, tables
<1>6. ASSUME NEW n \in notes, UpdateStorageLastDownloaded(n) PROVE Typed'
    BY <1>6 DEF UpdateStorageLastDownloaded
<1>7. QED  BY <1>1, <1>2, <1>3, <1>4, <1>5, <1>6

(* A page: no more than a batch of entries, each with what is known of it.  *)
LEMMA PageFacts ==
    ASSUME Typed, NEW S \in ListLRUCacheEntries
    PROVE  /\ S \subseteq Evictable /\ S \subseteq entries
           /\ {Victim(e) : e \in S} \subseteq Victims
           /\ IsFiniteSet({Victim(e) : e \in S})
           /\ Cardinality({Victim(e) : e \in S}) \in Nat
           /\ Cardinality({Victim(e) : e \in S}) <= Batch
<1> DEFINE T == {Victim(e) : e \in S}
           f == [e \in S |-> Victim(e)]
<1>1. S \subseteq Evictable /\ Evictable \subseteq entries /\ FullPage(S)
    BY DEF ListLRUCacheEntries, Evictable
<1>2. IsFiniteSet(S) /\ IsFiniteSet(Evictable)
    BY <1>1, FS_Subset DEF Typed, Finite
<1>3. Cardinality(S) \in Nat /\ Cardinality(S) <= Batch
    <2>1. Cardinality(S) \in Nat /\ Cardinality(Evictable) \in Nat
        BY <1>2, FS_CardinalityType
    <2>2. QED  BY <1>1, <2>1, TargetFacts DEF FullPage
<1>4. \A e \in S : Victim(e) \in Victims
    BY <1>1 DEF Typed, TypeOK, Victim, Victims, UsedAt
<1>5. f \in Surjection(S, T)
    BY DEF Surjection
<1>6. IsFiniteSet(T) /\ Cardinality(T) <= Cardinality(S)
    BY <1>2, <1>5, FS_Surjection
<1>7. Cardinality(T) \in Nat
    BY <1>6, FS_CardinalityType
<1>8. QED  BY <1>1, <1>3, <1>4, <1>6, <1>7, TargetFacts

LEMMA JobTyped ==
    ASSUME Typed, BeginRun \/ JobStep \/ Deadline
    PROVE  Typed'
<1> DEFINE JobType == [pc : {"idle", "list", "next", "location", "folder"},
                       todo : SUBSET Victims, victim : SUBSET Victims, evicted : Nat,
                       late : BOOLEAN, due : Nat]
<1>1. ASSUME UNCHANGED <<now, tables, save, downloading, lastUse, overtaken>>,
             job' \in JobType, IsFiniteSet(job'.todo),
             folders' \subseteq Save, IsFiniteSet(folders'), leaked' \subseteq Save
      PROVE  Typed'
    BY <1>1 DEF Typed, TypeOK, Finite, tables, downloading
<1>2. ASSUME NEW E, NEW L, DeleteRows(E, L),
             UNCHANGED <<now, folders, save, downloading>>,
             job' \in JobType, IsFiniteSet(job'.todo)
      PROVE  Typed'
    BY <1>2, RowsDeleted DEF Typed, TypeOK, Finite, downloading
<1>3. job \in JobType /\ IsFiniteSet(job.todo)
    BY DEF Typed, TypeOK, Finite
<1>4. NoRun \in JobType /\ IsFiniteSet(NoRun.todo)
    BY NoRunTyped, FS_EmptySet DEF NoRun
<1>5. \A v : IsFiniteSet(job.todo \ {v})
    BY <1>3, FS_RemoveElement
<1>6. folders \subseteq Save /\ IsFiniteSet(folders) /\ leaked \subseteq Save
      /\ \A v : IsFiniteSet(folders \ {v})
    BY FS_RemoveElement DEF Typed, TypeOK, Finite
<1>7. ASSUME NEW n \in {0, 1}, Evicted(n)
       PROVE  job' \in JobType /\ IsFiniteSet(job'.todo)
    <2>1. job.evicted + 1 \in Nat /\ job.due + n \in Nat
        BY <1>3
    <2>2. job' = [job EXCEPT !.pc = "next", !.victim = {}, !.evicted = job.evicted + 1,
                             !.due = job.due + n]
        BY <1>3, <1>7 DEF Evicted
    <2>3. QED  BY <1>3, <2>1, <2>2
<1> HIDE DEF Typed
<1>8. CASE BeginRun
    <2>1. Target - UsableFreeBytes \in Nat
        BY <1>8, RoomFacts, TargetFacts DEF BeginRun, Typed
    <2>2. QED  BY <1>1, <1>3, <1>6, <1>8, <2>1 DEF BeginRun, ghosts
<1>9. CASE ListPage
    <2>1. PICK S \in ListLRUCacheEntries :
              IF S = {} THEN Stop
              ELSE job' = [job EXCEPT !.pc = "next", !.todo = {Victim(e) : e \in S}]
        BY <1>9 DEF ListPage
    <2>2. job' \in JobType /\ IsFiniteSet(job'.todo)
        BY <1>3, <1>4, <2>1, PageFacts DEF Stop
    <2>3. QED  BY <1>1, <1>6, <1>9, <2>2 DEF ListPage, ghosts
<1>10. CASE ListFails \/ Probe \/ ProbeFails
    BY <1>1, <1>3, <1>4, <1>6, <1>10 DEF ListFails, Probe, ProbeFails, Stop, Goto, ghosts
<1>11. CASE EvictEntry
    <2>1. PICK v \in job.todo :
              /\ job' = [job EXCEPT !.pc = "location", !.todo = @ \ {v}, !.victim = {v}]
              /\ DeleteRows({v.entry}, {})
        BY <1>11 DEF EvictEntry, DeleteCacheEntry
    <2>2. job' \in JobType /\ IsFiniteSet(job'.todo)
        BY <1>3, <1>5, <2>1
    <2>3. QED  BY <1>2, <1>11, <2>1, <2>2 DEF EvictEntry
<1>12. CASE SkipEntry
    BY <1>1, <1>3, <1>5, <1>6, <1>12 DEF SkipEntry, ghosts
<1>13. CASE EvictLocation
    BY <1>2, <1>3, <1>13 DEF EvictLocation, DeleteStorageLocation, Goto
<1>14. CASE EvictLocationFails
    BY <1>1, <1>3, <1>6, <1>14 DEF EvictLocationFails, Goto, ghosts
<1>15. CASE EvictFolder
    <2>1. PICK v \in job.victim, n \in {0, 1} : folders' = folders \ {v.loc} /\ Evicted(n)
        BY <1>15 DEF EvictFolder
    <2>2. job' \in JobType /\ IsFiniteSet(job'.todo)
        BY <1>7, <2>1
    <2>3. folders' \subseteq Save /\ IsFiniteSet(folders')
        BY <1>6, <2>1
    <2>4. QED  BY <1>1, <1>6, <1>15, <2>2, <2>3 DEF EvictFolder, ghosts
<1>16. CASE EvictFolderFails
    <2>1. leaked' \subseteq Save
        BY <1>3, <1>6, <1>16 DEF EvictFolderFails, Victims
    <2>2. job' \in JobType /\ IsFiniteSet(job'.todo)
        BY <1>16, <1>7 DEF EvictFolderFails
    <2>3. QED  BY <1>1, <1>6, <1>16, <2>1, <2>2 DEF EvictFolderFails
<1>17. CASE Deadline
    BY <1>1, <1>3, <1>6, <1>17 DEF Deadline, ghosts
<1>18. QED
    BY <1>8, <1>9, <1>10, <1>11, <1>12, <1>13, <1>14, <1>15, <1>16, <1>17 DEF JobStep

LEMMA StepTyped == Typed /\ [Next]_vars => Typed'
<1>1. Typed /\ UNCHANGED vars => Typed'
    BY DEF vars, tables, downloading, ghosts, Typed, TypeOK, Finite
<1>2. QED
    BY <1>1, SaveTyped, DownloadTyped, JobTyped DEF Next

LEMMA AlwaysTyped == Spec => []Typed
BY TypedStart, StepTyped, PTL DEF Spec

(* The tables, the disk, the calls and the job stay typed. *)
THEOREM EvictionsTyped == Spec => []TypeOK
<1>1. Typed => TypeOK
    BY DEF Typed
<1>2. QED  BY <1>1, AlwaysTyped, PTL

-----------------------------------------------------------------------------
(* Who owns a location. *)

LEMMA OwnerStart == Init => OwnerInv
BY DEF Init, OwnerInv, NewUnknown, GoneIsOwn, NotShared, ListedIsOwn, VictimUnled, OneVictim,
   ServedHasFolder, FoldersOwned, NoRun, NoSave, Listed, WillDrop

(* A step that leaves rows, folders and saves alone, and takes nothing new  *)
(* on the list.                                                            *)
LEMMA NothingNewListed ==
    ASSUME OwnerInv, UNCHANGED <<entries, locationId, locations, folders, save, leaked>>,
           job'.todo \subseteq job.todo, job'.victim = job.victim, OneVictim'
    PROVE  OwnerInv'
<1>1. NewUnknown'
    BY DEF OwnerInv, NewUnknown, Unwritten, WillDrop, Listed
<1>2. QED
    BY <1>1 DEF OwnerInv, GoneIsOwn, NotShared, ListedIsOwn, VictimUnled, ServedHasFolder,
       FoldersOwned

(* Rows go; whoever still leads to a location led to it before.             *)
LEMMA RowsGo ==
    ASSUME Typed, OwnerInv, NEW E \in SUBSET Save, NEW L, DeleteRows(E, L)
    PROVE  /\ GoneIsOwn' /\ NotShared'
           /\ entries' \subseteq entries /\ leaked' = leaked
           /\ \A e \in entries' : e \notin E /\ locationId'[e] = locationId[e]
           /\ locations' = locations \ L
<1>1. /\ entries' = entries \ E /\ locations' = locations \ L /\ leaked' = leaked
      /\ \A e \in Save : locationId'[e] = IF e \in E THEN e ELSE locationId[e]
    BY DEF DeleteRows
<1>2. entries \subseteq Save
    BY DEF Typed, TypeOK
<1>3. QED  BY <1>1, <1>2 DEF OwnerInv, GoneIsOwn, NotShared

LEMMA BeginOwned ==
    ASSUME Typed, OwnerInv, NEW s \in Save, BeginSave(s)
    PROVE  OwnerInv'
<1> DEFINE existing == {e \in entries : KeyOf(e) = KeyOf(s) /\ locationId[e] \in locations}
           old == IF existing = {} THEN s ELSE CHOOSE e \in existing : TRUE
<1>1. save' = [save EXCEPT ![s] =
          [pc |-> "write", old |-> old, oldLoc |-> locationId[old], at |-> now]]
    BY DEF BeginSave
<1>2. old \in entries \/ old = s
    OBVIOUS
<1> HIDE DEF old
<1>3. /\ save'[s].pc = "write" /\ save'[s].old = old /\ save'[s].oldLoc = locationId[old]
      /\ \A q \in Save \ {s} : save'[q] = save[q]
    BY <1>1 DEF Typed, TypeOK
<1>4. /\ locations' = locations \cup {s} /\ folders' = folders \cup {s}
      /\ UNCHANGED <<entries, locationId, leaked>> /\ Unwritten(s)
      /\ job'.todo = job.todo /\ job'.victim = job.victim /\ OneVictim'
    BY DEF BeginSave, ghosts, Unwritten, Typed, TypeOK, OwnerInv, OneVictim, NoRun
<1>5. NewUnknown'
    <2> SUFFICES ASSUME NEW t \in Save, Unwritten(t)' PROVE
            /\ t \notin entries' /\ \A e \in entries' : locationId'[e] # t
            /\ \A v \in Listed' : v.loc # t
            /\ \A q \in Save : WillDrop(q)' => save'[q].oldLoc # t
            /\ save'[t].pc = "write" => t \in locations' \cap folders'
        BY DEF NewUnknown
    <2>1. Unwritten(t)
        BY <1>3, <1>4 DEF Unwritten
    <2>2. \A e \in entries : locationId[e] # t
        BY <2>1 DEF OwnerInv, NewUnknown
    <2>3. \A q \in Save : WillDrop(q)' => save'[q].oldLoc # t
        <3> SUFFICES ASSUME NEW q \in Save, WillDrop(q)' PROVE save'[q].oldLoc # t
            OBVIOUS
        <3>1. CASE q = s
            BY <1>2, <1>3, <2>2, <3>1 DEF WillDrop
        <3>2. CASE q # s
            BY <1>3, <2>1, <3>2 DEF WillDrop, OwnerInv, NewUnknown
        <3>3. QED  BY <3>1, <3>2
    <2>4. save'[t].pc = "write" => t \in locations' \cap folders'
        BY <1>3, <1>4, <2>1 DEF OwnerInv, NewUnknown
    <2>5. QED
        BY <1>4, <2>1, <2>2, <2>3, <2>4 DEF OwnerInv, NewUnknown, Listed
<1>6. QED
    BY <1>4, <1>5 DEF OwnerInv, GoneIsOwn, NotShared, ListedIsOwn, VictimUnled,
       ServedHasFolder, FoldersOwned

(* s writes, and its entry, new or moved, is the only one to lead to s.     *)
LEMMA WriteOwned ==
    ASSUME Typed, OwnerInv, NEW s \in Save,
           InsertCacheEntry(s) \/ UpdateCacheEntryLocation(s)
    PROVE  OwnerInv'
<1> DEFINE e0 == save[s].old
<1>1. save[s].pc = "write" /\ Unwritten(s) /\ e0 \in Save
    BY DEF InsertCacheEntry, UpdateCacheEntryLocation, Unwritten, Typed, TypeOK
<1>2. /\ \A q \in Save \ {s} : save'[q] = save[q]
      /\ ~Unwritten(s)'
      /\ WillDrop(s)' => WillDrop(s) /\ save'[s].oldLoc = save[s].oldLoc
    BY DEF InsertCacheEntry, UpdateCacheEntryLocation, Unwritten, WillDrop, Typed, TypeOK,
       Done, NoSave
<1>3. UNCHANGED <<locations, folders, job, leaked>>
    BY DEF InsertCacheEntry, UpdateCacheEntryLocation
<1>4. /\ entries' \subseteq entries \cup {s}
      /\ s \in entries' => e0 = s
      /\ \A e \in entries' : \/ e \in entries /\ locationId'[e] = locationId[e]
                             \/ e = e0 /\ locationId'[e] = s
      /\ \A e \in Save : e \notin entries' => locationId'[e] = e
    <2>1. s \notin entries /\ locationId[s] = s
        BY <1>1 DEF OwnerInv, NewUnknown, GoneIsOwn
    <2>2. QED
        BY <1>1, <2>1 DEF InsertCacheEntry, UpdateCacheEntryLocation, Typed, TypeOK,
           OwnerInv, GoneIsOwn
<1>5. s \in locations \cap folders /\ \A e \in entries : locationId[e] # s
    BY <1>1 DEF OwnerInv, NewUnknown
<1>6. \A v \in Listed : v.loc # s
    BY <1>1 DEF OwnerInv, NewUnknown
<1>7. NewUnknown'
    <2> SUFFICES ASSUME NEW t \in Save, Unwritten(t)' PROVE
            /\ t \notin entries' /\ \A e \in entries' : locationId'[e] # t
            /\ \A v \in Listed' : v.loc # t
            /\ \A q \in Save : WillDrop(q)' => save'[q].oldLoc # t
            /\ save'[t].pc = "write" => t \in locations' \cap folders'
        BY DEF NewUnknown
    <2>1. t # s /\ Unwritten(t)
        BY <1>2 DEF Unwritten
    <2>2. \A q \in Save : WillDrop(q)' => WillDrop(q) /\ save'[q].oldLoc = save[q].oldLoc
        BY <1>2 DEF WillDrop
    <2>3. QED
        BY <1>2, <1>3, <1>4, <2>1, <2>2 DEF OwnerInv, NewUnknown, Listed
<1>8. NotShared'
    BY <1>4, <1>5 DEF OwnerInv, NotShared
<1>9. ListedIsOwn' /\ VictimUnled' /\ OneVictim'
    BY <1>3, <1>4, <1>6 DEF OwnerInv, ListedIsOwn, VictimUnled, OneVictim, Listed
<1>10. ServedHasFolder' /\ FoldersOwned' /\ GoneIsOwn'
    BY <1>3, <1>4, <1>5 DEF OwnerInv, ServedHasFolder, FoldersOwned, GoneIsOwn
<1>11. QED  BY <1>7, <1>8, <1>9, <1>10 DEF OwnerInv

LEMMA DropOwned ==
    ASSUME Typed, OwnerInv, NEW s \in Save, DropOldLocation(s)
    PROVE  OwnerInv'
<1> DEFINE l == save[s].oldLoc
           E == {e \in entries : locationId[e] = l}
<1>1. save[s].pc = "drop" /\ WillDrop(s) /\ E \in SUBSET Save
    BY DEF DropOldLocation, WillDrop, Typed, TypeOK
<1>2. /\ \A q \in Save \ {s} : save'[q] = save[q]
      /\ save'[s].pc = "done"
    BY DEF DropOldLocation, Done, NoSave, Typed, TypeOK
<1>3. DeleteRows(E, {l}) /\ folders' = folders \ {l} /\ UNCHANGED job
    BY DEF DropOldLocation, DeleteStorageLocation
<1>4. /\ GoneIsOwn' /\ NotShared'
      /\ entries' \subseteq entries /\ leaked' = leaked
      /\ \A e \in entries' : locationId'[e] = locationId[e] /\ locationId[e] # l
      /\ locations' = locations \ {l}
    <2>1. \A e \in entries : e \notin E => locationId[e] # l
        OBVIOUS
    <2> HIDE DEF E, l
    <2>2. QED  BY <1>1, <1>3, <2>1, RowsGo
<1> HIDE DEF l
<1>5. NewUnknown'
    BY <1>1, <1>2, <1>3, <1>4 DEF OwnerInv, NewUnknown, Unwritten, WillDrop, Listed, l
<1>6. ListedIsOwn' /\ VictimUnled' /\ OneVictim'
    BY <1>3, <1>4 DEF OwnerInv, ListedIsOwn, VictimUnled, OneVictim
<1>7. ServedHasFolder' /\ FoldersOwned'
    BY <1>3, <1>4 DEF OwnerInv, ServedHasFolder, FoldersOwned
<1>8. QED  BY <1>4, <1>5, <1>6, <1>7 DEF OwnerInv

LEMMA JobOwned ==
    ASSUME Typed, OwnerInv, BeginRun \/ JobStep \/ Deadline
    PROVE  OwnerInv'
<1>1. /\ job.victim = {} \/ \E v \in Victims : job.victim = {v}
      /\ job.pc \in {"idle", "list", "next"} => job.victim = {}
    BY DEF OwnerInv, OneVictim, Typed, TypeOK
<1>2. OneVictim
    BY DEF OwnerInv
<1>3. CASE BeginRun
    <2>1. job'.todo = job.todo /\ job'.victim = job.victim /\ OneVictim'
        BY <1>2, <1>3 DEF BeginRun, OneVictim, Typed, TypeOK, NoRun
    <2>2. QED  BY <1>3, <2>1, NothingNewListed DEF BeginRun, tables, ghosts
<1>4. CASE ListPage
    <2>1. PICK S \in ListLRUCacheEntries :
              IF S = {} THEN Stop
              ELSE job' = [job EXCEPT !.pc = "next", !.todo = {Victim(e) : e \in S}]
        BY <1>4 DEF ListPage
    <2>2. CASE S = {}
        <3>1. job'.todo \subseteq job.todo /\ job'.victim = job.victim /\ OneVictim'
            BY <1>1, <1>4, <2>1, <2>2 DEF Stop, NoRun, OneVictim, ListPage
        <3>2. QED  BY <1>4, <3>1, NothingNewListed DEF ListPage, tables, ghosts
    <2>3. CASE S # {}
        <3>1. /\ S \subseteq entries
              /\ job'.todo = {Victim(e) : e \in S}
              /\ job'.victim = {} /\ job'.pc = "next"
            BY <1>1, <1>4, <2>1, <2>3, PageFacts DEF ListPage, Typed, TypeOK
        <3>2. UNCHANGED <<entries, locationId, locations, folders, save, leaked>>
            BY <1>4 DEF ListPage, tables, ghosts
        <3>3. \A v \in job'.todo : v.entry \in entries /\ v.loc = locationId[v.entry]
            BY <3>1 DEF Victim
        <3>4. NewUnknown'
            BY <3>1, <3>2, <3>3
            DEF OwnerInv, NewUnknown, Unwritten, WillDrop, Listed
        <3>5. ListedIsOwn' /\ VictimUnled' /\ OneVictim'
            BY <3>1, <3>2, <3>3 DEF OwnerInv, NotShared, ListedIsOwn, VictimUnled, OneVictim
        <3>6. ServedHasFolder' /\ FoldersOwned' /\ GoneIsOwn' /\ NotShared'
            BY <1>1, <1>4, <3>2
            DEF ListPage, OwnerInv, ServedHasFolder, FoldersOwned, GoneIsOwn, NotShared
        <3>7. QED  BY <3>4, <3>5, <3>6 DEF OwnerInv
    <2>4. QED  BY <2>2, <2>3
<1>5. CASE ListFails \/ Probe \/ ProbeFails
    <2>1. job.victim = {} /\ (job' = NoRun \/ (job.todo = {} /\ job' = [job EXCEPT !.pc = "list"]))
        BY <1>1, <1>5 DEF ListFails, Probe, ProbeFails, Stop, Goto
    <2>2. job'.todo \subseteq job.todo /\ job'.victim = job.victim /\ OneVictim'
        <3>1. CASE job' = NoRun
            BY <2>1, <3>1 DEF NoRun, OneVictim
        <3>2. CASE job.todo = {} /\ job' = [job EXCEPT !.pc = "list"]
            BY <2>1, <3>2 DEF OneVictim, Typed, TypeOK
        <3>3. QED  BY <2>1, <3>1, <3>2
    <2>3. QED
        BY <1>5, <2>2, NothingNewListed DEF ListFails, Probe, ProbeFails, tables, ghosts
<1>6. CASE EvictEntry
    <2>1. PICK v \in job.todo :
              /\ job' = [job EXCEPT !.pc = "location", !.todo = @ \ {v}, !.victim = {v}]
              /\ DeleteRows({v.entry}, {})
        BY <1>6 DEF EvictEntry, DeleteCacheEntry
    <2>2. v \in Victims /\ UNCHANGED <<folders, save>>
        BY <1>6 DEF EvictEntry, Typed, TypeOK
    <2>3. /\ GoneIsOwn' /\ NotShared'
          /\ entries' \subseteq entries /\ leaked' = leaked
          /\ \A e \in entries' : e # v.entry /\ locationId'[e] = locationId[e]
          /\ locations' = locations
        <3>1. {v.entry} \in SUBSET Save
            BY <2>2 DEF Victims
        <3>2. /\ GoneIsOwn' /\ NotShared'
              /\ entries' \subseteq entries /\ leaked' = leaked
              /\ \A e \in entries' : e \notin {v.entry} /\ locationId'[e] = locationId[e]
              /\ locations' = locations \ {}
            BY <2>1, <3>1, RowsGo
        <3>3. QED  BY <3>2
    <2>4. job'.todo = job.todo \ {v} /\ job'.victim = {v} /\ job'.pc = "location"
        BY <2>1 DEF Typed, TypeOK
    <2>5. NewUnknown'
        BY <2>2, <2>3, <2>4 DEF OwnerInv, NewUnknown, Unwritten, WillDrop, Listed
    <2>6. ListedIsOwn' /\ VictimUnled' /\ OneVictim'
        BY <2>2, <2>3, <2>4 DEF OwnerInv, ListedIsOwn, VictimUnled, OneVictim
    <2>7. ServedHasFolder' /\ FoldersOwned'
        BY <1>1, <1>6, <2>2, <2>3, <2>4
        DEF EvictEntry, OwnerInv, ServedHasFolder, FoldersOwned
    <2>8. QED  BY <2>3, <2>5, <2>6, <2>7 DEF OwnerInv
<1>7. CASE SkipEntry
    <2>1. job'.todo \subseteq job.todo /\ job'.victim = job.victim /\ OneVictim'
        BY <1>2, <1>7 DEF SkipEntry, OneVictim, Typed, TypeOK
    <2>2. QED  BY <1>7, <2>1, NothingNewListed DEF SkipEntry, tables, ghosts
<1>8. CASE EvictLocation
    <2>1. PICK v \in job.victim :
              DeleteRows({e \in entries : locationId[e] = v.loc}, {v.loc})
        BY <1>8 DEF EvictLocation, DeleteStorageLocation
    <2> DEFINE E == {e \in entries : locationId[e] = v.loc}
    <2>2. E \in SUBSET Save /\ UNCHANGED <<folders, save>>
        BY <1>8 DEF EvictLocation, Typed, TypeOK
    <2>3. job'.todo = job.todo /\ job'.victim = job.victim /\ job'.pc = "folder"
        BY <1>8 DEF EvictLocation, Goto, Typed, TypeOK
    <2>4. /\ GoneIsOwn' /\ NotShared'
          /\ entries' \subseteq entries /\ leaked' = leaked
          /\ \A e \in entries' : locationId'[e] = locationId[e] /\ locationId[e] # v.loc
          /\ locations' = locations \ {v.loc}
        <3>1. \A e \in entries : e \notin E => locationId[e] # v.loc
            OBVIOUS
        <3> HIDE DEF E
        <3>2. QED  BY <2>1, <2>2, <3>1, RowsGo DEF E
    <2>5. NewUnknown'
        BY <2>2, <2>3, <2>4 DEF OwnerInv, NewUnknown, Unwritten, WillDrop, Listed
    <2>6. ListedIsOwn' /\ VictimUnled' /\ OneVictim'
        BY <1>8, <2>3, <2>4
        DEF EvictLocation, OwnerInv, ListedIsOwn, VictimUnled, OneVictim
    <2>7. ServedHasFolder' /\ FoldersOwned'
        BY <2>2, <2>3, <2>4 DEF OwnerInv, ServedHasFolder, FoldersOwned
    <2>8. QED  BY <2>4, <2>5, <2>6, <2>7 DEF OwnerInv
<1>9. CASE EvictLocationFails
    <2>1. job'.todo \subseteq job.todo /\ job'.victim = job.victim /\ OneVictim'
        BY <1>2, <1>9 DEF EvictLocationFails, Goto, OneVictim, Typed, TypeOK
    <2>2. QED  BY <1>9, <2>1, NothingNewListed DEF EvictLocationFails, tables, ghosts
<1>10. CASE EvictFolder \/ EvictFolderFails
    <2>1. PICK v \in Victims : job.victim = {v}
        BY <1>1, <1>2, <1>10 DEF EvictFolder, EvictFolderFails, OneVictim
    <2>2. /\ job'.todo = job.todo /\ job'.victim = {} /\ job'.pc = "next"
          /\ UNCHANGED <<entries, locationId, locations, save>>
        BY <1>10 DEF EvictFolder, EvictFolderFails, Evicted, tables, Typed, TypeOK
    <2>3. \/ folders' = folders \ {v.loc} /\ leaked' = leaked
          \/ folders' = folders /\ leaked' = leaked \cup {v.loc}
        BY <1>10, <2>1 DEF EvictFolder, EvictFolderFails, ghosts
    <2>4. (\A e \in entries : locationId[e] # v.loc) /\ (\A s \in Save : Unwritten(s) => s # v.loc)
        BY <2>1 DEF OwnerInv, VictimUnled, NewUnknown, Listed
    <2>5. NewUnknown'
        BY <2>2, <2>3, <2>4 DEF OwnerInv, NewUnknown, Unwritten, WillDrop, Listed
    <2>6. ListedIsOwn' /\ VictimUnled' /\ OneVictim' /\ GoneIsOwn' /\ NotShared'
        BY <2>2
        DEF OwnerInv, ListedIsOwn, VictimUnled, OneVictim, GoneIsOwn, NotShared
    <2>7. ServedHasFolder' /\ FoldersOwned'
        BY <2>1, <2>2, <2>3, <2>4 DEF OwnerInv, ServedHasFolder, FoldersOwned
    <2>8. QED  BY <2>5, <2>6, <2>7 DEF OwnerInv
<1>11. CASE Deadline
    <2>1. job'.todo \subseteq job.todo /\ job'.victim = job.victim /\ OneVictim'
        BY <1>2, <1>11 DEF Deadline, OneVictim, Typed, TypeOK
    <2>2. QED  BY <1>11, <2>1, NothingNewListed DEF Deadline, tables, ghosts
<1>12. QED
    BY <1>3, <1>4, <1>5, <1>6, <1>7, <1>8, <1>9, <1>10, <1>11 DEF JobStep

LEMMA OwnerStep == Typed /\ OwnerInv /\ [Next]_vars => OwnerInv'
<1> SUFFICES ASSUME Typed, OwnerInv, [Next]_vars PROVE OwnerInv'
    OBVIOUS
<1>1. ASSUME UNCHANGED <<entries, locationId, locations, folders, save, leaked, job>>
      PROVE  OwnerInv'
    BY <1>1, NothingNewListed DEF OwnerInv, OneVictim
<1>2. CASE UNCHANGED vars
    BY <1>1, <1>2 DEF vars, tables, ghosts
<1>3. CASE Tick
    BY <1>1, <1>3 DEF Tick, tables, ghosts
<1>4. ASSUME NEW s \in Save, Download(s) \/ MergeEnds(s) \/ EndReading(s)
      PROVE  OwnerInv'
    BY <1>1, <1>4 DEF Download, MergeEnds, EndReading, tables, ghosts
<1>5. ASSUME NEW n \in notes, ReadClock(n) \/ UpdateStorageLastDownloaded(n)
      PROVE  OwnerInv'
    BY <1>1, <1>5 DEF ReadClock, UpdateStorageLastDownloaded, tables
<1>6. QED
    BY <1>2, <1>3, <1>4, <1>5, BeginOwned, WriteOwned, DropOwned, JobOwned DEF Next, SaveStep

(* Who may lead to a location, and who owns its folder. *)
THEOREM Owners == Spec => []OwnerInv
BY OwnerStart, OwnerStep, AlwaysTyped, PTL DEF Spec

(* Whatever is saved, downloaded, merged, listed and evicted, and whichever *)
(* statement fails, an entry that is there has the row and the folder of    *)
(* its location.                                                           *)
THEOREM EntriesKeepFolders == Spec => []ServedHasFolder
<1>1. OwnerInv => ServedHasFolder
    BY DEF OwnerInv
<1>2. QED  BY <1>1, Owners, PTL

(* Every folder has a row that leads to it, or its eviction is under way,   *)
(* or its own removal failed.                                              *)
THEOREM FoldersAreOwned == Spec => []FoldersOwned
<1>1. OwnerInv => FoldersOwned
    BY DEF OwnerInv
<1>2. QED  BY <1>1, Owners, PTL

-----------------------------------------------------------------------------
(* The room on the disk and the evictions that are due. *)

RoomKnown == UsableFreeBytes \in Int

LeftKnown ==
    /\ Cardinality(job.todo) \in Nat /\ Left \in Nat
    /\ job.victim = {} => Left = Cardinality(job.todo)
    /\ job.victim # {} => Left = Cardinality(job.todo) + 1
    /\ job.todo = {} => Cardinality(job.todo) = 0
    /\ \A v \in job.todo : Cardinality(job.todo \ {v}) = Cardinality(job.todo) - 1

LEMMA LeftFacts == Typed /\ OwnerInv => LeftKnown
<1> SUFFICES ASSUME Typed, OwnerInv PROVE LeftKnown
    OBVIOUS
<1>1. Cardinality(job.todo) \in Nat
    BY FS_CardinalityType DEF Typed, Finite
<1>2. job.victim = {} \/ \E v : job.victim = {v}
    <2>1. CASE job.victim = {}
        BY <2>1
    <2>2. CASE job.victim # {}
        <3>1. \A v, w \in job.victim : v = w
            BY <2>2 DEF OwnerInv, OneVictim, Typed, TypeOK
        <3>2. PICK v \in job.victim : TRUE
            BY <2>2
        <3>3. job.victim = {v}
            BY <3>1, <3>2
        <3>4. QED  BY <3>3
    <2>3. QED  BY <2>1, <2>2
<1>3. /\ job.victim = {} => Cardinality(job.victim) = 0
      /\ job.victim # {} => Cardinality(job.victim) = 1
    BY <1>2, FS_EmptySet, FS_Singleton
<1>4. job.todo = {} => Cardinality(job.todo) = 0
    BY FS_EmptySet
<1>5. \A v \in job.todo : Cardinality(job.todo \ {v}) = Cardinality(job.todo) - 1
    BY FS_RemoveElement DEF Typed, Finite
<1>6. QED  BY <1>1, <1>2, <1>3, <1>4, <1>5 DEF Left, LeftKnown

(* The same facts of the state that a step leads to. *)
LEMMA NextFacts ==
    /\ Finite' => RoomKnown'
    /\ Typed' /\ OwnerInv' => LeftKnown'
<1>1. Finite => RoomKnown
    BY RoomFacts DEF RoomKnown
<1>2. Typed /\ OwnerInv => LeftKnown
    BY LeftFacts
<1>3. QED  BY <1>1, <1>2, PTL

(* Folders that go, and files that are closed, give room back.              *)
LEMMA RoomGrows ==
    ASSUME Finite, Finite', folders' \cup reading' \subseteq folders \cup reading
    PROVE  UsableFreeBytes' >= UsableFreeBytes
<1>1. Cardinality(folders' \cup reading') <= Cardinality(folders \cup reading)
    BY RoomFacts, FS_Subset
<1>2. Cardinality(folders' \cup reading') \in Nat
    <2>1. IsFiniteSet(folders' \cup reading')
        BY FS_Union DEF Finite
    <2>2. QED  BY <2>1, FS_CardinalityType
<1>3. QED  BY <1>1, <1>2, RoomFacts, TargetFacts DEF UsableFreeBytes

LEMMA RoomTaken ==
    ASSUME Finite, NEW s, folders' = folders \cup {s}, UNCHANGED reading
    PROVE  UsableFreeBytes' \in Int /\ UsableFreeBytes' >= UsableFreeBytes - 1
<1>1. folders' \cup reading' = (folders \cup reading) \cup {s}
    OBVIOUS
<1>2. Cardinality(folders' \cup reading') =
          IF s \in folders \cup reading THEN Cardinality(folders \cup reading)
          ELSE Cardinality(folders \cup reading) + 1
    BY <1>1, RoomFacts, FS_AddElement
<1>3. QED  BY <1>1, <1>2, RoomFacts, TargetFacts DEF UsableFreeBytes

(* A folder that nobody has open gives its room back.                       *)
LEMMA RoomReturned ==
    ASSUME Finite, NEW l \in folders \ reading, folders' = folders \ {l}, UNCHANGED reading
    PROVE  UsableFreeBytes' = UsableFreeBytes + 1
<1>1. folders' \cup reading' = (folders \cup reading) \ {l}
    OBVIOUS
<1>2. Cardinality(folders' \cup reading') = Cardinality(folders \cup reading) - 1
    BY <1>1, RoomFacts, FS_RemoveElement
<1>3. QED  BY <1>1, <1>2, RoomFacts, TargetFacts DEF UsableFreeBytes

(* A step that counts no eviction and does not add to the page.             *)
LEMMA RoomKept ==
    ASSUME Typed, OwnerInv, RoomInv, Typed', OwnerInv',
           folders' \cup reading' \subseteq folders \cup reading,
           job'.due = job.due, job'.evicted = job.evicted,
           job'.pc # "idle" => job.pc # "idle",
           job'.pc = "list" => job.pc = "list",
           Left' <= Left
    PROVE  RoomInv'
<1>1. UsableFreeBytes' >= UsableFreeBytes /\ UsableFreeBytes \in Int /\ UsableFreeBytes' \in Int
    BY RoomGrows, RoomFacts, NextFacts DEF Typed, RoomKnown
<1>2. Left \in Nat /\ Left' \in Nat
    BY LeftFacts, NextFacts DEF LeftKnown
<1>3. job.due \in Nat /\ job.evicted \in Nat
    BY DEF Typed, TypeOK
<1>4. QED  BY <1>1, <1>2, <1>3, TargetFacts DEF RoomInv

LEMMA RoomStart == Init => RoomInv
BY DEF Init, NoRun, RoomInv

LEMMA SaveRoom ==
    ASSUME Typed, OwnerInv, RoomInv, Typed', OwnerInv', NEW s \in Save, SaveStep(s)
    PROVE  RoomInv'
<1>1. CASE BeginSave(s)
    <2>1. /\ folders' = folders \cup {s} /\ UNCHANGED reading
          /\ IF job = NoRun THEN job' = job ELSE job' = [job EXCEPT !.due = @ + 1]
        BY <1>1 DEF BeginSave, downloading
    <2>2. UsableFreeBytes' \in Int /\ UsableFreeBytes' >= UsableFreeBytes - 1
          /\ UsableFreeBytes \in Int
        BY <2>1, RoomTaken, RoomFacts DEF Typed
    <2>3. CASE job = NoRun
        BY <2>1, <2>3 DEF RoomInv, NoRun
    <2>4. CASE job # NoRun
        <3>1. /\ job'.due = job.due + 1 /\ job'.evicted = job.evicted /\ job'.pc = job.pc
              /\ job'.todo = job.todo /\ job'.victim = job.victim
              /\ job.due \in Nat /\ job.evicted \in Nat
            BY <2>1, <2>4 DEF Typed, TypeOK
        <3>2. job.pc # "idle"
            BY <2>4 DEF OwnerInv, OneVictim
        <3>3. Left' = Left /\ Left \in Nat
            BY <3>1, LeftFacts DEF Left, LeftKnown
        <3>4. QED  BY <2>2, <3>1, <3>2, <3>3, TargetFacts DEF RoomInv
    <2>5. QED  BY <2>3, <2>4
<1>2. CASE ~BeginSave(s)
    <2>1. folders' \subseteq folders /\ reading' = reading /\ UNCHANGED job
        BY <1>2
        DEF SaveStep, InsertCacheEntry, UpdateCacheEntryLocation, DropOldLocation, downloading
    <2>2. Left' = Left /\ Left \in Nat
        BY <2>1, LeftFacts DEF Left, LeftKnown
    <2>3. QED  BY <2>1, <2>2, RoomKept
<1>3. QED  BY <1>1, <1>2

LEMMA JobRoom ==
    ASSUME Typed, OwnerInv, RoomInv, Typed', OwnerInv', BeginRun \/ JobStep \/ Deadline
    PROVE  RoomInv'
<1> DEFINE free == UsableFreeBytes
<1>1. /\ free \in Int /\ free' \in Int /\ LeftKnown /\ LeftKnown'
    BY RoomFacts, LeftFacts, NextFacts DEF Typed, RoomKnown
<1>2. job.due \in Nat /\ job.evicted \in Nat
    BY DEF Typed, TypeOK
<1>3. OneVictim /\ OneVictim'
    BY DEF OwnerInv
<1>4. ASSUME UNCHANGED <<folders, reading>>,
             job'.due = job.due, job'.evicted = job.evicted,
             job'.pc # "idle" => job.pc # "idle",
             job'.pc = "list" => job.pc = "list",
             Left' <= Left
      PROVE  RoomInv'
    BY <1>4, RoomKept
<1>5. ASSUME job' = NoRun PROVE RoomInv'
    BY <1>5 DEF NoRun, RoomInv
<1>6. ASSUME UNCHANGED <<folders, reading>> PROVE free' = free
    BY <1>6 DEF UsableFreeBytes
<1>7. CASE BeginRun
    <2>1. /\ job.pc = "idle" /\ free < MinFree /\ UNCHANGED <<folders, reading>>
          /\ job' = [job EXCEPT !.pc = "list", !.due = Target - free]
        BY <1>7 DEF BeginRun, downloading
    <2>2. job = NoRun
        BY <1>3, <2>1 DEF OneVictim
    <2>3. /\ job'.pc = "list" /\ job'.due = Target - free /\ job'.evicted = 0
          /\ job'.todo = {} /\ job'.victim = {}
        BY <2>1, <2>2 DEF NoRun
    <2>4. Left' = 0
        BY <1>1, <2>3 DEF LeftKnown
    <2> HIDE DEF free
    <2>5. QED
        BY <1>1, <1>6, <2>1, <2>3, <2>4, TargetFacts DEF RoomInv, free
<1>8. CASE ListPage
    <2>1. PICK S \in ListLRUCacheEntries :
              IF S = {} THEN Stop
              ELSE job' = [job EXCEPT !.pc = "next", !.todo = {Victim(e) : e \in S}]
        BY <1>8 DEF ListPage
    <2>2. CASE S = {}
        BY <1>5, <2>1, <2>2 DEF Stop
    <2>3. CASE S # {}
        <3>1. /\ job.pc = "list" /\ UNCHANGED <<folders, reading>>
              /\ job'.pc = "next" /\ job'.due = job.due /\ job'.evicted = job.evicted
              /\ job'.victim = {} /\ job'.todo = {Victim(e) : e \in S}
            <4>1. job.pc = "list" /\ job.victim = {} /\ UNCHANGED <<folders, reading>>
                BY <1>3, <1>8 DEF ListPage, downloading, OneVictim
            <4>2. job' = [job EXCEPT !.pc = "next", !.todo = {Victim(e) : e \in S}]
                BY <2>1, <2>3
            <4>3. QED  BY <4>1, <4>2 DEF Typed, TypeOK
        <3>2. Left' \in Nat /\ Left' <= Batch
            BY <1>1, <3>1, PageFacts DEF LeftKnown
        <3>3. free >= Target - job.due + job.evicted
              /\ job.evicted <= job.due - 1 /\ job.evicted <= MaxEvictions - 1
            BY <3>1 DEF RoomInv
        <3>4. free' = free
            BY <1>6, <3>1
        <3> HIDE DEF free
        <3>5. QED
            BY <1>1, <1>2, <3>1, <3>2, <3>3, <3>4, TargetFacts DEF RoomInv, free
    <2>4. QED  BY <2>2, <2>3
<1>9. CASE ListFails \/ ProbeFails
    BY <1>5, <1>9 DEF ListFails, ProbeFails, Stop
<1>10. CASE Probe
    <2>1. CASE free >= Target \/ job.evicted >= MaxEvictions
        BY <1>5, <1>10, <2>1 DEF Probe, Stop
    <2>2. CASE ~(free >= Target \/ job.evicted >= MaxEvictions)
        <3>1. /\ job.pc = "next" /\ job.todo = {} /\ UNCHANGED <<folders, reading>>
              /\ job' = [job EXCEPT !.pc = "list"]
            BY <1>10, <2>2 DEF Probe, Goto, downloading
        <3>2. /\ job'.pc = "list" /\ job'.due = job.due /\ job'.evicted = job.evicted
              /\ job'.todo = {} /\ job'.victim = {}
            BY <1>3, <3>1 DEF OneVictim, Typed, TypeOK
        <3>3. Left' = 0 /\ free' = free
            BY <1>1, <1>6, <3>1, <3>2 DEF LeftKnown
        <3>4. free >= Target - job.due + job.evicted
            BY <3>1 DEF RoomInv
        <3> HIDE DEF free
        <3>5. QED
            BY <1>1, <1>2, <2>2, <3>2, <3>3, <3>4, TargetFacts DEF RoomInv, free
    <2>3. QED  BY <2>1, <2>2
<1>11. CASE EvictEntry \/ SkipEntry
    <2>1. PICK v \in job.todo :
              \/ job' = [job EXCEPT !.pc = "location", !.todo = @ \ {v}, !.victim = {v}]
              \/ job' = [job EXCEPT !.todo = @ \ {v}]
        BY <1>11 DEF EvictEntry, SkipEntry, Foremost
    <2>2. /\ job.pc = "next" /\ job.victim = {} /\ UNCHANGED <<folders, reading>>
        BY <1>3, <1>11 DEF EvictEntry, SkipEntry, OneVictim, downloading
    <2>3. /\ job'.todo = job.todo \ {v} /\ job'.due = job.due /\ job'.evicted = job.evicted
          /\ job'.pc \in {"location", "next"}
        BY <2>1, <2>2 DEF Typed, TypeOK
    <2>4. Left' <= Left
        BY <1>1, <2>2, <2>3 DEF LeftKnown
    <2>5. QED  BY <1>4, <2>2, <2>3, <2>4
<1>12. CASE EvictLocation \/ EvictLocationFails \/ Deadline
    <2>1. /\ job'.todo = job.todo /\ job'.victim = job.victim
          /\ job'.due = job.due /\ job'.evicted = job.evicted
          /\ job'.pc = job.pc \/ job'.pc = "folder"
          /\ job.pc # "idle" /\ UNCHANGED <<folders, reading>>
        BY <1>12
        DEF EvictLocation, EvictLocationFails, Deadline, Goto, downloading, Typed, TypeOK
    <2>2. Left' = Left /\ Left \in Nat
        BY <1>1, <2>1 DEF Left, LeftKnown
    <2>3. QED  BY <1>4, <2>1, <2>2
<1>13. CASE EvictFolder \/ EvictFolderFails
    <2>1. PICK v \in job.victim, n \in {0, 1} :
              /\ Evicted(n) /\ UNCHANGED reading
              /\ folders' = folders \/ folders' = folders \ {v.loc}
              /\ n = 0 => v.loc \in folders \ reading /\ folders' = folders \ {v.loc}
        BY <1>3, <1>13 DEF EvictFolder, EvictFolderFails, downloading, OneVictim
    <2>2. /\ job'.pc = "next" /\ job'.todo = job.todo /\ job'.victim = {}
          /\ job'.evicted = job.evicted + 1 /\ job'.due = job.due + n
        BY <2>1 DEF Evicted, Typed, TypeOK
    <2>3. Left' = Left - 1 /\ Left \in Nat
        BY <1>1, <2>1, <2>2 DEF LeftKnown
    <2>4. free' >= free + 1 - n
        <3>1. CASE n = 0
            BY <1>1, <2>1, <3>1, RoomReturned DEF Typed
        <3>2. CASE n = 1
            BY <1>1, <2>1, <3>2, RoomGrows DEF Typed
        <3>3. QED  BY <3>1, <3>2
    <2>5. /\ free >= Target - job.due + job.evicted
          /\ job.evicted + Left <= job.due + Batch - 1
          /\ job.evicted + Left <= MaxEvictions + Batch - 1
        BY <1>13 DEF RoomInv, EvictFolder, EvictFolderFails
    <2> HIDE DEF free
    <2>6. QED
        BY <1>1, <1>2, <2>1, <2>2, <2>3, <2>4, <2>5, TargetFacts DEF RoomInv, free
<1>14. QED
    BY <1>7, <1>8, <1>9, <1>10, <1>11, <1>12, <1>13 DEF JobStep

LEMMA RoomStep ==
    ASSUME Typed, OwnerInv, RoomInv, [Next]_vars, Typed', OwnerInv'
    PROVE  RoomInv'
<1>1. ASSUME UNCHANGED job, folders' = folders, reading' \subseteq folders \cup reading
      PROVE  RoomInv'
    <2>1. Left' = Left /\ Left \in Nat
        BY <1>1, LeftFacts DEF Left, LeftKnown
    <2>2. QED  BY <1>1, <2>1, RoomKept
<1>2. CASE UNCHANGED vars
    BY <1>1, <1>2 DEF vars, downloading
<1>3. CASE Tick
    BY <1>1, <1>3 DEF Tick, downloading
<1>4. ASSUME NEW s \in Save, Download(s) \/ MergeEnds(s) \/ EndReading(s)
      PROVE  RoomInv'
    BY <1>1, <1>4 DEF Download, MergeEnds, EndReading, downloading
<1>5. ASSUME NEW n \in notes, ReadClock(n) \/ UpdateStorageLastDownloaded(n)
      PROVE  RoomInv'
    BY <1>1, <1>5 DEF ReadClock, UpdateStorageLastDownloaded
<1>6. QED  BY <1>2, <1>3, <1>4, <1>5, SaveRoom, JobRoom DEF Next

LEMMA RoomAlways == Spec => []RoomInv
<1>1. Typed /\ OwnerInv /\ RoomInv /\ [Next]_vars /\ Typed' /\ OwnerInv' => RoomInv'
    BY RoomStep
<1>2. QED  BY <1>1, RoomStart, AlwaysTyped, Owners, PTL DEF Spec

(* A run evicts no more than what was due and a batch less one, nor more    *)
(* than its share and a batch less one.                                    *)
THEOREM EvictionsAreBounded == Spec => []EvictionsBounded
<1>1. Typed /\ OwnerInv /\ RoomInv => EvictionsBounded
    <2> SUFFICES ASSUME Typed, OwnerInv, RoomInv, job.pc # "idle" PROVE EvictionsBounded
        BY DEF EvictionsBounded
    <2>1. job.due \in Nat /\ job.evicted \in Nat /\ Left \in Nat
        BY LeftFacts DEF Typed, TypeOK, LeftKnown
    <2>2. QED  BY <2>1, TargetFacts DEF RoomInv, EvictionsBounded
<1>2. QED  BY <1>1, AlwaysTyped, Owners, RoomAlways, PTL

-----------------------------------------------------------------------------
(* When a location was used last. *)

LEMMA UseStart == Init => UseInv
BY DEF Init, UseInv, NotesKnown, Null

(* Only the clock goes on. *)
LEMMA UseKept ==
    ASSUME Typed, UseInv, now' \in Nat, now' >= now,
           UNCHANGED <<entries, locationId, updatedAt, locations, lastDownloadedAt, save,
                       notes, lastUse, overtaken>>
    PROVE  UseInv'
<1>1. NotesKnown'
    BY DEF UseInv, NotesKnown, Unwritten, Typed, TypeOK
<1>2. QED  BY <1>1 DEF UseInv, UseNoted

(* What is deleted is not used any more. *)
LEMMA DeletionUse ==
    ASSUME Typed, UseInv, NEW E, NEW L, DeleteRows(E, L), UNCHANGED <<now, notes>>,
           \A s \in Save : Unwritten(s)' = Unwritten(s)
    PROVE  UseInv'
<1>1. /\ entries' = entries \ E /\ locations' = locations \ L
      /\ overtaken' = overtaken \ L
      /\ \A e \in entries' : locationId'[e] = locationId[e] /\ updatedAt'[e] = updatedAt[e]
      /\ \A l \in Save \ L : /\ lastDownloadedAt'[l] = lastDownloadedAt[l]
                             /\ lastUse'[l] = lastUse[l]
      /\ \A l \in Save \cap L : lastDownloadedAt'[l] = Null
    BY DEF DeleteRows, Typed, TypeOK
<1>2. NotesKnown'
    BY <1>1 DEF UseInv, NotesKnown, Typed, TypeOK
<1>3. ASSUME NEW l \in locations' \ overtaken'
      PROVE  UseNoted(l)'
    <2>1. l \in locations \ overtaken /\ l \in Save \ L
        BY <1>1, <1>3 DEF Typed, TypeOK
    <2>2. UseNoted(l)
        BY <2>1 DEF UseInv
    <2>3. QED  BY <1>1, <2>1, <2>2 DEF UseNoted
<1>4. QED  BY <1>2, <1>3 DEF UseInv

LEMMA BeginUse ==
    ASSUME Typed, OwnerInv, UseInv, NEW s \in Save, BeginSave(s)
    PROVE  UseInv'
<1>1. /\ UNCHANGED <<now, entries, locationId, updatedAt, lastDownloadedAt, notes,
                     lastUse, overtaken>>
      /\ locations' = locations \cup {s} /\ Unwritten(s)
    BY DEF BeginSave, downloading, ghosts, Unwritten
<1>2. \A q \in Save : Unwritten(q)' = Unwritten(q)
    BY <1>1 DEF BeginSave, Unwritten, Typed, TypeOK
<1>3. \A n \in notes : n.loc # s
    BY <1>1 DEF UseInv, NotesKnown
<1>4. NotesKnown'
    BY <1>1, <1>2, <1>3 DEF UseInv, NotesKnown, Typed, TypeOK
<1>5. UseNoted(s)'
    BY <1>1, <1>3 DEF UseNoted, UseInv, NotesKnown, OwnerInv, NewUnknown
<1>6. \A l \in locations : UseNoted(l) => UseNoted(l)'
    BY <1>1 DEF UseNoted
<1>7. QED  BY <1>1, <1>4, <1>5, <1>6 DEF UseInv

(* The save is the last use of its location, and the entry says so.         *)
LEMMA WriteUse ==
    ASSUME Typed, OwnerInv, UseInv, NEW s \in Save,
           InsertCacheEntry(s) \/ UpdateCacheEntryLocation(s)
    PROVE  UseInv'
<1> DEFINE e0 == save[s].old
<1>1. Unwritten(s) /\ e0 \in Save /\ save[s].at \in Nat
    BY DEF InsertCacheEntry, UpdateCacheEntryLocation, Unwritten, Typed, TypeOK
<1>2. /\ \A q \in Save \ {s} : Unwritten(q)' = Unwritten(q)
      /\ ~Unwritten(s)'
    BY DEF InsertCacheEntry, UpdateCacheEntryLocation, Unwritten, Typed, TypeOK, Done, NoSave
<1>3. /\ UNCHANGED <<now, locations, lastDownloadedAt, notes, overtaken>>
      /\ \A l \in Save : lastUse'[l] = IF l = s THEN save[s].at ELSE lastUse[l]
    BY DEF InsertCacheEntry, UpdateCacheEntryLocation, downloading, Typed, TypeOK
<1>4. s \notin entries /\ locationId[s] = s /\ \A e \in entries : locationId[e] # s
    BY <1>1 DEF OwnerInv, NewUnknown, GoneIsOwn
<1>5. \A e \in entries' :
          \/ e \in entries /\ locationId'[e] = locationId[e] /\ updatedAt'[e] = updatedAt[e]
          \/ locationId'[e] = s /\ updatedAt'[e] = save[s].at
    BY <1>1, <1>4 DEF InsertCacheEntry, UpdateCacheEntryLocation, Typed, TypeOK
<1>6. \A n \in notes : n.loc # s /\ n.loc \in Save
    BY <1>1 DEF UseInv, NotesKnown, Typed, TypeOK
<1>7. NotesKnown'
    BY <1>2, <1>3, <1>6 DEF UseInv, NotesKnown, Typed, TypeOK
<1>8. UseNoted(s)'
    BY <1>1, <1>3, <1>4, <1>5, <1>6 DEF UseNoted, UseInv, NotesKnown
<1>9. \A l \in Save \ {s} : UseNoted(l) => UseNoted(l)'
    BY <1>3, <1>5 DEF UseNoted
<1>10. QED  BY <1>3, <1>7, <1>8, <1>9 DEF UseInv, Typed, TypeOK

LEMMA DownloadUse ==
    ASSUME Typed, OwnerInv, UseInv, NEW e \in Save, Download(e)
    PROVE  UseInv'
<1> DEFINE n == [id |-> downloads', loc |-> locationId[e], at |-> Null]
<1>1. /\ notes' = notes \cup {n} /\ n.loc = locationId[e] /\ n.at = Null
      /\ UNCHANGED <<now, entries, locationId, updatedAt, locations, lastDownloadedAt,
                     save, lastUse, overtaken>>
      /\ e \in entries /\ locationId[e] \in Save
    BY DEF Download, ghosts, Typed, TypeOK
<1> HIDE DEF n
<1>2. ~Unwritten(n.loc)
    BY <1>1 DEF OwnerInv, NewUnknown
<1>3. NotesKnown'
    BY <1>1, <1>2 DEF UseInv, NotesKnown, Unwritten, Null, Typed, TypeOK
<1>4. \A l \in Save : UseNoted(l) => UseNoted(l)'
    BY <1>1 DEF UseNoted
<1>5. QED  BY <1>1, <1>3, <1>4 DEF UseInv, Typed, TypeOK

LEMMA ReadClockUse ==
    ASSUME Typed, UseInv, NEW n \in notes, ReadClock(n)
    PROVE  UseInv'
<1> DEFINE m == [n EXCEPT !.at = now]
<1>1. /\ notes' = (notes \ {n}) \cup {m}
      /\ lastUse' = IF n.loc \in locations THEN [lastUse EXCEPT ![n.loc] = now] ELSE lastUse
      /\ UNCHANGED <<now, entries, locationId, updatedAt, locations, lastDownloadedAt,
                     save, overtaken>>
    BY DEF ReadClock, tables
<1>2. m.loc = n.loc /\ m.at = now /\ n.loc \in Save /\ now \in Nat /\ now >= 1
    BY DEF Typed, TypeOK, UseInv, NotesKnown
<1> HIDE DEF m
<1>3. \A l \in Save : lastUse'[l] = IF l = n.loc /\ l \in locations THEN now ELSE lastUse[l]
    BY <1>1, <1>2 DEF Typed, TypeOK
<1>4. \A k \in notes' : k \in notes \/ k = m
    BY <1>1
<1>5. NotesKnown'
    BY <1>1, <1>2, <1>3, <1>4 DEF UseInv, NotesKnown, Unwritten, Typed, TypeOK
<1>6. n.loc \in locations => UseNoted(n.loc)'
    BY <1>1, <1>2, <1>3 DEF UseNoted, Null
<1>7. ASSUME NEW l \in locations, l # n.loc, UseNoted(l)
      PROVE  UseNoted(l)'
    <2>1. lastUse'[l] = lastUse[l]
        BY <1>3, <1>7 DEF Typed, TypeOK
    <2>2. \A k : k.loc = l => (k \in notes' <=> k \in notes)
        BY <1>1, <1>2, <1>7
    <2>3. QED  BY <1>1, <1>7, <2>1, <2>2 DEF UseNoted
<1>8. QED  BY <1>1, <1>5, <1>6, <1>7 DEF UseInv

LEMMA NoteUse ==
    ASSUME Typed, UseInv, NEW n \in notes, UpdateStorageLastDownloaded(n)
    PROVE  UseInv'
<1>1. /\ n.at # Null /\ notes' = notes \ {n}
      /\ overtaken' = IF n.loc \in locations /\ n.at < lastDownloadedAt[n.loc]
                      THEN overtaken \cup {n.loc} ELSE overtaken
      /\ UNCHANGED <<now, entries, locationId, updatedAt, locations, save, lastUse>>
    BY DEF UpdateStorageLastDownloaded
<1>2. n.loc \in Save /\ n.at \in Nat /\ ~Unwritten(n.loc)
    BY DEF Typed, TypeOK, UseInv, NotesKnown
<1>3. \A l \in Save : lastDownloadedAt'[l] =
          IF l = n.loc /\ l \in locations THEN n.at ELSE lastDownloadedAt[l]
    BY <1>2 DEF UpdateStorageLastDownloaded, Typed, TypeOK
<1>4. NotesKnown'
    BY <1>1, <1>2, <1>3 DEF UseInv, NotesKnown, Unwritten
<1>5. ASSUME NEW l \in locations \ overtaken', l = n.loc
      PROVE  UseNoted(l)'
    <2>1. UseNoted(l) /\ n.at >= lastDownloadedAt[l] /\ n.at <= lastUse[l]
        BY <1>1, <1>2, <1>5 DEF UseInv, NotesKnown, Typed, TypeOK
    <2>2. lastDownloadedAt[l] \in Nat /\ lastUse[l] \in Nat /\ lastDownloadedAt'[l] = n.at
        BY <1>2, <1>3, <1>5 DEF Typed, TypeOK
    <2>3. CASE lastDownloadedAt[l] = lastUse[l]
        BY <1>1, <1>2, <2>1, <2>2, <2>3 DEF UseNoted
    <2>4. CASE lastDownloadedAt[l] # lastUse[l]
        <3>1. PICK k \in notes : k.loc = l /\ k.at # Null /\ k.at = lastUse[l]
            BY <1>1, <1>5, <2>1, <2>4 DEF UseNoted
        <3>2. CASE k = n
            BY <1>1, <2>2, <3>1, <3>2 DEF UseNoted
        <3>3. CASE k # n
            BY <1>1, <3>1, <3>3 DEF UseNoted
        <3>4. QED  BY <3>2, <3>3
    <2>5. QED  BY <2>3, <2>4
<1>6. ASSUME NEW l \in locations \ overtaken, l # n.loc
      PROVE  UseNoted(l)'
    <2>1. UseNoted(l)
        BY <1>6 DEF UseInv
    <2>2. lastDownloadedAt'[l] = lastDownloadedAt[l]
        BY <1>3, <1>6 DEF Typed, TypeOK
    <2>3. \A k : k.loc = l => (k \in notes' <=> k \in notes)
        BY <1>1, <1>6
    <2>4. QED  BY <1>1, <2>1, <2>2, <2>3 DEF UseNoted
<1>7. QED  BY <1>1, <1>4, <1>5, <1>6 DEF UseInv

LEMMA UseStep == Typed /\ OwnerInv /\ UseInv /\ [Next]_vars => UseInv'
<1> SUFFICES ASSUME Typed, OwnerInv, UseInv, [Next]_vars PROVE UseInv'
    OBVIOUS
<1>1. now \in Nat
    BY DEF Typed, TypeOK
<1>2. ASSUME UNCHANGED <<now, entries, locationId, updatedAt, locations, lastDownloadedAt,
                         save, notes, lastUse, overtaken>>
      PROVE  UseInv'
    BY <1>1, <1>2, UseKept
<1>3. CASE UNCHANGED vars
    BY <1>2, <1>3 DEF vars, tables, downloading, ghosts
<1>4. CASE Tick
    BY <1>1, <1>4, UseKept DEF Tick, tables, downloading, ghosts
<1>5. ASSUME NEW s \in Save, SaveStep(s) PROVE UseInv'
    <2>1. CASE DropOldLocation(s)
        <3>1. \A q \in Save : Unwritten(q)' = Unwritten(q)
            BY <2>1 DEF DropOldLocation, Done, NoSave, Unwritten, Typed, TypeOK
        <3>2. QED
            BY <2>1, <3>1, DeletionUse
            DEF DropOldLocation, DeleteStorageLocation, downloading
    <2>2. QED  BY <1>5, <2>1, BeginUse, WriteUse DEF SaveStep
<1>6. ASSUME NEW s \in Save, MergeEnds(s) \/ EndReading(s) PROVE UseInv'
    BY <1>2, <1>6 DEF MergeEnds, EndReading, tables, downloading, ghosts
<1>7. CASE BeginRun \/ JobStep \/ Deadline
    <2>1. CASE EvictEntry \/ EvictLocation
        <3>1. (\A q \in Save : Unwritten(q)' = Unwritten(q)) /\ UNCHANGED <<now, notes>>
            BY <2>1 DEF EvictEntry, EvictLocation, Unwritten, downloading
        <3>2. \E E, L : DeleteRows(E, L)
            BY <2>1
            DEF EvictEntry, EvictLocation, DeleteCacheEntry, DeleteStorageLocation
        <3>3. QED  BY <3>1, <3>2, DeletionUse
    <2>2. CASE ~(EvictEntry \/ EvictLocation)
        BY <1>2, <1>7, <2>2
        DEF BeginRun, JobStep, Deadline, ListPage, ListFails, SkipEntry, EvictLocationFails,
            EvictFolder, EvictFolderFails, Probe, ProbeFails, tables, downloading, ghosts
    <2>3. QED  BY <2>1, <2>2
<1>8. QED
    BY <1>3, <1>4, <1>5, <1>6, <1>7, DownloadUse, ReadClockUse, NoteUse DEF Next

(* Where the time of the last use of a location is to be found.             *)
THEOREM UsesAreNoted == Spec => []UseInv
BY UseStart, UseStep, AlwaysTyped, Owners, PTL DEF Spec

(* What a run lists to evict was last used no later than anything it could  *)
(* have listed and did not, where the notes of both are all in.             *)
THEOREM LeastRecentFirst == Spec => LeastRecentlyUsed
<1>1. ASSUME Typed, UseInv, NEW d \in Evictable, Noted(locationId[d])
      PROVE  UsedAt(d) = lastUse[locationId[d]]
    <2>1. d \in entries /\ UseNoted(locationId[d])
        BY <1>1 DEF Evictable, Noted, UseInv
    <2>2. QED  BY <1>1, <2>1 DEF UseNoted, Noted, UsedAt
<1>2. ASSUME Typed, UseInv, [Next]_vars
      PROVE  [\A e \in Evictable :
                 ListPage /\ job'.pc = "next" /\ Victim(e) \notin job'.todo =>
                     \A v \in job'.todo : Noted(v.loc) /\ Noted(locationId[e]) =>
                         lastUse[v.loc] <= lastUse[locationId[e]]]_vars
    <2> SUFFICES ASSUME NEW e \in Evictable, ListPage, job'.pc = "next",
                        Victim(e) \notin job'.todo, NEW v \in job'.todo,
                        Noted(v.loc), Noted(locationId[e])
                 PROVE  lastUse[v.loc] <= lastUse[locationId[e]]
        OBVIOUS
    <2>1. PICK S \in ListLRUCacheEntries :
              IF S = {} THEN Stop
              ELSE job' = [job EXCEPT !.pc = "next", !.todo = {Victim(x) : x \in S}]
        BY DEF ListPage
    <2>2. job'.todo = {Victim(x) : x \in S}
        <3>1. S # {}
            BY <2>1 DEF Stop, NoRun
        <3>2. job' = [job EXCEPT !.pc = "next", !.todo = {Victim(x) : x \in S}]
            BY <2>1, <3>1
        <3>3. QED  BY <1>2, <3>2 DEF Typed, TypeOK
    <2>3. PICK d \in S : v = Victim(d)
        BY <2>2
    <2>4. e \notin S
        BY <2>2
    <2>5. d \in Evictable /\ UsedAt(d) <= UsedAt(e)
        BY <2>4 DEF ListLRUCacheEntries
    <2>6. v.loc = locationId[d]
        BY <2>3 DEF Victim
    <2>7. QED  BY <1>1, <1>2, <2>5, <2>6
<1>3. Typed /\ UseInv /\ [Next]_vars =>
          [\A e \in Evictable :
              ListPage /\ job'.pc = "next" /\ Victim(e) \notin job'.todo =>
                  \A v \in job'.todo : Noted(v.loc) /\ Noted(locationId[e]) =>
                      lastUse[v.loc] <= lastUse[locationId[e]]]_vars
    BY <1>2
<1>4. QED  BY <1>3, AlwaysTyped, UsesAreNoted, PTL DEF Spec, LeastRecentlyUsed

-----------------------------------------------------------------------------
(* The tables of the cache, as Uploads keeps them: an eviction changes them *)
(* by deletes only, and meets saves between any two of their statements.   *)

leadsTo == [e \in entries |-> locationId[e]]

Table == INSTANCE CacheTable WITH Entry <- Save, Location <- Save

(* Most steps leave the tables alone. *)
LEMMA TableFrame ==
    UNCHANGED <<entries, locationId, locations>> => UNCHANGED Table!vars
BY DEF Table!vars, leadsTo

(* A save that begins adds its location. *)
LEMMA LocationAdded ==
    ASSUME NEW s \in Save, BeginSave(s)
    PROVE  Table!AddLocation(s)
BY DEF BeginSave, Table!AddLocation, leadsTo

(* Nobody leads to the location of a save that has yet to write its entry.  *)
LEMMA EntryAdded ==
    ASSUME Typed, OwnerInv, NEW s \in Save, InsertCacheEntry(s)
    PROVE  Table!AddEntry(s, s)
<1>1. /\ s \notin entries /\ s \in locations /\ locationId[s] = s
      /\ \A e \in entries : locationId[e] # s
    BY DEF InsertCacheEntry, OwnerInv, NewUnknown, GoneIsOwn, Unwritten
<1>2. entries' = entries \cup {s} /\ UNCHANGED <<locationId, locations>>
    BY DEF InsertCacheEntry
<1>3. leadsTo' = [d \in entries \cup {s} |-> IF d = s THEN s ELSE leadsTo[d]]
    BY <1>1, <1>2 DEF leadsTo
<1>4. DOMAIN leadsTo = entries
    BY DEF leadsTo
<1>5. Table!Free(s)
    BY <1>1, <1>4 DEF Table!Free, Table!Known, leadsTo
<1>6. QED  BY <1>1, <1>2, <1>3, <1>4, <1>5 DEF Table!AddEntry, Table!Known

(* Nor to that of one that moves an entry; if that was evicted, nothing changes.    *)
LEMMA EntryMoved ==
    ASSUME Typed, OwnerInv, NEW s \in Save, UpdateCacheEntryLocation(s)
    PROVE  Table!MoveEntry(save[s].old, s) \/ UNCHANGED Table!vars
<1> DEFINE e == save[s].old
<1>1. UNCHANGED <<entries, locations>>
    BY DEF UpdateCacheEntryLocation
<1>2. CASE e \notin entries
    BY <1>1, <1>2, TableFrame DEF UpdateCacheEntryLocation
<1>3. CASE e \in entries
    <2>1. s \in locations /\ \A d \in entries : locationId[d] # s
        BY DEF UpdateCacheEntryLocation, OwnerInv, NewUnknown, Unwritten
    <2>2. locationId' = [locationId EXCEPT ![e] = s]
        BY <1>3 DEF UpdateCacheEntryLocation
    <2>3. locationId \in [Save -> Save] /\ entries \subseteq Save
        BY DEF Typed, TypeOK
    <2>4. leadsTo' = [leadsTo EXCEPT ![e] = s] /\ DOMAIN leadsTo = entries
        BY <1>1, <2>2, <2>3 DEF leadsTo
    <2>5. Table!Free(s)
        BY <2>1, <2>4 DEF Table!Free, Table!Known, leadsTo
    <2>6. QED  BY <1>1, <1>3, <2>1, <2>4, <2>5 DEF Table!MoveEntry, Table!Known
<1>4. QED  BY <1>2, <1>3

(* Who deletes a location deletes what leads there. *)
LEMMA LocationDropped ==
    ASSUME Typed, NEW l \in Save, DeleteStorageLocation(l)
    PROVE  Table!DropLocation(l)
<1>1. /\ entries' = {e \in entries : locationId[e] # l}
      /\ \A e \in entries' : locationId'[e] = locationId[e]
      /\ locations' = locations \ {l}
    BY DEF DeleteStorageLocation, DeleteRows, Typed, TypeOK
<1>2. DOMAIN leadsTo = entries /\ \A e \in entries : leadsTo[e] = locationId[e]
    BY DEF leadsTo
<1>3. leadsTo' = [e \in {d \in entries : leadsTo[d] # l} |-> leadsTo[e]]
    BY <1>1, <1>2 DEF leadsTo
<1>4. QED  BY <1>1, <1>2, <1>3 DEF Table!DropLocation, Table!Known

(* Who deletes an entry leaves the others where they lead. *)
LEMMA EntryDropped ==
    ASSUME Typed, NEW e \in Save, DeleteCacheEntry(e)
    PROVE  Table!DropEntry(e)
<1>1. /\ entries' = entries \ {e} /\ UNCHANGED locations
      /\ \A d \in entries' : locationId'[d] = locationId[d]
    BY DEF DeleteCacheEntry, DeleteRows, Typed, TypeOK
<1>2. DOMAIN leadsTo = entries /\ \A d \in entries : leadsTo[d] = locationId[d]
    BY DEF leadsTo
<1>3. leadsTo' = [d \in entries \ {e} |-> leadsTo[d]]
    BY <1>1, <1>2 DEF leadsTo
<1>4. QED  BY <1>1, <1>2, <1>3 DEF Table!DropEntry, Table!Known

(* So every statement of a save or of the job is a step of the table, or none. *)
LEMMA TableStep ==
    Typed /\ OwnerInv /\ [Next]_vars => [Table!Next]_(Table!vars)
<1> SUFFICES ASSUME Typed, OwnerInv, [Next]_vars
             PROVE  Table!Next \/ UNCHANGED Table!vars
    OBVIOUS
<1>1. ASSUME NEW s \in Save, SaveStep(s) PROVE Table!Next \/ UNCHANGED Table!vars
    <2>1. save[s].old \in Save /\ save[s].oldLoc \in Save
        BY DEF Typed, TypeOK
    <2>2. CASE BeginSave(s)
        BY <2>2, LocationAdded DEF Table!Next
    <2>3. CASE InsertCacheEntry(s)
        BY <2>3, EntryAdded DEF Table!Next
    <2>4. CASE UpdateCacheEntryLocation(s)
        BY <2>1, <2>4, EntryMoved DEF Table!Next
    <2>5. CASE DropOldLocation(s)
        BY <2>1, <2>5, LocationDropped DEF DropOldLocation, Table!Next
    <2>6. QED  BY <1>1, <2>2, <2>3, <2>4, <2>5 DEF SaveStep
<1>2. CASE EvictEntry
    <2>1. PICK v \in job.todo : DeleteCacheEntry(v.entry)
        BY <1>2 DEF EvictEntry
    <2>2. v.entry \in Save
        BY DEF Typed, TypeOK, Victims
    <2>3. QED  BY <2>1, <2>2, EntryDropped DEF Table!Next
<1>3. CASE EvictLocation
    <2>1. PICK v \in job.victim : DeleteStorageLocation(v.loc)
        BY <1>3 DEF EvictLocation
    <2>2. v.loc \in Save
        BY DEF Typed, TypeOK, Victims
    <2>3. QED  BY <2>1, <2>2, LocationDropped DEF Table!Next
<1>4. ASSUME NEW s \in Save, Download(s) \/ MergeEnds(s) \/ EndReading(s)
      PROVE  UNCHANGED <<entries, locationId, locations>>
    BY <1>4 DEF Download, MergeEnds, EndReading, tables
<1>5. ASSUME NEW n \in notes, ReadClock(n) \/ UpdateStorageLastDownloaded(n)
      PROVE  UNCHANGED <<entries, locationId, locations>>
    BY <1>5 DEF ReadClock, UpdateStorageLastDownloaded, tables
<1>6. CASE Tick \/ BeginRun \/ Deadline \/ UNCHANGED vars
    <2>1. UNCHANGED <<entries, locationId, locations>>
        BY <1>6 DEF Tick, BeginRun, Deadline, vars, tables
    <2>2. QED  BY <2>1, TableFrame
<1>7. CASE ListPage \/ ListFails \/ SkipEntry \/ EvictLocationFails \/ EvictFolder
           \/ EvictFolderFails \/ Probe \/ ProbeFails
    <2>1. UNCHANGED <<entries, locationId, locations>>
        BY <1>7 DEF ListPage, ListFails, SkipEntry, EvictLocationFails, EvictFolder,
                    EvictFolderFails, Probe, ProbeFails, tables
    <2>2. QED  BY <2>1, TableFrame
<1>8. QED
    BY <1>1, <1>2, <1>3, <1>4, <1>5, <1>6, <1>7, TableFrame DEF Next, JobStep

(* Evictions implements CacheTable as Uploads does: the deletes of an       *)
(* eviction, in any order with the statements of the saves it meets, leave  *)
(* each entry a row of its own (cleanup_disk_pressure.go:43-59).           *)
THEOREM EvictionsKeepTheTable == Spec => Table!Spec
<1>1. Init => Table!Init
    BY DEF Init, Table!Init, leadsTo
<1>2. QED  BY <1>1, TableStep, AlwaysTyped, Owners, PTL DEF Spec, Table!Spec
=============================================================================

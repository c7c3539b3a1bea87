----------------------------- MODULE Evictions -----------------------------
(***************************************************************************)
(* cleanup:disk-pressure (internal/tasks/cleanup_disk_pressure.go): while   *)
(* the filesystem has too little room, entries go, the least recently used  *)
(* first, a batch at a time, until there is room again.  Meanwhile caches   *)
(* are saved, saved again and downloaded (internal/storage/service.go); a   *)
(* download notes when it took place in a goroutine of its own, and begins  *)
(* the merge of a location that was never downloaded.                      *)
(*                                                                         *)
(* A Save is one finalize of a key and stands for the location it inserts   *)
(* and, if it finds no entry of its key, for the entry.  A folder takes one *)
(* unit of disk, and keeps it while a download has files of it open.       *)
(***************************************************************************)
EXTENDS Integers, FiniteSets

CONSTANTS
    Key,            \* the caches that are saved
    Saves,          \* how often each of them is saved
    Capacity,       \* folders the disk has room for
    MinFree,        \* DISK_PRESSURE_MIN_FREE_BYTES
    TargetFree,     \* DISK_PRESSURE_TARGET_FREE_BYTES
    Batch,          \* diskPressureBatchSize
    MaxEvictions,   \* diskPressureMaxEvictions
    MaxTime,        \* bound on the clock
    MaxIncidents,   \* bound on downloads and failing removals of a folder,
                    \* taken together
    Faults          \* what may fail: "statement", "folder"

ASSUME SizeAssumption ==
    /\ Saves \in [Key -> Nat] /\ Capacity \in Nat /\ TargetFree \in Nat
    /\ MaxTime \in Nat /\ MaxIncidents \in Nat
ASSUME EnabledAssumption ==
    MinFree \in Nat \ {0} /\ Batch \in Nat \ {0} /\ MaxEvictions \in Nat \ {0}
ASSUME FaultsAssumption == Faults \subseteq {"statement", "folder"}

Save == UNION {{k} \X (1 .. Saves[k]) : k \in Key}
Time == 1 .. MaxTime
Null == 0

VARIABLES
    now,                \* the clock
    entries,            \* rows of cache_entries
    locationId,         \* cache_entries.locationId
    updatedAt,          \* cache_entries.updatedAt
    locations,          \* rows of storage_locations
    lastDownloadedAt,   \* storage_locations.lastDownloadedAt
    merging,            \* locations with a mergeStartedAt and no mergedAt
    folders,            \* folders on the disk
    save,               \* the finalize calls
    downloads,          \* downloads so far
    reading,            \* locations a download has files open of
    notes,              \* UpdateStorageLastDownloaded calls in flight
    job,                \* cleanup:disk-pressure and its local variables; ghost:
                        \* the evictions due since the run began
    lastUse,            \* ghost: when a location was last saved or downloaded,
                        \* by the clock its save or download read
    overtaken,          \* ghost: locations whose note was overwritten by an
                        \* older one
    leaked              \* ghost: folders whose removal failed

tables == <<entries, locationId, updatedAt, locations, lastDownloadedAt, merging>>
downloading == <<downloads, reading, notes>>
ghosts == <<lastUse, overtaken, leaked>>
vars == <<now, tables, folders, save, downloading, job, ghosts>>

-----------------------------------------------------------------------------
(* Helpers. *)

KeyOf(s) == s[1]

UsableFreeBytes == Capacity - Cardinality(folders \cup reading)

(* Faulty: the target is taken as it is. *)
TargetAsGiven == TargetFree

(* A target below the minimum is raised to it. *)
Target == IF TargetFree < MinFree THEN MinFree ELSE TargetFree

(* COALESCE(s.lastDownloadedAt, c.updatedAt) *)
UsedAt(e) == LET l == locationId[e] IN
    IF lastDownloadedAt[l] # Null THEN lastDownloadedAt[l] ELSE updatedAt[e]

Evictable == {e \in entries : locationId[e] \in locations /\ locationId[e] \notin merging}

FullPage(S) ==
    IF Cardinality(Evictable) <= Batch THEN S = Evictable ELSE Cardinality(S) = Batch

(* The pages ListLRUCacheEntries may return: ties go either way. *)
ListLRUCacheEntries == {S \in SUBSET Evictable :
    FullPage(S) /\ \A e \in S, d \in Evictable \ S : UsedAt(e) <= UsedAt(d)}

Victim(e) == [entry |-> e, loc |-> locationId[e], usedAt |-> UsedAt(e)]

(* Rows that are deleted go with their columns. *)
DeleteRows(E, L) ==
    /\ entries' = entries \ E
    /\ locationId' = [e \in Save |-> IF e \in E THEN e ELSE locationId[e]]
    /\ updatedAt' = [e \in Save |-> IF e \in E THEN Null ELSE updatedAt[e]]
    /\ locations' = locations \ L
    /\ lastDownloadedAt' = [l \in Save |-> IF l \in L THEN Null ELSE lastDownloadedAt[l]]
    /\ merging' = merging \ L
    /\ lastUse' = [l \in Save |-> IF l \in L THEN Null ELSE lastUse[l]]
    /\ overtaken' = overtaken \ L
    /\ UNCHANGED leaked

DeleteCacheEntry(e) == DeleteRows({e}, {})

(* ON DELETE CASCADE *)
DeleteStorageLocation(l) == DeleteRows({e \in entries : locationId[e] = l}, {l})

MoreMayHappen == downloads + Cardinality(leaked) < MaxIncidents

NoSave(s) == [pc |-> "idle", old |-> s, oldLoc |-> s, at |-> Null]
Done(s) == [NoSave(s) EXCEPT !.pc = "done"]
NoRun == [pc |-> "idle", todo |-> {}, victim |-> {}, evicted |-> 0, late |-> FALSE,
          due |-> 0]

-----------------------------------------------------------------------------
Init ==
    /\ now = 1
    /\ entries = {} /\ locations = {} /\ folders = {}
    /\ locationId = [s \in Save |-> s]
    /\ updatedAt = [s \in Save |-> Null]
    /\ lastDownloadedAt = [s \in Save |-> Null]
    /\ merging = {}
    /\ save = [s \in Save |-> NoSave(s)]
    /\ downloads = 0 /\ reading = {} /\ notes = {}
    /\ job = NoRun
    /\ lastUse = [s \in Save |-> Null]
    /\ overtaken = {} /\ leaked = {}

Tick ==
    /\ now < MaxTime
    /\ now' = now + 1
    /\ UNCHANGED <<tables, folders, save, downloading, job, ghosts>>

-----------------------------------------------------------------------------
(* CompleteUpload: the folder and the row of the location are there, the    *)
(* lookup has found the entry of the key or none, and the clock was read.   *)
(* Another save of the key begins when this one is done.                   *)
BeginSave(s) ==
    LET existing == {e \in entries : KeyOf(e) = KeyOf(s) /\ locationId[e] \in locations}
        old == IF existing = {} THEN s ELSE CHOOSE e \in existing : TRUE
    IN
    /\ save[s].pc = "idle" /\ UsableFreeBytes > 0
    /\ s[2] > 1 => save[<<s[1], s[2] - 1>>].pc = "done"
    /\ save' = [save EXCEPT ![s] =
           [pc |-> "write", old |-> old, oldLoc |-> locationId[old], at |-> now]]
    /\ locations' = locations \cup {s}
    /\ folders' = folders \cup {s}
    /\ job' = IF job = NoRun THEN job ELSE [job EXCEPT !.due = @ + 1]
    /\ UNCHANGED <<now, entries, locationId, updatedAt, lastDownloadedAt, merging,
                   downloading, ghosts>>

InsertCacheEntry(s) ==
    /\ save[s].pc = "write" /\ save[s].old = s
    /\ save' = [save EXCEPT ![s] = Done(s)]
    /\ entries' = entries \cup {s}
    /\ updatedAt' = [updatedAt EXCEPT ![s] = save[s].at]
    /\ lastUse' = [lastUse EXCEPT ![s] = save[s].at]
    /\ UNCHANGED <<now, locationId, locations, lastDownloadedAt, merging, folders,
                   downloading, job, overtaken, leaked>>

(* Faulty: the time of the update is not kept. *)
MoveWithoutTime(s) ==
    LET e == save[s].old IN
    /\ save[s].pc = "write" /\ e # s
    /\ save' = [save EXCEPT ![s].pc = "drop"]
    /\ locationId' = IF e \in entries THEN [locationId EXCEPT ![e] = s] ELSE locationId
    /\ lastUse' = [lastUse EXCEPT ![s] = save[s].at]
    /\ UNCHANGED <<now, entries, updatedAt, locations, lastDownloadedAt, merging, folders,
                   downloading, job, overtaken, leaked>>

(* An UPDATE that finds no row, because the entry was evicted, is no error. *)
UpdateCacheEntryLocation(s) ==
    LET e == save[s].old IN
    /\ save[s].pc = "write" /\ e # s
    /\ save' = [save EXCEPT ![s].pc = "drop"]
    /\ IF e \in entries
       THEN /\ locationId' = [locationId EXCEPT ![e] = s]
            /\ updatedAt' = [updatedAt EXCEPT ![e] = save[s].at]
       ELSE UNCHANGED <<locationId, updatedAt>>
    /\ lastUse' = [lastUse EXCEPT ![s] = save[s].at]
    /\ UNCHANGED <<now, entries, locations, lastDownloadedAt, merging, folders,
                   downloading, job, overtaken, leaked>>

(* The row and the folder of the old location, one after the other; Uploads *)
(* has them in two steps.                                                  *)
DropOldLocation(s) ==
    /\ save[s].pc = "drop"
    /\ save' = [save EXCEPT ![s] = Done(s)]
    /\ DeleteStorageLocation(save[s].oldLoc)
    /\ folders' = folders \ {save[s].oldLoc}
    /\ UNCHANGED <<now, downloading, job>>

-----------------------------------------------------------------------------
(* Download and OpenMergedSeekable, from the entry to the open file.  If    *)
(* the location was merged already, or is being, no merge begins.          *)
Download(e) ==
    LET l == locationId[e] IN
    /\ e \in entries /\ l \in locations
    /\ MoreMayHappen /\ downloads' = downloads + 1
    /\ notes' = notes \cup {[id |-> downloads', loc |-> l, at |-> Null]}
    /\ reading' = IF l \in folders THEN reading \cup {l} ELSE reading
    /\ merging' \in {merging, IF l \in folders THEN merging \cup {l} ELSE merging}
    /\ UNCHANGED <<now, entries, locationId, updatedAt, locations, lastDownloadedAt,
                   folders, save, job, ghosts>>

(* The goroutine of a download reads the clock, and writes the time it read *)
(* some time later, whatever is there by then.                             *)
ReadClock(n) ==
    /\ n.at = Null
    /\ notes' = (notes \ {n}) \cup {[n EXCEPT !.at = now]}
    /\ lastUse' = IF n.loc \in locations THEN [lastUse EXCEPT ![n.loc] = now] ELSE lastUse
    /\ UNCHANGED <<now, tables, folders, save, downloads, reading, job, overtaken, leaked>>

UpdateStorageLastDownloaded(n) ==
    /\ n.at # Null
    /\ notes' = notes \ {n}
    /\ lastDownloadedAt' = IF n.loc \in locations
           THEN [lastDownloadedAt EXCEPT ![n.loc] = n.at] ELSE lastDownloadedAt
    /\ overtaken' = IF n.loc \in locations /\ n.at < lastDownloadedAt[n.loc]
                    THEN overtaken \cup {n.loc} ELSE overtaken
    /\ UNCHANGED <<now, entries, locationId, updatedAt, locations, merging, folders,
                   save, downloads, reading, job, lastUse, leaked>>

(* UpdateStorageMerged, or ResetStorageMerge when the merge has failed. *)
MergeEnds(l) ==
    /\ l \in merging
    /\ merging' = merging \ {l}
    /\ UNCHANGED <<now, entries, locationId, updatedAt, locations, lastDownloadedAt,
                   folders, save, downloading, job, ghosts>>

EndReading(l) ==
    /\ l \in reading
    /\ reading' = reading \ {l}
    /\ UNCHANGED <<now, tables, folders, save, downloads, notes, job, ghosts>>

-----------------------------------------------------------------------------
(* The job: a probe of the disk, then pages of victims until the target is  *)
(* reached, nothing is left to evict, or the run has evicted its share.    *)

Goto(pc) == job' = [job EXCEPT !.pc = pc]
Stop == job' = NoRun

BeginRun ==
    /\ job.pc = "idle" /\ UsableFreeBytes < MinFree
    /\ job' = [job EXCEPT !.pc = "list", !.due = Target - UsableFreeBytes]
    /\ UNCHANGED <<now, tables, folders, save, downloading, ghosts>>

ListPage ==
    /\ job.pc = "list" /\ ~job.late
    /\ \E S \in ListLRUCacheEntries :
          IF S = {} THEN Stop
          ELSE job' = [job EXCEPT !.pc = "next", !.todo = {Victim(e) : e \in S}]
    /\ UNCHANGED <<now, tables, folders, save, downloading, ghosts>>

(* A query that fails, or the deadline, ends the run. *)
ListFails ==
    /\ job.pc = "list" /\ (job.late \/ "statement" \in Faults)
    /\ Stop
    /\ UNCHANGED <<now, tables, folders, save, downloading, ghosts>>

Foremost(v) == v \in job.todo /\ \A w \in job.todo : v.usedAt <= w.usedAt

(* DeleteCacheEntry, by the id that was listed. *)
EvictEntry ==
    /\ job.pc = "next" /\ ~job.late
    /\ \E v \in job.todo :
          /\ Foremost(v)
          /\ job' = [job EXCEPT !.pc = "location", !.todo = @ \ {v}, !.victim = {v}]
          /\ DeleteCacheEntry(v.entry)
    /\ UNCHANGED <<now, folders, save, downloading>>

(* Faulty: the error is logged and the folder goes all the same. *)
SkipNothing ==
    /\ job.pc = "next" /\ (job.late \/ "statement" \in Faults)
    /\ \E v \in job.todo :
          /\ Foremost(v)
          /\ job' = [job EXCEPT !.pc = "folder", !.todo = @ \ {v}, !.victim = {v}]
    /\ UNCHANGED <<now, tables, folders, save, downloading, ghosts>>

(* The error skips the entry, uncounted. *)
SkipEntry ==
    /\ job.pc = "next" /\ (job.late \/ "statement" \in Faults)
    /\ \E v \in job.todo : Foremost(v) /\ job' = [job EXCEPT !.todo = @ \ {v}]
    /\ UNCHANGED <<now, tables, folders, save, downloading, ghosts>>

EvictLocation ==
    /\ job.pc = "location" /\ ~job.late
    /\ Goto("folder")
    /\ \E v \in job.victim : DeleteStorageLocation(v.loc)
    /\ UNCHANGED <<now, folders, save, downloading>>

(* The error is logged, the folder goes all the same: the row is left to    *)
(* cleanup:storage-locations.                                              *)
EvictLocationFails ==
    /\ job.pc = "location" /\ (job.late \/ "statement" \in Faults)
    /\ Goto("folder")
    /\ UNCHANGED <<now, tables, folders, save, downloading, ghosts>>

(* The victim is dealt with; another is due if that gave no room back. *)
Evicted(another) ==
    job' = [job EXCEPT !.pc = "next", !.victim = {}, !.evicted = @ + 1, !.due = @ + another]

(* Faulty: a run past its deadline returns here. *)
EvictFolderInTime ==
    /\ job.pc = "folder"
    /\ \E v \in job.victim :
          IF job.late THEN Stop /\ UNCHANGED folders
          ELSE Evicted(0) /\ folders' = folders \ {v.loc}
    /\ UNCHANGED <<now, tables, save, downloading, ghosts>>

(* os.RemoveAll looks at no context: it works past the deadline, too.       *)
EvictFolder ==
    /\ job.pc = "folder"
    /\ \E v \in job.victim :
          /\ folders' = folders \ {v.loc}
          /\ Evicted(IF v.loc \in folders \ reading THEN 0 ELSE 1)
    /\ UNCHANGED <<now, tables, save, downloading, ghosts>>

EvictFolderFails ==
    /\ job.pc = "folder" /\ "folder" \in Faults /\ MoreMayHappen
    /\ Evicted(1)
    /\ leaked' = leaked \cup {v.loc : v \in job.victim}
    /\ UNCHANGED <<now, tables, folders, save, downloading, lastUse, overtaken>>

(* Faulty: the room at the end of a page has to exceed the target. *)
ProbeBeyond ==
    /\ job.pc = "next" /\ job.todo = {}
    /\ IF UsableFreeBytes > Target \/ job.evicted >= MaxEvictions
       THEN Stop ELSE Goto("list")
    /\ UNCHANGED <<now, tables, folders, save, downloading, ghosts>>

(* The end of a page: look at the disk, and at the cap. *)
Probe ==
    /\ job.pc = "next" /\ job.todo = {}
    /\ IF UsableFreeBytes >= Target \/ job.evicted >= MaxEvictions
       THEN Stop ELSE Goto("list")
    /\ UNCHANGED <<now, tables, folders, save, downloading, ghosts>>

ProbeFails ==
    /\ job.pc = "next" /\ job.todo = {} /\ "folder" \in Faults
    /\ Stop
    /\ UNCHANGED <<now, tables, folders, save, downloading, ghosts>>

(* Faulty: the job runs under the context of the process. *)
NoDeadline == FALSE /\ UNCHANGED vars

(* The thirty minutes a run has (cron.go:52) are over: from now on every    *)
(* statement fails.                                                        *)
Deadline ==
    /\ job.pc # "idle" /\ ~job.late
    /\ job' = [job EXCEPT !.late = TRUE]
    /\ UNCHANGED <<now, tables, folders, save, downloading, ghosts>>

-----------------------------------------------------------------------------
SaveStep(s) ==
    \/ BeginSave(s) \/ InsertCacheEntry(s) \/ UpdateCacheEntryLocation(s)
    \/ DropOldLocation(s)

JobStep ==
    \/ ListPage \/ ListFails \/ EvictEntry \/ SkipEntry
    \/ EvictLocation \/ EvictLocationFails \/ EvictFolder \/ EvictFolderFails
    \/ Probe \/ ProbeFails

Next ==
    \/ Tick
    \/ \E s \in Save : SaveStep(s) \/ Download(s) \/ MergeEnds(s) \/ EndReading(s)
    \/ \E n \in notes : ReadClock(n) \/ UpdateStorageLastDownloaded(n)
    \/ BeginRun \/ JobStep \/ Deadline

Spec == Init /\ [][Next]_vars

(* A run goes on, and its deadline comes. *)
FairSpec == Spec /\ WF_vars(JobStep) /\ WF_vars(Deadline)

-----------------------------------------------------------------------------
(* Properties. *)

Victims == [entry : Save, loc : Save, usedAt : Nat]

(* Type correctness of the tables, the disk, the calls and the job. *)
TypeOK ==
    /\ now \in Nat
    /\ entries \subseteq Save /\ locations \subseteq Save /\ folders \subseteq Save
    /\ locationId \in [Save -> Save]
    /\ updatedAt \in [Save -> Nat] /\ lastDownloadedAt \in [Save -> Nat]
    /\ merging \subseteq Save
    /\ save \in [Save -> [pc : {"idle", "write", "drop", "done"},
                           old : Save, oldLoc : Save, at : Nat]]
    /\ downloads \in Nat /\ reading \subseteq Save
    /\ notes \subseteq [id : Nat, loc : Save, at : Nat]
    /\ job \in [pc : {"idle", "list", "next", "location", "folder"},
                todo : SUBSET Victims, victim : SUBSET Victims, evicted : Nat,
                late : BOOLEAN, due : Nat]
    /\ lastUse \in [Save -> Nat] /\ overtaken \subseteq Save /\ leaked \subseteq Save

(* The last download of l has been noted, and no older one after it. *)
Noted(l) == l \notin overtaken /\ \A n \in notes : n.loc # l

(* What a run lists to evict was saved or downloaded no later than anything *)
(* it could have listed and did not (docs/how-it-works.md:26), although the *)
(* times are noted by goroutines and a save in between gives an entry a     *)
(* location without one.                                                   *)
LeastRecentlyUsed ==
    [][\A e \in Evictable :
          ListPage /\ job'.pc = "next" /\ Victim(e) \notin job'.todo =>
              \A v \in job'.todo : Noted(v.loc) /\ Noted(locationId[e]) =>
                  lastUse[v.loc] <= lastUse[locationId[e]]]_vars

(* Whichever statement of an eviction or of a save in between fails, an     *)
(* entry that is still there has the row and the folder of its location:    *)
(* a victim whose DELETE failed is left alone                              *)
(* (cleanup_disk_pressure.go:47-50).                                       *)
ServedHasFolder == \A e \in entries : locationId[e] \in locations \cap folders

(* No folder is left that no row leads to, even when the deadline falls     *)
(* between the statements of an eviction or the entry moved meanwhile, but  *)
(* for one whose own removal failed: no job would ever find it.            *)
FoldersOwned == \A l \in folders :
    \/ l \in locations \cup leaked
    \/ \E v \in job.victim : v.loc = l

(* A run evicts no more than what was due - one for each folder the disk    *)
(* lacked of the target, was given meanwhile, or kept although it was       *)
(* evicted - and a batch less one beyond it; nor more than its share and a  *)
(* batch less one (cleanup_disk_pressure.go:36,61).                         *)
EvictionsBounded ==
    job.pc # "idle" =>
        /\ job.evicted <= job.due + Batch - 1
        /\ job.evicted <= MaxEvictions + Batch - 1

(* A run ends, even when every DELETE of an entry fails and the same page   *)
(* is listed again and again.                                              *)
RunEnds == job.pc # "idle" ~> job.pc = "idle"
=============================================================================

------------------------------- MODULE Uploads -------------------------------
(***************************************************************************)
(* The save path of the cache server: CreateCacheEntry, the block PUTs and *)
(* FinalizeCacheEntryUpload (internal/storage/service.go), the rows they   *)
(* keep (internal/db/queries.go), the part files they write                *)
(* (internal/storage/filesystem.go, s3.go, gcs.go) and the background jobs *)
(* that remove rows and folders under their feet (internal/tasks).         *)
(*                                                                         *)
(* Every SQL statement and every adapter call is a step of its own: the    *)
(* code opens no transaction (service.go:128-131), so any two requests may *)
(* interleave between any two statements.                                  *)
(*                                                                         *)
(* A Session is one client saving one cache: its CreateUpload request      *)
(* draws the upload id, which is also the folder name.  A Put is one       *)
(* attempt at sending one part, a Fin one attempt at finalizing.  The      *)
(* storage location and the cache entry a finalize inserts get fresh       *)
(* UUIDs; the request itself stands for both.                              *)
(***************************************************************************)
EXTENDS Integers, FiniteSets

CONSTANTS
    Session,    \* clients saving a cache, one upload each
    Key,        \* the (key, version, scope, repository) quadruples
    KeyOf,      \* the quadruple each session saves under
    NumParts,   \* parts per upload
    PutTries,   \* attempts a client makes at one part
    FinTries,   \* attempts a client makes at the finalize call
    PageSize,   \* rows a job lists at a time (10 in tasks.go)
    AtomicPut,  \* object store: an object appears whole (s3.go, gcs.go)
    Aborts,     \* what may go wrong halfway: "request", "job", "statement"
    Jobs        \* background work: "uploads", "orphans", "expiry", "admin"

LocJob == {"orphans", "expiry"}

ASSUME SessionAssumption == IsFiniteSet(Session) /\ KeyOf \in [Session -> Key]
ASSUME PartsAssumption == NumParts \in Nat \ {0}
ASSUME PageAssumption == PageSize \in Nat \ {0}
ASSUME TriesAssumption == PutTries \in Nat \ {0} /\ FinTries \in Nat \ {0}
ASSUME SwitchAssumption ==
    /\ AtomicPut \in BOOLEAN
    /\ Aborts \subseteq {"request", "job", "statement"}
    /\ Jobs \subseteq LocJob \cup {"uploads", "admin"}

Index == 0 .. NumParts - 1
Put == Session \X Index \X (1 .. PutTries)
Fin == Session \X (1 .. FinTries)

VARIABLES
    uploads,    \* rows of table uploads
    started,    \* startedPartUploadCount of each upload
    finished,   \* finishedPartUploadCount of each upload
    fresh,      \* uploads created or written to within the last minute
    locations,  \* rows of table storage_locations
    entries,    \* rows of table cache_entries
    locationId, \* cache_entries.locationId
    stored,     \* parts present in <folder>/parts
    whole,      \* parts present with their full content
    linked,     \* puts whose open file is the newest one at its path
    create,     \* the CreateUpload requests
    put,        \* the UploadPart requests
    fin,        \* the CompleteUpload requests and their local variables
    upSweep,    \* cleanup:uploads: the page it lists next, the rows it has
                \* listed, the folder it drops next
    locSweep,   \* the same for the two jobs that remove locations
    swept,      \* ghost: folders deleted by cleanup:uploads, or although
                \* the location they were deleted for still has its row
    lost        \* ghost: keys a job or the management API took an entry of

rows == <<uploads, started, finished, fresh>>
cache == <<locations, entries, locationId>>
files == <<stored, whole, linked>>
ghosts == <<swept, lost>>
sweeps == <<upSweep, locSweep, ghosts>>
vars == <<rows, cache, files, create, put, fin, sweeps>>

-----------------------------------------------------------------------------
(* The parts of a request. *)

Owner(p) == p[1]
PartFromOne(p) == p[2] + 1        \* faulty: parts numbered from 1
Part(p) == p[2]
KeyOfFin(f) == KeyOf[f[1]]

(* A location row copies folderName and partCount from the finalize that   *)
(* inserts it, and no statement updates them.                              *)
Folder(l) == fin[l].up
PartCount(l) == fin[l].parts

Attempts(c, i) == {p \in Put : Owner(p) = c /\ Part(p) = i}

(* Every part of c has been answered with 201 to one of its attempts. *)
PartsAcked(c) == \A i \in Index : \E p \in Attempts(c, i) : put[p] = "done"

PutPCs == {"idle", "found", "started", "writing", "written", "done",
           "aborted", "lost"}
FinPCs == {"idle", "none", "reject", "rejected", "count", "insertLoc",
           "lookup", "insert", "update", "dropLoc", "dropFolder", "close",
           "ok", "failed"}
FinEnds == {"idle", "none", "rejected", "ok", "failed"}

Sweep(S) == [page : Nat, todo : SUBSET S, drop : SUBSET S]
Idle == [page |-> 0, todo |-> {}, drop |-> {}]

-----------------------------------------------------------------------------
(* The statements of queries.go and the calls of the storage adapter. *)

FindUploadByKey(k) == {u \in uploads : KeyOf[u] = k}

FindExistingCacheEntryWithLocation(k) ==
    {e \in entries : KeyOfFin(e) = k /\ locationId[e] \in locations}

Orphaned(l) == \A e \in entries : locationId[e] # l

(* Faulty: the foreign key is not there, as in MySQL before 9.0, which      *)
(* parses an inline REFERENCES and ignores it.                             *)
DeleteLocationAlone(l) ==
    /\ locations' = locations \ {l}
    /\ UNCHANGED <<entries, locationId>>

(* DELETE FROM storage_locations, with the ON DELETE CASCADE of the         *)
(* foreign key of cache_entries (migrations.go:111).                       *)
DeleteStorageLocation(l) ==
    /\ locations' = locations \ {l}
    /\ entries' = {e \in entries : locationId[e] # l}
    /\ UNCHANGED locationId

(* Faulty: a prefix without its closing slash matches every folder. *)
DeletePrefix(c) ==
    /\ stored' = [d \in Session |-> {}]
    /\ whole' = [d \in Session |-> {}]
    /\ linked' = {}

(* Adapter.DeleteFolder: what was open stays open, but no longer at a path. *)
DeleteFolder(c) ==
    /\ stored' = [stored EXCEPT ![c] = {}]
    /\ whole' = [whole EXCEPT ![c] = {}]
    /\ linked' = {p \in linked : Owner(p) # c}

CountFilesInFolder(c) == Cardinality(stored[c])

-----------------------------------------------------------------------------
Init ==
    /\ uploads = {} /\ fresh = {}
    /\ started = [c \in Session |-> 0]
    /\ finished = [c \in Session |-> 0]
    /\ locations = {} /\ entries = {}
    /\ locationId = [e \in Fin |-> e]
    /\ stored = [c \in Session |-> {}]
    /\ whole = [c \in Session |-> {}]
    /\ linked = {}
    /\ create = [c \in Session |-> "idle"]
    /\ put = [p \in Put |-> "idle"]
    /\ fin = [f \in Fin |-> [pc |-> "idle", up |-> f[1], parts |-> 0,
                             old |-> f, oldLoc |-> f]]
    /\ upSweep = Idle
    /\ locSweep = [j \in LocJob |-> Idle]
    /\ swept = {} /\ lost = {}

-----------------------------------------------------------------------------
(* CreateUpload: look for an upload of the same key, then insert a row.     *)

CheckUpload(c) ==
    /\ create[c] = "idle"
    /\ create' = [create EXCEPT ![c] =
           IF FindUploadByKey(KeyOf[c]) = {} THEN "checked" ELSE "busy"]
    /\ UNCHANGED <<rows, cache, files, put, fin, sweeps>>

InsertUpload(c) ==
    /\ create[c] = "checked"
    /\ create' = [create EXCEPT ![c] = "ok"]
    /\ uploads' = uploads \cup {c}
    /\ fresh' = fresh \cup {c}
    /\ UNCHANGED <<started, finished, cache, files, put, fin, sweeps>>

AbortCreate(c) ==
    /\ "request" \in Aborts
    /\ create[c] = "checked"
    /\ create' = [create EXCEPT ![c] = "failed"]
    /\ UNCHANGED <<rows, cache, files, put, fin, sweeps>>

-----------------------------------------------------------------------------
(* UploadPart: count the part as started, stream it to <folder>/parts/<i>,  *)
(* count it as finished.  A client sends the parts of an upload it was      *)
(* given, and sends a part again once an earlier attempt is under way.     *)

FindUploadByID(p) ==
    /\ put[p] = "idle" /\ create[Owner(p)] = "ok"
    /\ p[3] > 1 => put[<<Owner(p), Part(p), p[3] - 1>>] # "idle"
    /\ put' = [put EXCEPT ![p] =
           IF Owner(p) \in uploads THEN "found" ELSE "done"]
    /\ UNCHANGED <<rows, cache, files, create, fin, sweeps>>

IncStartedPartCount(p) ==
    /\ put[p] = "found"
    /\ put' = [put EXCEPT ![p] = "started"]
    /\ started' = IF Owner(p) \in uploads
                  THEN [started EXCEPT ![Owner(p)] = @ + 1] ELSE started
    /\ UNCHANGED <<uploads, finished, fresh, cache, files, create, fin, sweeps>>

(* os.Create truncates the file at the path, whoever wrote it; an object    *)
(* store buffers the body and shows nothing yet.                           *)
OpenPart(p) ==
    LET c == Owner(p)  i == Part(p) IN
    /\ put[p] = "started"
    /\ put' = [put EXCEPT ![p] = "writing"]
    /\ IF AtomicPut
       THEN UNCHANGED files
       ELSE /\ stored' = [stored EXCEPT ![c] = @ \cup {i}]
            /\ whole' = [whole EXCEPT ![c] = @ \ {i}]
            /\ linked' = (linked \ Attempts(c, i)) \cup {p}
    /\ UNCHANGED <<rows, cache, create, fin, sweeps>>

(* The end of the body.  The file is whole if the put that truncated it     *)
(* last got to its end: attempts write the same bytes from offset 0.       *)
WritePart(p) ==
    LET c == Owner(p)  i == Part(p)  here == AtomicPut \/ p \in linked IN
    /\ put[p] = "writing"
    /\ put' = [put EXCEPT ![p] = "written"]
    /\ stored' = IF AtomicPut THEN [stored EXCEPT ![c] = @ \cup {i}] ELSE stored
    /\ whole' = IF here THEN [whole EXCEPT ![c] = @ \cup {i}] ELSE whole
    /\ UNCHANGED <<rows, cache, linked, create, fin, sweeps>>

IncFinishedPartCount(p) ==
    LET c == Owner(p) IN
    /\ put[p] = "written"
    /\ put' = [put EXCEPT ![p] = "done"]
    /\ IF c \in uploads
       THEN /\ finished' = [finished EXCEPT ![c] = @ + 1]
            /\ fresh' = fresh \cup {c}
       ELSE UNCHANGED <<finished, fresh>>
    /\ UNCHANGED <<uploads, started, cache, files, create, fin, sweeps>>

(* The request ends early: the client went away, the disk or the database   *)
(* returned an error, the process died.  What it did so far stays done.    *)
AbortPut(p) ==
    /\ "request" \in Aborts
    /\ put[p] \in {"found", "started", "writing", "written"}
    /\ put' = [put EXCEPT ![p] = IF @ = "found" THEN "aborted" ELSE "lost"]
    /\ UNCHANGED <<rows, cache, files, create, fin, sweeps>>

-----------------------------------------------------------------------------
(* CompleteUpload.  A client finalizes when every part has been answered,   *)
(* and calls again if it has no answer to an earlier call.                 *)

Advance(f, pc) == fin' = [fin EXCEPT ![f].pc = pc]

CheckCounts(u) == finished[u] # 0 /\ started[u] = finished[u]

FindUpload(f) ==
    LET found == FindUploadByKey(KeyOfFin(f)) IN
    /\ fin[f].pc = "idle" /\ create[f[1]] = "ok" /\ PartsAcked(f[1])
    /\ f[2] > 1 => fin[<<f[1], f[2] - 1>>].pc # "idle"
    /\ \/ found = {} /\ Advance(f, "none")
       \/ \E u \in found :
             fin' = [fin EXCEPT ![f] =
                 [@ EXCEPT !.pc = IF CheckCounts(u) THEN "count" ELSE "reject",
                           !.up = u, !.parts = finished[u]]]
    /\ UNCHANGED <<rows, cache, files, create, put, sweeps>>

CountParts(f) ==
    /\ fin[f].pc = "count"
    /\ Advance(f, IF CountFilesInFolder(fin[f].up) = fin[f].parts
                  THEN "insertLoc" ELSE "reject")
    /\ UNCHANGED <<rows, cache, files, create, put, sweeps>>

(* A rejected upload loses its row; its folder stays. *)
RejectUpload(f) ==
    /\ fin[f].pc = "reject"
    /\ Advance(f, "rejected")
    /\ uploads' = uploads \ {fin[f].up}
    /\ UNCHANGED <<started, finished, fresh, cache, files, create, put, sweeps>>

InsertStorageLocation(f) ==
    /\ fin[f].pc = "insertLoc"
    /\ Advance(f, "lookup")
    /\ locations' = locations \cup {f}
    /\ UNCHANGED <<rows, entries, locationId, files, create, put, sweeps>>

(* Faulty: the old location is deleted before the entry has left it. *)
FindExistingDropFirst(f) ==
    LET found == FindExistingCacheEntryWithLocation(KeyOfFin(f)) IN
    /\ fin[f].pc = "lookup"
    /\ \/ found = {} /\ Advance(f, "insert")
       \/ \E e \in found :
             fin' = [fin EXCEPT ![f] =
                 [@ EXCEPT !.pc = "dropLoc", !.old = e, !.oldLoc = locationId[e]]]
    /\ UNCHANGED <<rows, cache, files, create, put, sweeps>>

FindExisting(f) ==
    LET found == FindExistingCacheEntryWithLocation(KeyOfFin(f)) IN
    /\ fin[f].pc = "lookup"
    /\ \/ found = {} /\ Advance(f, "insert")
       \/ \E e \in found :
             fin' = [fin EXCEPT ![f] =
                 [@ EXCEPT !.pc = "update", !.old = e, !.oldLoc = locationId[e]]]
    /\ UNCHANGED <<rows, cache, files, create, put, sweeps>>

(* The foreign key refuses a locationId without a row. *)
InsertCacheEntry(f) ==
    /\ fin[f].pc = "insert"
    /\ IF f \in locations
       THEN /\ Advance(f, "close")
            /\ entries' = entries \cup {f}
            /\ locationId' = [locationId EXCEPT ![f] = f]
       ELSE Advance(f, "failed") /\ UNCHANGED <<entries, locationId>>
    /\ UNCHANGED <<rows, locations, files, create, put, sweeps>>

(* An UPDATE that finds no row is no error. *)
UpdateCacheEntryLocation(f) ==
    LET e == fin[f].old IN
    /\ fin[f].pc = "update"
    /\ \/ e \notin entries /\ Advance(f, "dropLoc") /\ UNCHANGED locationId
       \/ /\ e \in entries /\ f \in locations
          /\ Advance(f, "dropLoc")
          /\ locationId' = [locationId EXCEPT ![e] = f]
       \/ /\ e \in entries /\ f \notin locations
          /\ Advance(f, "failed") /\ UNCHANGED locationId
    /\ UNCHANGED <<rows, locations, entries, files, create, put, sweeps>>

(* Faulty: deletes locID where existingLoc.ID is meant. *)
DropOwnLocation(f) ==
    /\ fin[f].pc = "dropLoc"
    /\ Advance(f, "dropFolder")
    /\ DeleteStorageLocation(f)
    /\ UNCHANGED <<rows, files, create, put, sweeps>>

DropOldLocation(f) ==
    /\ fin[f].pc = "dropLoc"
    /\ Advance(f, "dropFolder")
    /\ DeleteStorageLocation(fin[f].oldLoc)
    /\ UNCHANGED <<rows, files, create, put, sweeps>>

DropOldFolder(f) ==
    /\ fin[f].pc = "dropFolder"
    /\ Advance(f, "close")
    /\ DeleteFolder(Folder(fin[f].oldLoc))
    /\ UNCHANGED <<rows, cache, create, put, sweeps>>

DeleteUpload(f) ==
    /\ fin[f].pc = "close"
    /\ Advance(f, "ok")
    /\ uploads' = uploads \ {fin[f].up}
    /\ UNCHANGED <<started, finished, fresh, cache, files, create, put, sweeps>>

AbortFin(f) ==
    /\ "request" \in Aborts
    /\ fin[f].pc \notin FinEnds
    /\ Advance(f, "failed")
    /\ UNCHANGED <<rows, cache, files, create, put, sweeps>>

-----------------------------------------------------------------------------
(* The jobs of internal/tasks list a page of victims, remove them one by    *)
(* one, the row before the folder, without looking again, and go on to the  *)
(* next page; a page that is not full is the last one (page = 0 again).     *)

(* LIMIT PageSize OFFSET page * PageSize over the rows there are by now,    *)
(* which no ORDER BY puts in any order: any rows of the right number.      *)
Page(listed, page) ==
    LET left == Cardinality(listed) - page * PageSize
        size == IF left < 0 THEN 0 ELSE IF left > PageSize THEN PageSize ELSE left
    IN  {S \in SUBSET listed : Cardinality(S) = size}

(* Faulty: the next run goes on where the last one ended. *)
NextPageKept(S, page) == IF Cardinality(S) = PageSize THEN page + 1 ELSE page

NextPage(S, page) == IF Cardinality(S) = PageSize THEN page + 1 ELSE 0

Listed(sweep, S) == [page |-> NextPage(S, sweep.page), todo |-> S, drop |-> {}]

(* The row of x is dealt with, its folder is next. *)
Taken(sweep, x) ==
    [page |-> sweep.page, todo |-> sweep.todo \ {x}, drop |-> {x}]

(* A run begins when there is something to list; between two pages it goes  *)
(* on whatever there is.                                                   *)
MayList(sweep, rowsToList) ==
    sweep.todo = {} /\ sweep.drop = {} /\ (sweep.page = 0 => rowsToList # {})

(* Faulty: an upload without a finished part never has lastPartUploadedAt < t. *)
StaleWithParts == {u \in uploads \ fresh : finished[u] # 0}

(* The WHERE clause of ListStaleUploads. *)
Stale == uploads \ fresh

(* A minute passes without a new part. *)
Age(c) ==
    /\ c \in fresh
    /\ fresh' = fresh \ {c}
    /\ UNCHANGED <<uploads, started, finished, cache, files, create, put, fin, sweeps>>

ListStaleUploads ==
    /\ "uploads" \in Jobs /\ MayList(upSweep, Stale)
    /\ \E S \in Page(Stale, upSweep.page) : upSweep' = Listed(upSweep, S)
    /\ UNCHANGED <<rows, cache, files, create, put, fin, locSweep, ghosts>>

SweepUpload ==
    /\ upSweep.drop = {}
    /\ \E c \in upSweep.todo :
          /\ upSweep' = Taken(upSweep, c)
          /\ uploads' = uploads \ {c}
    /\ UNCHANGED <<started, finished, fresh, cache, files, create, put, fin,
                   locSweep, ghosts>>

SweepUploadFails ==
    /\ "statement" \in Aborts
    /\ upSweep.drop = {}
    /\ \E c \in upSweep.todo :
          upSweep' = Taken(upSweep, c)
    /\ UNCHANGED <<rows, cache, files, create, put, fin, locSweep, ghosts>>

SweepUploadFolder ==
    /\ \E c \in upSweep.drop :
          /\ upSweep' = [upSweep EXCEPT !.drop = {}]
          /\ DeleteFolder(c)
          /\ swept' = swept \cup {c}
    /\ UNCHANGED <<rows, cache, create, put, fin, locSweep, lost>>

(* cleanup:storage-locations lists what no entry refers to. *)
ListOrphanedStorageLocations == {l \in locations : Orphaned(l)}

ListOrphans ==
    /\ "orphans" \in Jobs
    /\ MayList(locSweep["orphans"], ListOrphanedStorageLocations)
    /\ \E S \in Page(ListOrphanedStorageLocations, locSweep["orphans"].page) :
          locSweep' = [locSweep EXCEPT !["orphans"] = Listed(@, S)]
    /\ UNCHANGED <<rows, cache, files, create, put, fin, upSweep, ghosts>>

(* cleanup:cache-entries lists the locations last downloaded long ago, the  *)
(* management API removes the one it is given: any location may be next.   *)
ListExpired ==
    /\ "expiry" \in Jobs /\ locSweep["expiry"] = Idle
    /\ \E l \in locations :
          locSweep' = [locSweep EXCEPT !["expiry"].todo = {l}]
    /\ UNCHANGED <<rows, cache, files, create, put, fin, upSweep, ghosts>>

(* Faulty: the folder goes while the row is still there. *)
SweepFolderFirst(j) ==
    /\ locSweep[j].drop = {}
    /\ \E l \in locSweep[j].todo :
          /\ locSweep' = [locSweep EXCEPT ![j] = Taken(@, l)]
          /\ DeleteFolder(Folder(l))
    /\ UNCHANGED <<rows, cache, create, put, fin, upSweep, ghosts>>

SweepLocation(j) ==
    /\ locSweep[j].drop = {}
    /\ \E l \in locSweep[j].todo :
          /\ locSweep' = [locSweep EXCEPT ![j] = Taken(@, l)]
          /\ DeleteStorageLocation(l)
          /\ lost' = lost \cup {KeyOfFin(e) : e \in entries \ entries'}
    /\ UNCHANGED <<rows, files, create, put, fin, upSweep, swept>>

(* The error of the DELETE is dropped: the folder goes all the same.  Every *)
(* statement fails this way once shutdown has cancelled the job's context,  *)
(* while the filesystem adapter never looks at it.                         *)
SweepLocationFails(j) ==
    /\ "statement" \in Aborts
    /\ locSweep[j].drop = {}
    /\ \E l \in locSweep[j].todo :
          locSweep' = [locSweep EXCEPT ![j] = Taken(@, l)]
    /\ UNCHANGED <<rows, cache, files, create, put, fin, upSweep, ghosts>>

SweepLocationFolder(j) ==
    /\ \E l \in locSweep[j].drop :
          /\ locSweep' = [locSweep EXCEPT ![j].drop = {}]
          /\ DeleteFolder(Folder(l))
          /\ swept' = IF l \in locations THEN swept \cup {Folder(l)} ELSE swept
    /\ UNCHANGED <<rows, cache, create, put, fin, upSweep, lost>>

(* The process stops, or shutdown cancels the context of the job. *)
StopJobs ==
    /\ "job" \in Aborts
    /\ upSweep # Idle \/ \E j \in LocJob : locSweep[j] # Idle
    /\ upSweep' = Idle
    /\ locSweep' = [j \in LocJob |-> Idle]
    /\ UNCHANGED <<rows, cache, files, create, put, fin, ghosts>>

(* DELETE /management-api/cache-entries: the entry goes, its location stays *)
(* for cleanup:storage-locations.                                          *)
DeleteCacheEntry(e) ==
    /\ "admin" \in Jobs
    /\ e \in entries
    /\ entries' = entries \ {e}
    /\ lost' = lost \cup {KeyOfFin(e)}
    /\ UNCHANGED <<rows, locations, locationId, files, create, put, fin,
                   upSweep, locSweep, swept>>

-----------------------------------------------------------------------------
CreateStep(c) == CheckUpload(c) \/ InsertUpload(c)

PutStep(p) ==
    \/ FindUploadByID(p) \/ IncStartedPartCount(p) \/ OpenPart(p)
    \/ WritePart(p) \/ IncFinishedPartCount(p)

FinStep(f) ==
    \/ FindUpload(f) \/ CountParts(f) \/ RejectUpload(f)
    \/ InsertStorageLocation(f) \/ FindExisting(f)
    \/ InsertCacheEntry(f) \/ UpdateCacheEntryLocation(f)
    \/ DropOldLocation(f) \/ DropOldFolder(f) \/ DeleteUpload(f)

JobStep ==
    \/ ListStaleUploads \/ SweepUpload \/ SweepUploadFolder
    \/ ListOrphans \/ ListExpired
    \/ \E j \in LocJob : SweepLocation(j) \/ SweepLocationFolder(j)

(* Everything in flight has ended: with one shot per request, the end. *)
Rest ==
    /\ \A c \in Session : create[c] # "checked"
    /\ \A p \in Put : put[p] \in {"idle", "done", "aborted", "lost"}
    /\ \A f \in Fin : fin[f].pc \in FinEnds
    /\ upSweep = Idle /\ locSweep = [j \in LocJob |-> Idle]
    /\ UNCHANGED vars

Next ==
    \/ \E c \in Session : CreateStep(c) \/ AbortCreate(c) \/ Age(c)
    \/ \E p \in Put : PutStep(p) \/ AbortPut(p)
    \/ \E f \in Fin : FinStep(f) \/ AbortFin(f) \/ DeleteCacheEntry(f)
    \/ JobStep \/ StopJobs
    \/ SweepUploadFails \/ \E j \in LocJob : SweepLocationFails(j)
    \/ Rest

Spec == Init /\ [][Next]_vars

-----------------------------------------------------------------------------
(* Invariants. *)

FinType == [pc : FinPCs, up : Session, parts : Nat, old : Fin, oldLoc : Fin]

(* Type correctness of the rows, the files and the requests. *)
TypeOK ==
    /\ uploads \subseteq Session /\ fresh \subseteq Session
    /\ started \in [Session -> Nat] /\ finished \in [Session -> Nat]
    /\ locations \subseteq Fin /\ entries \subseteq Fin
    /\ locationId \in [Fin -> Fin]
    /\ stored \in [Session -> SUBSET Index]
    /\ whole \in [Session -> SUBSET Index]
    /\ linked \subseteq Put
    /\ create \in [Session -> {"idle", "checked", "busy", "ok", "failed"}]
    /\ put \in [Put -> PutPCs]
    /\ fin \in [Fin -> FinType]
    /\ upSweep \in Sweep(Session)
    /\ locSweep \in [LocJob -> Sweep(Fin)]
    /\ swept \subseteq Session /\ lost \subseteq Key

(* What a save promises: the cache entry a client can find leads to every   *)
(* part of one upload, complete (e2e_test.go:182 compares the bytes).      *)
Intact(l) == PartCount(l) = NumParts /\ whole[Folder(l)] = Index
EntriesIntact == \A e \in entries : Intact(locationId[e])

Single(c) == \A p, q \in Put :
    Owner(p) = c /\ Owner(q) = c /\ Part(p) = Part(q)
    /\ put[p] # "idle" /\ put[q] # "idle" => p = q

Accepted(g) == fin[g].parts # 0 /\ fin[g].pc \notin {"reject", "rejected"}
SoleLocation(l) == \A g \in Fin : Accepted(g) /\ Folder(g) = Folder(l) => g = l

(* The promise holds of an entry published by the session that uploaded its *)
(* folder, whatever else runs and fails, but for four accidents:            *)
(* cleanup:uploads took the upload for abandoned, a job went on to the      *)
(* folder when the DELETE of its row had failed, a part was sent twice, or  *)
(* a second finalize accepted the same upload.                              *)
OwnUploadIntact ==
    \A e \in entries :
        LET l == locationId[e]  c == Folder(l) IN
        l[1] = c /\ c \notin swept /\ Single(c) /\ SoleLocation(l) => Intact(l)

(* No two entries lead to one location: removing a location never takes an  *)
(* entry with it that is served from somewhere else too.                   *)
LocationsUnshared ==
    \A d, e \in entries : locationId[d] = locationId[e] => d = e

(* A finalize that replaces an entry deletes the location the entry had     *)
(* when it looked; the cascade must not take an entry of any other finalize *)
(* that got in between lookup and delete (service.go:139-150).             *)
ReplaceKeepsEntries ==
    [][\A f \in Fin : DropOldLocation(f) => entries' = entries]_vars

(* A save that was reported as a success leaves its key with an entry,      *)
(* however many finalizes of the key interleave or stop halfway, until a    *)
(* job or the management API takes an entry of that key.                   *)
SavedKeyIsServed ==
    \A f \in Fin : fin[f].pc = "ok" /\ KeyOfFin(f) \notin lost =>
        \E e \in entries : KeyOfFin(e) = KeyOfFin(f) /\ locationId[e] \in locations

(* Saves, jobs and the management API together keep the table of the cache: *)
(* every statement of theirs is one of the changes CacheTable allows, or    *)
(* none, however the requests interleave without a transaction              *)
(* (service.go:128-158, tasks/cleanup_storage_locations.go:21).            *)
Table == INSTANCE CacheTable WITH
    Entry <- Fin, Location <- Fin,
    leadsTo <- [e \in entries |-> locationId[e]]

TableKept == Table!Spec

-----------------------------------------------------------------------------
(* Liveness.  The scheduler of internal/cron runs every job forever, so a   *)
(* job that can go on does; clients owe nothing, and a minute passes.      *)
Fairness ==
    /\ \A c \in Session : WF_vars(Age(c))
    /\ WF_vars(ListStaleUploads)
    /\ WF_vars(SweepUpload)
    /\ WF_vars(SweepUploadFolder)
    /\ WF_vars(ListOrphans)
    /\ \A j \in LocJob : WF_vars(SweepLocation(j)) /\ WF_vars(SweepLocationFolder(j))

FairSpec == Spec /\ Fairness

(* An upload whose client goes away does not block its key for ever: its    *)
(* row goes, by a finalize or by cleanup:uploads.                          *)
UploadsEnd == \A c \in Session : c \in uploads ~> c \notin uploads

(* A location no entry refers to is removed or taken up by an entry: what   *)
(* interrupted finalizes and deleted entries leave is reclaimed.           *)
OrphansEnd ==
    \A l \in Fin : l \in locations /\ Orphaned(l) ~> ~(l \in locations /\ Orphaned(l))
=============================================================================

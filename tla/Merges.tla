------------------------------- MODULE Merges --------------------------------
(***************************************************************************)
(* The download path of the cache server for one storage location:         *)
(* GET /download (internal/server/download.go), the merge of the parts      *)
(* into one blob that the first download starts (Download,                  *)
(* internal/storage/service.go:168-246), the state machine mergeStartedAt / *)
(* mergedAt / partsDeletedAt in its row, the jobs that reset stalled        *)
(* merges and delete merged parts, eviction and expiry, and the shutdown    *)
(* that waits for merges (service.go:41-55, cmd/cache-server/main.go).      *)
(*                                                                         *)
(* A Reader is one download request.  If it is the one to merge, it leads:  *)
(* one goroutine streams the parts to the client and into a pipe, another   *)
(* one, the merger of the reader, stores what comes out of the pipe.        *)
(***************************************************************************)
EXTENDS Integers, FiniteSets

CONSTANTS
    Reader,     \* download requests
    NumParts,   \* parts of the location
    NoReader,   \* stands for no reader at all
    AtomicPut,  \* object store: an object appears whole, and is not seekable
    Faults,     \* "request", "leave", "merge", "crash"
    Jobs        \* "merges", "parts", "evict", "expire", "shutdown"

ASSUME ReaderAssumption == NoReader \notin Reader
ASSUME MergePartsAssumption == NumParts \in Nat \ {0}
ASSUME MergeSwitchAssumption ==
    /\ AtomicPut \in BOOLEAN
    /\ Faults \subseteq {"request", "leave", "merge", "crash"}
    /\ Jobs \subseteq {"merges", "parts", "evict", "expire", "shutdown"}

Index == 0 .. NumParts - 1

VARIABLES
    loc,        \* the row: live, and the columns of the state machine
    parts,      \* files in <folder>/parts
    blob,       \* <folder>/merged: "absent", "partial" or "whole"
    link,       \* the merger whose open file is the blob, or NoReader
    reader,     \* each request: program counter and parts streamed so far
    viewers,    \* readers whose open file is the blob
    sound,      \* readers whose open file has had the full content so far
    merger,     \* the merge goroutine of each reader
    registered, \* the entry of the location in the merges map
    contested,  \* ghost: a merge was started beside or after another one
    partsJob,   \* cleanup:parts
    remover,    \* eviction or expiry of this location
    server      \* "up", "draining", "waiting", "down"; and whom it waits for

disk == <<parts, blob, link, viewers, sound>>
work == <<merger, registered, contested>>
jobs == <<partsJob, remover, server>>
vars == <<loc, disk, reader, work, jobs>>

Ended == {"full", "short", "missing", "failed", "gone"}
ReaderPCs == {"idle", "open", "lookup", "openBlob", "view", "follow", "check",
              "mark", "lead"} \cup Ended
MergerPCs == {"none", "opening", "copying", "upload", "mark", "flag",
              "delete", "reset", "done"}

Active(r) == merger[r] \notin {"none", "done"}
Streamed(r) == reader[r].next = NumParts

Up == server.pc = "up"

Goto(r, pc) == reader' = [reader EXCEPT ![r].pc = pc]
MergerGoto(r, pc) == merger' = [merger EXCEPT ![r] = pc]

(* Faulty: the goroutine leaves its entry in the map. *)
MergerEndsRegistered(r) == MergerGoto(r, "done") /\ UNCHANGED registered

(* The deferred calls of the merge goroutine: close(done) and the delete    *)
(* from the merges map, whoever is registered there by now.                *)
MergerEnds(r) ==
    /\ MergerGoto(r, "done")
    /\ registered' = NoReader

Init ==
    /\ loc = [live |-> TRUE, started |-> FALSE, stalled |-> FALSE,
              merged |-> FALSE, cleaned |-> FALSE]
    /\ parts = Index /\ blob = "absent" /\ link = NoReader
    /\ reader = [r \in Reader |-> [pc |-> "idle", next |-> 0]]
    /\ viewers = {} /\ sound = {}
    /\ merger = [r \in Reader |-> "none"]
    /\ registered = NoReader /\ contested = FALSE
    /\ partsJob = "idle" /\ remover = "idle"
    /\ server = [pc |-> "up", waitFor |-> NoReader]

-----------------------------------------------------------------------------
(* The statements on the row.  An UPDATE that finds no row does nothing.    *)

SetLoc(new) == loc' = IF loc.live THEN new ELSE loc

UpdateStorageMergeStarted ==
    SetLoc([loc EXCEPT !.started = TRUE, !.stalled = FALSE])
UpdateStorageMerged == SetLoc([loc EXCEPT !.merged = TRUE])
UpdateStoragePartsDeleted == SetLoc([loc EXCEPT !.cleaned = TRUE])

(* Faulty: only mergedAt becomes NULL. *)
ResetMergedAt == SetLoc([loc EXCEPT !.merged = FALSE])

(* Both timestamps of the merge become NULL; partsDeletedAt stays.          *)
ResetStorageMerge ==
    SetLoc([loc EXCEPT !.started = FALSE, !.stalled = FALSE, !.merged = FALSE])

-----------------------------------------------------------------------------
(* GET /download: a blob that can be seeked first, then Download.           *)

OpenMergedSeekable(r) ==
    /\ reader[r].pc = "idle" /\ Up
    /\ Goto(r, IF loc.live /\ loc.merged /\ ~AtomicPut THEN "open" ELSE "lookup")
    /\ UNCHANGED <<loc, disk, work, jobs>>

(* Opening the blob; sound tells whether it had its full content then. *)
OpenBlob(r, orElse) ==
    IF blob = "absent"
    THEN Goto(r, orElse) /\ UNCHANGED <<viewers, sound>>
    ELSE /\ Goto(r, "view")
         /\ viewers' = viewers \cup {r}
         /\ sound' = IF blob = "whole" THEN sound \cup {r} ELSE sound

OpenSeekable(r) ==
    /\ reader[r].pc = "open"
    /\ OpenBlob(r, "lookup")
    /\ UNCHANGED <<loc, parts, blob, link, work, jobs>>

FindCacheEntryWithLocation(r) ==
    /\ reader[r].pc = "lookup"
    /\ Goto(r, CASE ~loc.live                  -> "missing"
                 [] loc.live /\ loc.merged     -> "openBlob"
                 [] loc.live /\ ~loc.merged /\ loc.started  -> "follow"
                 [] loc.live /\ ~loc.merged /\ ~loc.started -> "check")
    /\ UNCHANGED <<loc, disk, work, jobs>>

CreateDownloadStream(r) ==
    /\ reader[r].pc = "openBlob"
    /\ OpenBlob(r, "missing")
    /\ UNCHANGED <<loc, parts, blob, link, work, jobs>>

SendBlob(r) ==
    /\ reader[r].pc = "view"
    /\ Goto(r, IF r \in sound THEN "full" ELSE "short")
    /\ viewers' = viewers \ {r}
    /\ sound' = sound \ {r}
    /\ UNCHANGED <<loc, parts, blob, link, work, jobs>>

(* streamPartsTo opens the parts in order.  A part that is gone ends the    *)
(* body early; the status line has been sent, and the handler drops the    *)
(* error of io.Copy (download.go:38), so the client sees a normal end.     *)
StreamPart(r) ==
    IF reader[r].next \in parts
    THEN reader' = [reader EXCEPT ![r].next = @ + 1]
    ELSE Goto(r, "short")

FollowPart(r) ==
    /\ reader[r].pc = "follow" /\ ~Streamed(r)
    /\ StreamPart(r)
    /\ UNCHANGED <<loc, disk, work, jobs>>

FollowEnd(r) ==
    /\ reader[r].pc = "follow" /\ Streamed(r)
    /\ Goto(r, "full")
    /\ UNCHANGED <<loc, disk, work, jobs>>

EnsurePartsExist(r) ==
    /\ reader[r].pc = "check"
    /\ Goto(r, IF Cardinality(parts) < NumParts THEN "missing" ELSE "mark")
    /\ UNCHANGED <<loc, disk, work, jobs>>

(* The row is marked unconditionally: nothing looks at mergeStartedAt again *)
(* (service.go:200).  Then the two goroutines start.                       *)
StartMerge(r) ==
    /\ reader[r].pc = "mark"
    /\ Goto(r, "lead")
    /\ UpdateStorageMergeStarted
    /\ MergerGoto(r, "opening")
    /\ registered' = r
    /\ contested' = (contested \/ loc.started \/ loc.merged \/ \E q \in Reader : Active(q))
    /\ UNCHANGED <<disk, jobs>>

(* Each part goes to the client and into the pipe of the merger; the write  *)
(* into the pipe returns once the merger has read it.  A merger that gave   *)
(* up reads no more and does not close its end: the stream stays blocked.   *)
LeadPart(r) ==
    /\ reader[r].pc = "lead" /\ ~Streamed(r)
    /\ merger[r] = "copying"
    /\ StreamPart(r)
    /\ UNCHANGED <<loc, disk, work, jobs>>

LeadEnd(r) ==
    /\ reader[r].pc = "lead" /\ Streamed(r)
    /\ Goto(r, "full")
    /\ UNCHANGED <<loc, disk, work, jobs>>

(* The client goes away; a handler that blocks on the pipe never notices.   *)
Leave(r) ==
    /\ "leave" \in Faults
    /\ reader[r].pc \in {"view", "follow", "lead"} /\ ~Streamed(r)
    /\ reader[r].pc = "lead" => merger[r] = "copying"
    /\ Goto(r, "gone")
    /\ viewers' = viewers \ {r} /\ sound' = sound \ {r}
    /\ UNCHANGED <<loc, parts, blob, link, work, jobs>>

(* A query or the adapter returns an error: status 500, or the 404 of       *)
(* download.go:30 when there is nothing to send.                           *)
RequestFails(r) ==
    /\ "request" \in Faults
    /\ reader[r].pc \in {"open", "lookup", "openBlob", "check", "mark"}
    /\ Goto(r, "failed")
    /\ UNCHANGED <<loc, disk, work, jobs>>

-----------------------------------------------------------------------------
(* The merge goroutine: UploadStream of what comes out of the pipe, then    *)
(* the marks in the row, then the parts (service.go:212-233).              *)

(* os.Create truncates a blob that is there, under those who read it.       *)
OpenMerged(r) ==
    /\ merger[r] = "opening"
    /\ MergerGoto(r, "copying")
    /\ IF AtomicPut
       THEN UNCHANGED <<blob, link, sound>>
       ELSE blob' = "partial" /\ link' = r /\ sound' = sound \ viewers
    /\ UNCHANGED <<loc, parts, viewers, reader, registered, contested, jobs>>

(* Faulty: mergeW.Close where mergeW.CloseWithError is meant. *)
CopyEndsClean(r) ==
    /\ merger[r] = "copying" /\ reader[r].pc # "lead"
    /\ MergerGoto(r, "upload")
    /\ UNCHANGED <<loc, disk, reader, registered, contested, jobs>>

(* The pipe is closed: at the end of the parts, or with an error.           *)
CopyEnds(r) ==
    /\ merger[r] = "copying" /\ reader[r].pc # "lead"
    /\ MergerGoto(r, IF Streamed(r) THEN "upload" ELSE "reset")
    /\ UNCHANGED <<loc, disk, reader, registered, contested, jobs>>

(* fsync, or the PUT of an object store. *)
StoreBlob(r) ==
    /\ merger[r] = "upload"
    /\ MergerGoto(r, "mark")
    /\ blob' = IF ~AtomicPut /\ link # r THEN blob
               ELSE IF Streamed(r) THEN "whole" ELSE "partial"
    /\ UNCHANGED <<loc, parts, link, viewers, sound, reader, registered, contested, jobs>>

(* Faulty: an object store that sends the body as it comes. *)
StoreFailsAnywhere(r) ==
    /\ "merge" \in Faults
    /\ merger[r] \in {"opening", "copying", "upload"}
    /\ MergerGoto(r, "reset")
    /\ UNCHANGED <<loc, disk, reader, registered, contested, jobs>>

(* MkdirAll, Create, Copy or Sync fails; of an object store, the PUT.       *)
StoreFails(r) ==
    /\ "merge" \in Faults
    /\ merger[r] \in IF AtomicPut THEN {"upload"} ELSE {"opening", "copying", "upload"}
    /\ MergerGoto(r, "reset")
    /\ UNCHANGED <<loc, disk, reader, registered, contested, jobs>>

ResetMerge(r) ==
    /\ merger[r] = "reset"
    /\ ResetStorageMerge
    /\ MergerEnds(r)
    /\ UNCHANGED <<disk, reader, contested, jobs>>

MarkMerged(r) ==
    /\ merger[r] = "mark"
    /\ UpdateStorageMerged
    /\ MergerGoto(r, "flag")
    /\ UNCHANGED <<disk, reader, registered, contested, jobs>>

FlagPartsDeleted(r) ==
    /\ merger[r] = "flag"
    /\ UpdateStoragePartsDeleted
    /\ MergerGoto(r, "delete")
    /\ UNCHANGED <<disk, reader, registered, contested, jobs>>

DeleteParts(r) ==
    /\ merger[r] = "delete"
    /\ parts' = {}
    /\ MergerEnds(r)
    /\ UNCHANGED <<loc, blob, link, viewers, sound, reader, contested, jobs>>

(* An error of the last three statements is logged and ends the goroutine;  *)
(* one of ResetStorageMerge and UpdateStoragePartsDeleted is ignored.       *)
StatementFails(r) ==
    /\ "merge" \in Faults
    /\ \/ merger[r] \in {"mark", "delete", "reset"} /\ MergerEnds(r)
       \/ merger[r] = "flag" /\ MergerGoto(r, "delete") /\ UNCHANGED registered
    /\ UNCHANGED <<loc, disk, reader, contested, jobs>>

-----------------------------------------------------------------------------
(* The jobs.  Shutdown cancels their context: no query of theirs succeeds   *)
(* after it.                                                               *)

(* Fifteen minutes pass. *)
Stall ==
    /\ loc.live /\ loc.started /\ ~loc.stalled
    /\ loc' = [loc EXCEPT !.stalled = TRUE]
    /\ UNCHANGED <<disk, reader, work, jobs>>

ResetStalledMerges ==
    /\ "merges" \in Jobs /\ Up
    /\ loc.stalled /\ ~loc.merged
    /\ ResetStorageMerge
    /\ UNCHANGED <<disk, reader, work, jobs>>

(* Faulty: WHERE mergeStartedAt IS NOT NULL. *)
ListStartedNotCleaned ==
    /\ "parts" \in Jobs /\ Up /\ partsJob = "idle"
    /\ loc.live /\ loc.started /\ ~loc.cleaned
    /\ partsJob' = "flag"
    /\ UNCHANGED <<loc, disk, reader, work, remover, server>>

ListMergedNotCleaned ==
    /\ "parts" \in Jobs /\ Up /\ partsJob = "idle"
    /\ loc.live /\ loc.merged /\ ~loc.cleaned
    /\ partsJob' = "flag"
    /\ UNCHANGED <<loc, disk, reader, work, remover, server>>

CleanupPartsFlag ==
    /\ partsJob = "flag" /\ Up
    /\ UpdateStoragePartsDeleted
    /\ partsJob' = "delete"
    /\ UNCHANGED <<disk, reader, work, remover, server>>

CleanupPartsDelete ==
    /\ partsJob = "delete"
    /\ parts' = {}
    /\ partsJob' = "idle"
    /\ UNCHANGED <<loc, blob, link, viewers, sound, reader, work, remover, server>>

(* cleanup:disk-pressure lists entries whose merge is not in flight, expiry *)
(* and the management API list anything; they remove the row, then the     *)
(* folder, and do not look again.                                          *)
ListLRUCacheEntries == loc.live /\ ~(loc.started /\ ~loc.merged)

ListVictim ==
    /\ remover = "idle" /\ Up
    /\ \/ "evict" \in Jobs /\ ListLRUCacheEntries
       \/ "expire" \in Jobs /\ loc.live
    /\ remover' = "row"
    /\ UNCHANGED <<loc, disk, reader, work, partsJob, server>>

RemoveRow ==
    /\ remover = "row" /\ Up
    /\ loc' = [loc EXCEPT !.live = FALSE]
    /\ remover' = "folder"
    /\ UNCHANGED <<disk, reader, work, partsJob, server>>

RemoveFolder ==
    /\ remover = "folder"
    /\ remover' = "done"
    /\ parts' = {} /\ blob' = "absent" /\ link' = NoReader /\ viewers' = {}
    /\ UNCHANGED <<loc, sound, reader, work, partsJob, server>>

CancelJobs ==
    /\ ~Up
    /\ partsJob = "flag" \/ remover = "row"
    /\ partsJob' = IF partsJob = "flag" THEN "idle" ELSE partsJob
    /\ remover' = IF remover = "row" THEN "idle" ELSE remover
    /\ UNCHANGED <<loc, disk, reader, work, server>>

-----------------------------------------------------------------------------
(* The process.  Shutdown drains the handlers, then waits for the merges it *)
(* finds in the map; the process then exits and its goroutines with it.    *)

Killed ==
    /\ reader' = [r \in Reader |-> IF reader[r].pc \in Ended \cup {"idle"} THEN reader[r]
                                   ELSE [reader[r] EXCEPT !.pc = "gone"]]
    /\ merger' = [r \in Reader |-> IF Active(r) THEN "done" ELSE merger[r]]
    /\ registered' = NoReader /\ link' = NoReader
    /\ viewers' = {} /\ sound' = {}
    /\ partsJob' = "idle"
    /\ UNCHANGED <<loc, parts, blob, contested>>

(* The process dies and is started again.  A remover that had the row only  *)
(* leaves the folder.                                                      *)
Crash ==
    /\ "crash" \in Faults /\ Up
    /\ \/ partsJob # "idle" \/ \E r \in Reader : Active(r)
       \/ \E r \in Reader : reader[r].pc \notin Ended \cup {"idle"}
    /\ Killed
    /\ remover' = IF remover = "row" THEN "idle" ELSE IF remover = "folder" THEN "done" ELSE remover
    /\ UNCHANGED server

Shutdown ==
    /\ "shutdown" \in Jobs /\ Up
    /\ server' = [server EXCEPT !.pc = "draining"]
    /\ UNCHANGED <<loc, disk, reader, work, partsJob, remover>>

(* Faulty: the merges are collected before the handlers are drained. *)
WaitBeforeDrain ==
    /\ server.pc = "draining"
    /\ server' = [pc |-> "waiting", waitFor |-> registered]
    /\ UNCHANGED <<loc, disk, reader, work, partsJob, remover>>

(* httpSrv.Shutdown returns when no handler runs. *)
WaitForOngoingMerges ==
    /\ server.pc = "draining"
    /\ \A r \in Reader : reader[r].pc \in Ended \cup {"idle"}
    /\ server' = [pc |-> "waiting", waitFor |-> registered]
    /\ UNCHANGED <<loc, disk, reader, work, partsJob, remover>>

WaitOver == server.waitFor # NoReader => ~Active(server.waitFor)

Exit ==
    /\ server.pc = "waiting" /\ WaitOver
    /\ partsJob = "idle" /\ remover \in {"idle", "done"}
    /\ server' = [server EXCEPT !.pc = "down"]
    /\ Killed
    /\ UNCHANGED remover

-----------------------------------------------------------------------------
ReaderStep(r) ==
    \/ OpenMergedSeekable(r) \/ OpenSeekable(r)
    \/ FindCacheEntryWithLocation(r) \/ CreateDownloadStream(r) \/ SendBlob(r)
    \/ FollowPart(r) \/ FollowEnd(r) \/ EnsurePartsExist(r)
    \/ StartMerge(r) \/ LeadPart(r) \/ LeadEnd(r)

MergerStep(r) ==
    \/ OpenMerged(r) \/ CopyEnds(r) \/ StoreBlob(r) \/ ResetMerge(r)
    \/ MarkMerged(r) \/ FlagPartsDeleted(r) \/ DeleteParts(r)

JobStep ==
    \/ ResetStalledMerges
    \/ ListMergedNotCleaned \/ CleanupPartsFlag \/ CleanupPartsDelete
    \/ ListVictim \/ RemoveRow \/ RemoveFolder \/ CancelJobs

(* Nothing is in flight, but for streams blocked on a merger that gave up.  *)
Rest ==
    /\ \A r \in Reader :
          /\ reader[r].pc \in Ended \cup {"idle", "lead"}
          /\ reader[r].pc = "lead" => ~Streamed(r)
          /\ ~Active(r)
    /\ partsJob = "idle" /\ remover \in {"idle", "done"}
    /\ UNCHANGED vars

Next ==
    \/ \E r \in Reader : ReaderStep(r) \/ Leave(r) \/ RequestFails(r)
    \/ \E r \in Reader : MergerStep(r) \/ StoreFails(r) \/ StatementFails(r)
    \/ Stall \/ JobStep
    \/ Crash \/ Shutdown \/ WaitForOngoingMerges \/ Exit
    \/ Rest

Spec == Init /\ [][Next]_vars

-----------------------------------------------------------------------------
(* Type correctness of the row, the files, the goroutines and the jobs; the *)
(* merges map holds running merges only.                                   *)
TypeOK ==
    /\ loc \in [live : BOOLEAN, started : BOOLEAN, stalled : BOOLEAN,
                merged : BOOLEAN, cleaned : BOOLEAN]
    /\ parts \subseteq Index /\ blob \in {"absent", "partial", "whole"}
    /\ link \in Reader \cup {NoReader}
    /\ reader \in [Reader -> [pc : ReaderPCs, next : 0 .. NumParts]]
    /\ viewers \subseteq Reader /\ sound \subseteq Reader
    /\ merger \in [Reader -> MergerPCs]
    /\ registered \in Reader \cup {NoReader} /\ contested \in BOOLEAN
    /\ partsJob \in {"idle", "flag", "delete"}
    /\ remover \in {"idle", "row", "folder", "done"}
    /\ server \in [pc : {"up", "draining", "waiting", "down"},
                  waitFor : Reader \cup {NoReader}]
    /\ registered # NoReader => Active(registered)

(* Every byte of the location can still be had: from the parts, or from a   *)
(* whole blob that the row says is merged.                                 *)
DataKept == loc.live => parts = Index \/ (loc.merged /\ blob = "whole")

(* mergedAt is never set over a blob that is not whole.                     *)
MergedIsWhole == loc.live /\ loc.merged => blob = "whole"

(* As long as no merge is started beside or after another one, no download, *)
(* merge failure, crash, reset of a stalled merge or parts cleanup loses    *)
(* the data: parts are deleted only once the blob has them.                *)
MergeSafe == ~contested => DataKept /\ MergedIsWhole

(* Of the downloads of a location that stays, only one that follows another *)
(* one's merge can be cut short: a download that leads, or that reads the   *)
(* blob, gets everything.                                                  *)
OnlyFollowersCut ==
    \A r \in Reader : reader[r].pc = "short" /\ loc.live /\ ~contested =>
        merger[r] = "none" /\ loc.merged

(* e2e_test.go:182 compares the downloaded bytes with the saved ones: no    *)
(* download of a location that stays and is merged only once is cut short.  *)
NoShortBody ==
    \A r \in Reader : reader[r].pc = "short" => contested \/ ~loc.live

(* PLAN.md:6673, "Graceful shutdown waits for ongoing merges": the process  *)
(* does not exit under a merge, where none was started beside another.      *)
ShutdownWaitsForTheMerge == [][Exit /\ ~contested => \A r \in Reader : ~Active(r)]_vars

-----------------------------------------------------------------------------
(* Liveness.  Goroutines that can go on do; the scheduler keeps running     *)
(* cleanup:merges and cleanup:parts, and minutes pass.  Clients owe nothing *)
(* but to read: a client that stops reading stops its download.  The process *)
(* is not killed for ever at the one point between list and mark.           *)
Fairness ==
    /\ \A r \in Reader : WF_vars(ReaderStep(r) /\ reader[r].pc # "idle")
    /\ \A r \in Reader : WF_vars(MergerStep(r))
    /\ WF_vars(Stall)
    /\ WF_vars(ResetStalledMerges)
    /\ WF_vars(ListMergedNotCleaned) /\ SF_vars(CleanupPartsFlag)
    /\ WF_vars(CleanupPartsDelete)

FairSpec == Spec /\ Fairness

(* A merge does not stay in flight for ever, though its process dies or its *)
(* last statement fails: it completes, or cleanup:merges takes it back.     *)
InFlight == loc.live /\ loc.started /\ ~loc.merged
MergesSettle == InFlight ~> ~InFlight

(* cleanup:parts finds every merged location whose parts the merger did not *)
(* mark as deleted, whatever a merge beside it did to the row.              *)
Uncleaned == loc.live /\ loc.merged /\ ~loc.cleaned
PartsReclaimed == Uncleaned ~> ~Uncleaned

(* A download that was begun comes to an end, with or without the data.     *)
DownloadsEnd ==
    \A r \in Reader : reader[r].pc # "idle" ~> reader[r].pc \in Ended
=============================================================================

---------------------------- MODULE MergesProofs ----------------------------
(***************************************************************************)
(* Proofs about Merges: for any number of downloads and of parts, and for   *)
(* both kinds of storage, no merge that runs alone loses the data, no       *)
(* download but a follower of one is cut short, and a shutdown waits for it. *)
(*                                                                         *)
(* The invariant follows the location from the download that starts its    *)
(* merge to the last statement of the merger: as long as no second merge is *)
(* started, the row says "merged" exactly from the mark on, the parts stay  *)
(* until then, and whoever opened the blob did so after it.                *)
(***************************************************************************)
EXTENDS Merges, TLAPS

LEMMA IndexFacts ==
    /\ NumParts \in Nat /\ NumParts >= 1 /\ 0 \in 0 .. NumParts
    /\ \A n \in 0 .. NumParts : n # NumParts => n \in Index /\ n + 1 \in 0 .. NumParts
BY MergePartsAssumption DEF Index

-----------------------------------------------------------------------------
(* Type correctness. *)

(* What a statement on the row leaves: a row of the same kind.             *)
Rows == [live : BOOLEAN, started : BOOLEAN, stalled : BOOLEAN,
         merged : BOOLEAN, cleaned : BOOLEAN]

LEMMA RowTyped ==
    ASSUME loc \in Rows
    PROVE  /\ [loc EXCEPT !.started = TRUE, !.stalled = FALSE] \in Rows
           /\ [loc EXCEPT !.merged = TRUE] \in Rows
           /\ [loc EXCEPT !.cleaned = TRUE] \in Rows
           /\ [loc EXCEPT !.started = FALSE, !.stalled = FALSE, !.merged = FALSE] \in Rows
           /\ [loc EXCEPT !.stalled = TRUE] \in Rows
           /\ [loc EXCEPT !.live = FALSE] \in Rows
BY DEF Rows

LEMMA StatementTyped ==
    ASSUME loc \in Rows,
           \/ UpdateStorageMergeStarted \/ UpdateStorageMerged
           \/ UpdateStoragePartsDeleted \/ ResetStorageMerge
    PROVE  loc' \in Rows
BY RowTyped DEF UpdateStorageMergeStarted, UpdateStorageMerged, UpdateStoragePartsDeleted,
    ResetStorageMerge, SetLoc

(* A part is there and is streamed, or the body ends early.                 *)
LEMMA StreamedPart ==
    ASSUME TypeOK, NEW r \in Reader, ~Streamed(r), StreamPart(r)
    PROVE  /\ reader' \in [Reader -> [pc : ReaderPCs, next : 0 .. NumParts]]
           /\ \A q \in Reader \ {r} : reader'[q] = reader[q]
           /\ IF reader[r].next \in parts
              THEN reader'[r].pc = reader[r].pc
              ELSE reader'[r].pc = "short" /\ parts # Index
<1>1. reader[r].next \in Index /\ reader[r].next + 1 \in 0 .. NumParts
    BY IndexFacts DEF TypeOK, Streamed
<1>2. CASE reader[r].next \in parts
    BY <1>1, <1>2 DEF TypeOK, StreamPart
<1>3. CASE reader[r].next \notin parts
    BY <1>1, <1>3 DEF TypeOK, StreamPart, Goto, ReaderPCs, Ended
<1>4. QED  BY <1>2, <1>3

LEMMA TypedStart == Init => TypeOK
<1>1. Init => reader \in [Reader -> [pc : ReaderPCs, next : 0 .. NumParts]]
    BY IndexFacts DEF Init, ReaderPCs
<1>2. Init => loc \in Rows /\ parts \subseteq Index /\ merger \in [Reader -> MergerPCs]
    BY DEF Init, Rows, MergerPCs
<1>3. Init => server \in [pc : {"up", "draining", "waiting", "down"},
                          waitFor : Reader \cup {NoReader}]
    BY DEF Init
<1>4. QED  BY <1>1, <1>2, <1>3 DEF Init, TypeOK, Rows

LEMMA ReaderTyped ==
    ASSUME TypeOK, NEW r \in Reader, ReaderStep(r) \/ Leave(r) \/ RequestFails(r)
    PROVE  TypeOK'
<1> USE DEF TypeOK, ReaderPCs, Ended, Goto, work, jobs, disk
<1>1. CASE OpenMergedSeekable(r)
    BY <1>1 DEF OpenMergedSeekable, Active
<1>2. CASE OpenSeekable(r)
    BY <1>2 DEF OpenSeekable, OpenBlob, Active
<1>3. CASE FindCacheEntryWithLocation(r)
    BY <1>3 DEF FindCacheEntryWithLocation, Active
<1>4. CASE CreateDownloadStream(r)
    BY <1>4 DEF CreateDownloadStream, OpenBlob, Active
<1>5. CASE SendBlob(r)
    BY <1>5 DEF SendBlob, Active
<1>6. CASE FollowPart(r)
    BY <1>6, StreamedPart DEF FollowPart, Active
<1>7. CASE FollowEnd(r)
    BY <1>7 DEF FollowEnd, Active
<1>8. CASE EnsurePartsExist(r)
    BY <1>8 DEF EnsurePartsExist, Active
<1>9. CASE StartMerge(r)
    BY <1>9, StatementTyped DEF StartMerge, Rows, MergerGoto, Active, MergerPCs
<1>10. CASE LeadPart(r)
    BY <1>10, StreamedPart DEF LeadPart, Active
<1>11. CASE LeadEnd(r)
    BY <1>11 DEF LeadEnd, Active
<1>12. CASE Leave(r)
    BY <1>12 DEF Leave, Active
<1>13. CASE RequestFails(r)
    BY <1>13 DEF RequestFails, Active
<1>14. QED
    BY <1>1, <1>2, <1>3, <1>4, <1>5, <1>6, <1>7, <1>8, <1>9, <1>10, <1>11, <1>12, <1>13
    DEF ReaderStep

LEMMA MergerTyped ==
    ASSUME TypeOK, NEW r \in Reader, MergerStep(r) \/ StoreFails(r) \/ StatementFails(r)
    PROVE  TypeOK'
<1> USE ReaderAssumption DEF TypeOK, MergerPCs, MergerGoto, Active, jobs, disk
<1>1. CASE OpenMerged(r)
    BY <1>1 DEF OpenMerged
<1>2. CASE CopyEnds(r)
    BY <1>2 DEF CopyEnds
<1>3. CASE StoreBlob(r)
    BY <1>3 DEF StoreBlob
<1>4. CASE ResetMerge(r)
    BY <1>4, StatementTyped DEF ResetMerge, Rows, MergerEnds
<1>5. CASE MarkMerged(r)
    BY <1>5, StatementTyped DEF MarkMerged, Rows
<1>6. CASE FlagPartsDeleted(r)
    BY <1>6, StatementTyped DEF FlagPartsDeleted, Rows
<1>7. CASE DeleteParts(r)
    BY <1>7 DEF DeleteParts, MergerEnds
<1>8. CASE StoreFails(r)
    BY <1>8 DEF StoreFails
<1>9. CASE StatementFails(r)
    BY <1>9 DEF StatementFails, MergerEnds
<1>10. QED
    BY <1>1, <1>2, <1>3, <1>4, <1>5, <1>6, <1>7, <1>8, <1>9 DEF MergerStep

LEMMA JobTyped ==
    ASSUME TypeOK, Stall \/ JobStep
    PROVE  TypeOK'
<1> USE DEF TypeOK, Active, work, disk
<1>1. CASE Stall
    BY <1>1, RowTyped DEF Stall, Rows, jobs
<1>2. CASE ResetStalledMerges
    BY <1>2, StatementTyped DEF ResetStalledMerges, Rows, jobs
<1>3. CASE ListMergedNotCleaned
    BY <1>3 DEF ListMergedNotCleaned
<1>4. CASE CleanupPartsFlag
    BY <1>4, StatementTyped DEF CleanupPartsFlag, Rows
<1>5. CASE CleanupPartsDelete
    BY <1>5 DEF CleanupPartsDelete
<1>6. CASE ListVictim
    BY <1>6 DEF ListVictim
<1>7. CASE RemoveRow
    BY <1>7, RowTyped DEF RemoveRow, Rows
<1>8. CASE RemoveFolder
    BY <1>8 DEF RemoveFolder
<1>9. CASE CancelJobs
    BY <1>9 DEF CancelJobs
<1>10. QED
    BY <1>1, <1>2, <1>3, <1>4, <1>5, <1>6, <1>7, <1>8, <1>9 DEF JobStep

(* Where a process that is gone leaves its requests and its mergers.        *)
LEMMA KilledStates ==
    ASSUME TypeOK, Killed
    PROVE  /\ reader' \in [Reader -> [pc : ReaderPCs, next : 0 .. NumParts]]
           /\ merger' \in [Reader -> MergerPCs]
           /\ \A r \in Reader : ~Active(r)' /\ reader'[r].next = reader[r].next
           /\ \A r \in Reader : reader'[r].pc =
                 IF reader[r].pc \in Ended \cup {"idle"} THEN reader[r].pc ELSE "gone"
           /\ \A r \in Reader : merger[r] = "none" => merger'[r] = "none"
BY DEF TypeOK, Killed, Active, ReaderPCs, MergerPCs, Ended

LEMMA ProcessTyped ==
    ASSUME TypeOK, Crash \/ Shutdown \/ WaitForOngoingMerges \/ Exit
    PROVE  TypeOK'
<1>1. CASE Crash
    BY <1>1, KilledStates DEF Crash, Killed, TypeOK
<1>2. CASE Shutdown
    BY <1>2 DEF Shutdown, TypeOK, Active, disk, work
<1>3. CASE WaitForOngoingMerges
    BY <1>3 DEF WaitForOngoingMerges, TypeOK, Active, disk, work
<1>4. CASE Exit
    BY <1>4, KilledStates DEF Exit, Killed, TypeOK
<1>5. QED  BY <1>1, <1>2, <1>3, <1>4

LEMMA StepTyped == TypeOK /\ [Next]_vars => TypeOK'
<1> SUFFICES ASSUME TypeOK, [Next]_vars PROVE TypeOK'
    OBVIOUS
<1>1. CASE UNCHANGED vars
    BY <1>1 DEF vars, disk, work, jobs, TypeOK, Active
<1>2. CASE Rest
    BY <1>2 DEF Rest, vars, disk, work, jobs, TypeOK, Active
<1>3. QED
    BY <1>1, <1>2, ReaderTyped, MergerTyped, JobTyped, ProcessTyped DEF Next

(* The row, the files, the goroutines and the jobs stay typed, and the      *)
(* merges map never holds a merge that is over.                            *)
THEOREM MergesTyped == Spec => []TypeOK
BY TypedStart, StepTyped, PTL DEF Spec

-----------------------------------------------------------------------------
(* The invariant. *)

(* A merger that is alone is the one in the merges map. *)
AloneRegistered == ~contested => \A r \in Reader : Active(r) => registered = r

(* A request that has yet to lead has no merger. *)
BeforeLeading == {"idle", "open", "lookup", "openBlob", "view", "follow", "check", "mark"}
MergerOfLeader == \A r \in Reader : reader[r].pc \in BeforeLeading => merger[r] = "none"

(* What is stored came to the end of the parts. *)
UploadIsComplete == \A r \in Reader : merger[r] = "upload" => Streamed(r)

FolderAfterRow == remover = "folder" => ~loc.live

(* Once main waits no request runs, and it waits for the merger there is.   *)
WaitsForTheMerge ==
    server.pc \in {"waiting", "down"} =>
        /\ \A r \in Reader : reader[r].pc \in Ended \cup {"idle"}
        /\ ~contested => \A r \in Reader : Active(r) => server.waitFor = r

(* What a merger knows of the row and of the blob, from its start to its    *)
(* last statement.                                                         *)
MergerKnows(r) ==
    /\ merger[r] \in {"opening", "copying", "upload", "mark", "reset"} => ~loc.merged
    /\ merger[r] \in {"copying", "upload"} /\ ~AtomicPut => link = r
    /\ merger[r] = "mark" => blob = "whole"
    /\ merger[r] \in {"flag", "delete"} => loc.merged

(* What a download knows: who goes for the blob does so when it is whole.   *)
ReaderKnows(r) ==
    /\ reader[r].pc \in {"open", "openBlob", "view"} => loc.merged
    /\ reader[r].pc = "view" => r \in sound
    /\ reader[r].pc = "short" => merger[r] = "none" /\ loc.merged

Undisturbed ==
    /\ loc.merged => blob = "whole"
    /\ ~loc.merged => parts = Index
    /\ partsJob # "idle" => loc.merged
    /\ \A r \in Reader : MergerKnows(r)
    /\ \A r \in Reader : ReaderKnows(r)

Shape ==
    TypeOK /\ AloneRegistered /\ MergerOfLeader /\ UploadIsComplete /\ FolderAfterRow

MergeInv == Shape /\ WaitsForTheMerge /\ (loc.live /\ ~contested => Undisturbed)

LEMMA StartKept == Init => MergeInv
<1> SUFFICES ASSUME Init PROVE MergeInv
    OBVIOUS
<1>1. TypeOK
    BY TypedStart
<1>2. \A r \in Reader : reader[r].pc = "idle" /\ merger[r] = "none" /\ ~Active(r)
    BY DEF Init, Active
<1>3. ~loc.merged /\ parts = Index /\ partsJob = "idle" /\ remover = "idle" /\ server.pc = "up"
    BY DEF Init
<1>4. QED
    BY <1>1, <1>2, <1>3 DEF MergeInv, Shape, AloneRegistered, MergerOfLeader,
       UploadIsComplete, FolderAfterRow, WaitsForTheMerge, Undisturbed, MergerKnows,
       ReaderKnows

-----------------------------------------------------------------------------
(* The steps of a download. *)

(* The request only goes on; its merger and the row stay as they are.       *)
LEMMA RequestMoves ==
    ASSUME MergeInv, TypeOK', NEW r \in Reader, NEW pc \in ReaderPCs,
           reader[r].pc \notin Ended, reader[r].pc # "idle" \/ Up,
           \A q \in Reader \ {r} : reader'[q] = reader[q],
           reader'[r].pc = pc,
           reader[r].next = NumParts => reader'[r].next = NumParts,
           pc \in BeforeLeading => reader[r].pc \in BeforeLeading,
           \A q \in Reader \ {r} : (q \in sound') = (q \in sound),
           loc.live /\ ~contested =>
               /\ pc \in {"open", "openBlob", "view"} => loc.merged
               /\ pc = "view" => r \in sound'
               /\ pc = "short" => merger[r] = "none" /\ loc.merged,
           UNCHANGED <<loc, parts, blob, link, work, jobs>>
    PROVE  MergeInv'
<1> USE DEF MergeInv, work, jobs
<1>1. AloneRegistered' /\ FolderAfterRow'
    BY DEF Shape, AloneRegistered, FolderAfterRow, Active
<1>2. MergerOfLeader'
    BY DEF Shape, MergerOfLeader
<1>3. UploadIsComplete'
    BY DEF Shape, UploadIsComplete, Streamed
<1>4. WaitsForTheMerge'
    BY DEF WaitsForTheMerge, Up, Active
<1>5. loc.live /\ ~contested /\ Undisturbed => Undisturbed'
    <2> SUFFICES ASSUME loc.live, ~contested, Undisturbed PROVE Undisturbed'
        OBVIOUS
    <2>1. \A q \in Reader : MergerKnows(q)'
        BY DEF Undisturbed, MergerKnows
    <2>2. \A q \in Reader : ReaderKnows(q)'
        BY DEF Undisturbed, ReaderKnows
    <2>3. QED  BY <2>1, <2>2 DEF Undisturbed
<1>6. QED  BY <1>1, <1>2, <1>3, <1>4, <1>5 DEF Shape

LEMMA LoopFacts ==
    ASSUME TypeOK, MergeInv, NEW r \in Reader
    PROVE  /\ reader[r].pc \in ReaderPCs
           /\ loc.live /\ ~contested => MergerKnows(r) /\ ReaderKnows(r)
BY DEF TypeOK, MergeInv, Undisturbed

LEMMA RequestGoes ==
    ASSUME MergeInv, TypeOK', NEW r \in Reader, NEW pc \in ReaderPCs,
           reader[r].pc \notin Ended, reader[r].pc # "idle" \/ Up,
           Goto(r, pc),
           pc \in BeforeLeading => reader[r].pc \in BeforeLeading,
           \A q \in Reader \ {r} : (q \in sound') = (q \in sound),
           loc.live /\ ~contested =>
               /\ pc \in {"open", "openBlob", "view"} => loc.merged
               /\ pc = "view" => r \in sound'
               /\ pc = "short" => merger[r] = "none" /\ loc.merged,
           UNCHANGED <<loc, parts, blob, link, work, jobs>>
    PROVE  MergeInv'
<1>1. TypeOK
    BY DEF MergeInv, Shape
<1>2. /\ \A q \in Reader \ {r} : reader'[q] = reader[q]
      /\ reader'[r].pc = pc /\ reader'[r].next = reader[r].next
    BY <1>1 DEF TypeOK, Goto
<1>3. QED  BY <1>2, RequestMoves

(* A part that is not there: of a location that stays, because it is merged. *)
LEMMA PartStreamed ==
    ASSUME MergeInv, TypeOK', NEW r \in Reader, StreamPart(r), ~Streamed(r),
           \/ reader[r].pc = "follow"
           \/ reader[r].pc = "lead" /\ merger[r] = "copying",
           UNCHANGED <<loc, disk, work, jobs>>
    PROVE  MergeInv'
<1> USE DEF disk
<1>1. TypeOK
    BY DEF MergeInv, Shape
<1>2. CASE reader[r].next \in parts
    BY <1>1, <1>2, StreamedPart, RequestMoves, LoopFacts
    DEF ReaderKnows, ReaderPCs, Ended, BeforeLeading, Streamed
<1>3. CASE reader[r].next \notin parts
    <2>1. parts # Index /\ reader'[r].pc = "short"
        BY <1>1, <1>3, StreamedPart
    <2>2. loc.live /\ ~contested => loc.merged
        BY <2>1 DEF MergeInv, Undisturbed
    <2>3. loc.live /\ ~contested => merger[r] = "none"
        BY <1>1, <2>2, LoopFacts DEF MergerKnows, MergeInv, Shape, MergerOfLeader, BeforeLeading
    <2>4. QED
        BY <1>1, <2>1, <2>2, <2>3, StreamedPart, RequestMoves
        DEF ReaderPCs, Ended, BeforeLeading, Streamed
<1>4. QED  BY <1>2, <1>3

LEMMA MergeStarted ==
    ASSUME MergeInv, TypeOK', NEW r \in Reader, StartMerge(r)
    PROVE  MergeInv'
<1> USE DEF StartMerge, Goto, MergerGoto, disk, jobs
<1>1. TypeOK
    BY DEF MergeInv, Shape
<1>2. \A q \in Reader : /\ reader'[q].pc = IF q = r THEN "lead" ELSE reader[q].pc
                        /\ reader'[q].next = reader[q].next
                        /\ merger'[q] = IF q = r THEN "opening" ELSE merger[q]
    BY <1>1 DEF TypeOK
<1>3. /\ loc'.live = loc.live
      /\ loc'.merged = loc.merged
    BY <1>1 DEF TypeOK, UpdateStorageMergeStarted, SetLoc
<1>4. ~contested' => ~contested /\ ~loc.merged /\ \A q \in Reader : ~Active(q)
    OBVIOUS
<1>5. AloneRegistered'
    BY <1>2, <1>4 DEF AloneRegistered, Active
<1>6. MergerOfLeader' /\ UploadIsComplete' /\ FolderAfterRow'
    BY <1>2, <1>3 DEF MergeInv, Shape, MergerOfLeader, UploadIsComplete, FolderAfterRow,
       BeforeLeading, Streamed
<1>7. WaitsForTheMerge'
    BY <1>2 DEF MergeInv, WaitsForTheMerge, Ended
<1>8. loc'.live /\ ~contested' => Undisturbed'
    <2> SUFFICES ASSUME loc'.live, ~contested' PROVE Undisturbed'
        OBVIOUS
    <2>1. Undisturbed /\ ~loc.merged
        BY <1>3, <1>4 DEF MergeInv
    <2>2. \A q \in Reader : MergerKnows(q)'
        BY <2>1, <1>2, <1>3, <1>4 DEF MergerKnows, Active, TypeOK, MergerPCs
    <2>3. \A q \in Reader : ReaderKnows(q)'
        BY <2>1, <1>2, <1>3 DEF ReaderKnows, Undisturbed
    <2>4. QED  BY <2>1, <2>2, <2>3, <1>3 DEF Undisturbed
<1>9. QED  BY <1>5, <1>6, <1>7, <1>8 DEF MergeInv, Shape

LEMMA BlobOpened ==
    ASSUME MergeInv, TypeOK', NEW r \in Reader, NEW orElse \in {"lookup", "missing"},
           reader[r].pc \in {"open", "openBlob"}, OpenBlob(r, orElse),
           UNCHANGED <<loc, parts, blob, link, work, jobs>>
    PROVE  MergeInv'
<1> USE DEF Ended, ReaderPCs, BeforeLeading
<1>1. loc.live /\ ~contested => loc.merged /\ blob = "whole"
    BY LoopFacts DEF MergeInv, Shape, Undisturbed, ReaderKnows
<1>2. CASE blob = "absent"
    BY <1>2, RequestGoes DEF OpenBlob
<1>3. CASE blob # "absent"
    <2>1. \A q \in Reader \ {r} : (q \in sound') = (q \in sound)
        BY <1>3 DEF OpenBlob
    <2>2. Goto(r, "view") /\ (loc.live /\ ~contested => r \in sound')
        BY <1>1, <1>3 DEF OpenBlob
    <2>3. QED  BY <1>1, <2>1, <2>2, RequestGoes
<1>4. QED  BY <1>2, <1>3

LEMMA ReaderKeeps ==
    ASSUME MergeInv, TypeOK', NEW r \in Reader, ReaderStep(r) \/ Leave(r) \/ RequestFails(r)
    PROVE  MergeInv'
<1> USE RequestGoes DEF disk, Ended, ReaderPCs, BeforeLeading
<1>1. TypeOK
    BY DEF MergeInv, Shape
<1>2. loc.live /\ ~contested => MergerKnows(r) /\ ReaderKnows(r)
    BY <1>1, LoopFacts
<1> HIDE DEF MergeInv
<1>3. CASE OpenMergedSeekable(r)
    BY <1>3 DEF OpenMergedSeekable
<1>4. CASE OpenSeekable(r)
    BY <1>4, BlobOpened DEF OpenSeekable
<1>5. CASE FindCacheEntryWithLocation(r)
    <2>1. \E pc \in {"missing", "openBlob", "follow", "check"} :
             Goto(r, pc) /\ (pc = "openBlob" => loc.merged)
        BY <1>1, <1>5 DEF FindCacheEntryWithLocation, TypeOK
    <2>2. QED  BY <1>5, <2>1 DEF FindCacheEntryWithLocation
<1>6. CASE CreateDownloadStream(r)
    BY <1>6, BlobOpened DEF CreateDownloadStream
<1>7. CASE SendBlob(r)
    <2>1. \A q \in Reader \ {r} : (q \in sound') = (q \in sound)
        BY <1>7 DEF SendBlob
    <2>2. \E pc \in {"full", "short"} : Goto(r, pc) /\ (pc = "short" => r \notin sound)
        BY <1>7 DEF SendBlob
    <2>3. QED  BY <1>2, <1>7, <2>1, <2>2 DEF SendBlob, ReaderKnows
<1>8. CASE FollowPart(r)
    BY <1>8, PartStreamed DEF FollowPart
<1>9. CASE FollowEnd(r)
    BY <1>9 DEF FollowEnd
<1>10. CASE EnsurePartsExist(r)
    BY <1>10 DEF EnsurePartsExist
<1>11. CASE StartMerge(r)
    BY <1>11, MergeStarted
<1>12. CASE LeadPart(r)
    BY <1>12, PartStreamed DEF LeadPart
<1>13. CASE LeadEnd(r)
    BY <1>13 DEF LeadEnd
<1>14. CASE Leave(r)
    BY <1>14 DEF Leave
<1>15. CASE RequestFails(r)
    BY <1>15 DEF RequestFails
<1>16. QED
    BY <1>3, <1>4, <1>5, <1>6, <1>7, <1>8, <1>9, <1>10, <1>11, <1>12, <1>13, <1>14, <1>15
    DEF ReaderStep

-----------------------------------------------------------------------------
(* The steps of a merger. *)

(* The merger moves on or ends; the requests and the jobs stay as they are. *)
LEMMA MergerMoves ==
    ASSUME MergeInv, TypeOK', NEW r \in Reader, Active(r), NEW pc \in MergerPCs,
           MergerGoto(r, pc), pc \notin {"none", "opening"},
           pc = "upload" => Streamed(r),
           pc = "done" => registered' = NoReader,
           pc # "done" => UNCHANGED registered,
           UNCHANGED <<reader, contested, jobs>>,
           loc'.live => loc.live,
           loc.live /\ ~contested => Undisturbed'
    PROVE  MergeInv'
<1> USE DEF MergerGoto, jobs
<1>1. TypeOK
    BY DEF MergeInv, Shape
<1>2. \A q \in Reader : merger'[q] = IF q = r THEN pc ELSE merger[q]
    BY <1>1 DEF TypeOK
<1>3. ~contested => \A q \in Reader : Active(q) => q = r
    BY DEF MergeInv, Shape, AloneRegistered
<1>4. AloneRegistered'
    BY <1>2, <1>3 DEF MergeInv, Shape, AloneRegistered, Active
<1>5. MergerOfLeader'
    BY <1>2 DEF MergeInv, Shape, MergerOfLeader, Active
<1>6. UploadIsComplete' /\ FolderAfterRow'
    BY <1>1, <1>2 DEF MergeInv, Shape, UploadIsComplete, FolderAfterRow, Streamed, TypeOK
<1>7. WaitsForTheMerge'
    BY <1>2 DEF MergeInv, WaitsForTheMerge, Active
<1>8. QED  BY <1>4, <1>5, <1>6, <1>7 DEF MergeInv, Shape

(* What stays undisturbed when the merger that is alone moves on.           *)
LEMMA AloneMoves ==
    ASSUME MergeInv, loc.live, ~contested, NEW r \in Reader, Active(r),
           NEW pc \in MergerPCs, MergerGoto(r, pc), UNCHANGED <<reader, partsJob>>,
           blob' # blob \/ sound' # sound => ~loc.merged,
           loc.merged => loc'.merged,
           loc'.merged => blob' = "whole",
           ~loc'.merged => UNCHANGED parts,
           MergerKnows(r)'
    PROVE  Undisturbed'
<1>1. TypeOK /\ Undisturbed
    BY DEF MergeInv, Shape
<1>2. \A q \in Reader : merger'[q] = IF q = r THEN pc ELSE merger[q]
    BY <1>1 DEF MergerGoto, TypeOK
<1>3. \A q \in Reader : Active(q) => q = r
    BY DEF MergeInv, Shape, AloneRegistered
<1>4. \A q \in Reader : MergerKnows(q)'
    BY <1>1, <1>2, <1>3 DEF MergerKnows, Active
<1>5. \A q \in Reader : ReaderKnows(q)'
    BY <1>1, <1>2 DEF Undisturbed, ReaderKnows, Active
<1>6. QED  BY <1>1, <1>4, <1>5 DEF Undisturbed

LEMMA MergerKeeps ==
    ASSUME MergeInv, TypeOK', NEW r \in Reader,
           MergerStep(r) \/ StoreFails(r) \/ StatementFails(r)
    PROVE  MergeInv'
<1> USE DEF jobs, disk
<1>1. TypeOK /\ UploadIsComplete
    BY DEF MergeInv, Shape
<1>2. loc.live /\ ~contested => MergerKnows(r) /\ Undisturbed
    BY <1>1, LoopFacts DEF MergeInv
<1>3. ASSUME NEW pc \in MergerPCs, MergerGoto(r, pc)
      PROVE  merger'[r] = pc
    BY <1>1, <1>3 DEF MergerGoto, TypeOK
<1>4. CASE OpenMerged(r)
    <2>1. Active(r) /\ MergerGoto(r, "copying") /\ merger[r] = "opening"
        BY <1>4 DEF OpenMerged, Active
    <2>2. loc.live /\ ~contested => Undisturbed'
        <3> SUFFICES ASSUME loc.live, ~contested PROVE Undisturbed'
            OBVIOUS
        <3>1. ~loc.merged
            BY <1>2, <2>1 DEF MergerKnows
        <3>2. MergerKnows(r)'
            BY <1>3, <1>4, <2>1, <3>1 DEF OpenMerged, MergerKnows, MergerPCs
        <3>3. QED  BY <1>4, <2>1, <3>1, <3>2, AloneMoves DEF OpenMerged, MergerPCs
    <2>3. QED  BY <1>4, <2>1, <2>2, MergerMoves DEF OpenMerged, MergerPCs
<1>5. CASE CopyEnds(r)
    <2>1. PICK pc \in {"upload", "reset"} :
              MergerGoto(r, pc) /\ (pc = "upload" => Streamed(r))
        BY <1>5 DEF CopyEnds
    <2>2. Active(r) /\ merger[r] = "copying"
        BY <1>5 DEF CopyEnds, Active
    <2>3. loc.live /\ ~contested => Undisturbed'
        <3> SUFFICES ASSUME loc.live, ~contested PROVE Undisturbed'
            OBVIOUS
        <3>1. MergerKnows(r)'
            BY <1>2, <1>3, <1>5, <2>1, <2>2 DEF CopyEnds, MergerKnows, MergerPCs
        <3>2. QED
            BY <1>2, <1>5, <2>1, <2>2, <3>1, AloneMoves
            DEF CopyEnds, MergerPCs, Undisturbed
    <2>4. QED  BY <1>5, <2>1, <2>2, <2>3, MergerMoves DEF CopyEnds, MergerPCs
<1>6. CASE StoreBlob(r)
    <2>1. Active(r) /\ MergerGoto(r, "mark") /\ merger[r] = "upload"
        BY <1>6 DEF StoreBlob, Active
    <2>2. loc.live /\ ~contested => Undisturbed'
        <3> SUFFICES ASSUME loc.live, ~contested PROVE Undisturbed'
            OBVIOUS
        <3>1. ~loc.merged /\ blob' = "whole"
            BY <1>1, <1>2, <1>6, <2>1 DEF StoreBlob, MergerKnows, UploadIsComplete
        <3>2. MergerKnows(r)'
            BY <1>3, <1>6, <2>1, <3>1 DEF StoreBlob, MergerKnows, MergerPCs
        <3>3. QED  BY <1>6, <2>1, <3>1, <3>2, AloneMoves DEF StoreBlob, MergerPCs
    <2>3. QED  BY <1>6, <2>1, <2>2, MergerMoves DEF StoreBlob, MergerPCs
<1>7. CASE ResetMerge(r)
    <2>1. Active(r) /\ MergerGoto(r, "done") /\ merger[r] = "reset"
        BY <1>7 DEF ResetMerge, MergerEnds, Active
    <2>2. loc'.live = loc.live /\ (loc'.merged => loc.merged)
        BY <1>1, <1>7 DEF ResetMerge, ResetStorageMerge, SetLoc, TypeOK
    <2>3. loc.live /\ ~contested => Undisturbed'
        <3> SUFFICES ASSUME loc.live, ~contested PROVE Undisturbed'
            OBVIOUS
        <3>1. ~loc.merged
            BY <1>2, <2>1 DEF MergerKnows
        <3>2. MergerKnows(r)'
            BY <1>3, <1>7, <2>1 DEF MergerKnows, MergerPCs
        <3>3. QED  BY <1>7, <2>1, <2>2, <3>1, <3>2, AloneMoves DEF ResetMerge, MergerPCs
    <2>4. QED  BY <1>7, <2>1, <2>2, <2>3, MergerMoves DEF ResetMerge, MergerEnds, MergerPCs
<1>8. CASE MarkMerged(r)
    <2>1. Active(r) /\ MergerGoto(r, "flag") /\ merger[r] = "mark"
        BY <1>8 DEF MarkMerged, Active
    <2>2. loc'.live = loc.live /\ (loc.live => loc'.merged)
        BY <1>1, <1>8 DEF MarkMerged, UpdateStorageMerged, SetLoc, TypeOK
    <2>3. loc.live /\ ~contested => Undisturbed'
        <3> SUFFICES ASSUME loc.live, ~contested PROVE Undisturbed'
            OBVIOUS
        <3>1. blob = "whole"
            BY <1>2, <2>1 DEF MergerKnows
        <3>2. MergerKnows(r)'
            BY <1>3, <1>8, <2>1, <2>2 DEF MergerKnows, MergerPCs
        <3>3. QED  BY <1>8, <2>1, <2>2, <3>1, <3>2, AloneMoves DEF MarkMerged, MergerPCs
    <2>4. QED  BY <1>8, <2>1, <2>2, <2>3, MergerMoves DEF MarkMerged, MergerPCs
<1>9. CASE FlagPartsDeleted(r)
    <2>1. Active(r) /\ MergerGoto(r, "delete") /\ merger[r] = "flag"
        BY <1>9 DEF FlagPartsDeleted, Active
    <2>2. loc'.live = loc.live /\ loc'.merged = loc.merged
        BY <1>1, <1>9 DEF FlagPartsDeleted, UpdateStoragePartsDeleted, SetLoc, TypeOK
    <2>3. loc.live /\ ~contested => Undisturbed'
        <3> SUFFICES ASSUME loc.live, ~contested PROVE Undisturbed'
            OBVIOUS
        <3>1. MergerKnows(r)'
            BY <1>2, <1>3, <1>9, <2>1, <2>2 DEF MergerKnows, MergerPCs
        <3>2. QED
            BY <1>2, <1>9, <2>1, <2>2, <3>1, AloneMoves
            DEF FlagPartsDeleted, MergerPCs, Undisturbed
    <2>4. QED  BY <1>9, <2>1, <2>2, <2>3, MergerMoves DEF FlagPartsDeleted, MergerPCs
<1>10. CASE DeleteParts(r)
    <2>1. Active(r) /\ MergerGoto(r, "done") /\ merger[r] = "delete"
        BY <1>10 DEF DeleteParts, MergerEnds, Active
    <2>2. loc.live /\ ~contested => Undisturbed'
        <3> SUFFICES ASSUME loc.live, ~contested PROVE Undisturbed'
            OBVIOUS
        <3>1. loc.merged /\ blob = "whole"
            BY <1>2, <2>1 DEF MergerKnows, Undisturbed
        <3>2. MergerKnows(r)'
            BY <1>3, <1>10, <2>1 DEF MergerKnows, MergerPCs
        <3>3. QED  BY <1>10, <2>1, <3>1, <3>2, AloneMoves DEF DeleteParts, MergerPCs
    <2>3. QED  BY <1>10, <2>1, <2>2, MergerMoves DEF DeleteParts, MergerEnds, MergerPCs
<1>11. CASE StoreFails(r)
    <2>1. /\ Active(r) /\ MergerGoto(r, "reset")
          /\ merger[r] \in {"opening", "copying", "upload"}
        BY <1>11 DEF StoreFails, Active
    <2>2. loc.live /\ ~contested => Undisturbed'
        <3> SUFFICES ASSUME loc.live, ~contested PROVE Undisturbed'
            OBVIOUS
        <3>1. MergerKnows(r)'
            BY <1>2, <1>3, <1>11, <2>1 DEF StoreFails, MergerKnows, MergerPCs
        <3>2. QED
            BY <1>2, <1>11, <2>1, <3>1, AloneMoves DEF StoreFails, MergerPCs, Undisturbed
    <2>3. QED  BY <1>11, <2>1, <2>2, MergerMoves DEF StoreFails, MergerPCs
<1>12. CASE StatementFails(r)
    <2>1. PICK pc \in {"done", "delete"} :
              /\ MergerGoto(r, pc)
              /\ pc = "done" => registered' = NoReader
              /\ pc = "delete" => merger[r] = "flag" /\ UNCHANGED registered
        BY <1>12 DEF StatementFails, MergerEnds
    <2>2. Active(r)
        BY <1>12 DEF StatementFails, Active
    <2>3. loc.live /\ ~contested => Undisturbed'
        <3> SUFFICES ASSUME loc.live, ~contested PROVE Undisturbed'
            OBVIOUS
        <3>1. MergerKnows(r)'
            BY <1>2, <1>3, <1>12, <2>1 DEF StatementFails, MergerKnows, MergerPCs
        <3>2. QED
            BY <1>2, <1>12, <2>1, <2>2, <3>1, AloneMoves
            DEF StatementFails, MergerPCs, Undisturbed
    <2>4. QED  BY <1>12, <2>1, <2>2, <2>3, MergerMoves DEF StatementFails, MergerPCs
<1>13. QED
    BY <1>4, <1>5, <1>6, <1>7, <1>8, <1>9, <1>10, <1>11, <1>12 DEF MergerStep

-----------------------------------------------------------------------------
(* The steps of the jobs and of the process. *)

(* A job leaves the goroutines alone, and of a location that stays all but  *)
(* the parts of a merged one.                                              *)
LEMMA JobLeaves ==
    ASSUME MergeInv, TypeOK', UNCHANGED <<reader, work, sound, server>>,
           loc'.live => loc.live,
           remover' = "folder" => ~loc'.live,
           loc'.live => UNCHANGED <<blob, link>> /\ loc'.merged = loc.merged,
           loc'.live /\ partsJob' # "idle" => partsJob # "idle" \/ loc.merged,
           loc'.live /\ parts' # parts => partsJob # "idle"
    PROVE  MergeInv'
<1> USE DEF work
<1>1. AloneRegistered' /\ MergerOfLeader' /\ UploadIsComplete' /\ FolderAfterRow'
    BY DEF MergeInv, Shape, AloneRegistered, MergerOfLeader, UploadIsComplete,
       FolderAfterRow, Active, Streamed
<1>2. WaitsForTheMerge'
    BY DEF MergeInv, WaitsForTheMerge, Active
<1>3. loc'.live /\ ~contested' => Undisturbed'
    BY DEF MergeInv, Undisturbed, MergerKnows, ReaderKnows
<1>4. QED  BY <1>1, <1>2, <1>3 DEF MergeInv, Shape

LEMMA JobKeeps ==
    ASSUME MergeInv, TypeOK', Stall \/ JobStep
    PROVE  MergeInv'
<1> USE DEF disk, jobs
<1>1. TypeOK /\ FolderAfterRow
    BY DEF MergeInv, Shape
<1>2. CASE Stall
    BY <1>1, <1>2, JobLeaves DEF Stall, TypeOK, FolderAfterRow
<1>3. CASE ResetStalledMerges
    <2>1. loc'.live = loc.live /\ loc'.merged = loc.merged
        BY <1>1, <1>3 DEF ResetStalledMerges, ResetStorageMerge, SetLoc, TypeOK
    <2>2. QED  BY <1>1, <1>3, <2>1, JobLeaves DEF ResetStalledMerges, FolderAfterRow
<1>4. CASE ListMergedNotCleaned
    BY <1>1, <1>4, JobLeaves DEF ListMergedNotCleaned, FolderAfterRow
<1>5. CASE CleanupPartsFlag
    <2>1. loc'.live = loc.live /\ loc'.merged = loc.merged
        BY <1>1, <1>5 DEF CleanupPartsFlag, UpdateStoragePartsDeleted, SetLoc, TypeOK
    <2>2. QED  BY <1>1, <1>5, <2>1, JobLeaves DEF CleanupPartsFlag, FolderAfterRow
<1>6. CASE CleanupPartsDelete
    BY <1>1, <1>6, JobLeaves DEF CleanupPartsDelete, FolderAfterRow
<1>7. CASE ListVictim
    BY <1>1, <1>7, JobLeaves DEF ListVictim, FolderAfterRow
<1>8. CASE RemoveRow
    BY <1>1, <1>8, JobLeaves DEF RemoveRow, TypeOK
<1>9. CASE RemoveFolder
    BY <1>1, <1>9, JobLeaves DEF RemoveFolder, FolderAfterRow
<1>10. CASE CancelJobs
    BY <1>1, <1>10, JobLeaves DEF CancelJobs, FolderAfterRow
<1>11. QED
    BY <1>2, <1>3, <1>4, <1>5, <1>6, <1>7, <1>8, <1>9, <1>10 DEF JobStep

(* With the process its goroutines are gone; row and files stay.            *)
LEMMA KilledKeeps ==
    ASSUME MergeInv, TypeOK', Killed, remover' = "folder" => remover = "folder"
    PROVE  MergeInv'
<1>1. TypeOK
    BY DEF MergeInv, Shape
<1>2. \A r \in Reader : /\ ~Active(r)' /\ reader'[r].next = reader[r].next
                        /\ reader'[r].pc \in Ended \cup {"idle"}
                        /\ reader'[r].pc = "idle" => reader[r].pc = "idle"
                        /\ reader'[r].pc = "short" => reader[r].pc = "short"
                        /\ merger[r] = "none" => merger'[r] = "none"
    BY <1>1, KilledStates DEF Ended
<1>3. MergerOfLeader'
    BY <1>2 DEF MergeInv, Shape, MergerOfLeader, Ended, BeforeLeading
<1>4. AloneRegistered' /\ UploadIsComplete' /\ FolderAfterRow' /\ WaitsForTheMerge'
    BY <1>2 DEF MergeInv, Shape, AloneRegistered, UploadIsComplete, FolderAfterRow,
       WaitsForTheMerge, Active, Killed
<1>5. loc'.live /\ ~contested' => Undisturbed'
    <2> SUFFICES ASSUME loc'.live, ~contested' PROVE Undisturbed'
        OBVIOUS
    <2>1. Undisturbed /\ UNCHANGED <<loc, parts, blob>> /\ partsJob' = "idle"
        BY DEF MergeInv, Killed
    <2>2. \A r \in Reader : MergerKnows(r)'
        BY <1>2 DEF MergerKnows, Active
    <2>3. \A r \in Reader : ReaderKnows(r)'
        BY <1>2, <2>1 DEF Undisturbed, ReaderKnows, Ended
    <2>4. QED  BY <2>1, <2>2, <2>3 DEF Undisturbed
<1>6. QED  BY <1>3, <1>4, <1>5 DEF MergeInv, Shape

LEMMA ProcessKeeps ==
    ASSUME MergeInv, TypeOK', Crash \/ Shutdown \/ WaitForOngoingMerges \/ Exit
    PROVE  MergeInv'
<1>1. CASE Crash
    BY <1>1, KilledKeeps DEF Crash
<1>2. CASE Exit
    BY <1>2, KilledKeeps DEF Exit
<1>3. ASSUME UNCHANGED <<loc, disk, reader, work, partsJob, remover>>, WaitsForTheMerge'
      PROVE  MergeInv'
    BY <1>3 DEF MergeInv, Shape, AloneRegistered, MergerOfLeader, UploadIsComplete,
       FolderAfterRow, Undisturbed, MergerKnows, ReaderKnows, Active, Streamed, work, disk
<1>4. CASE Shutdown
    <2>1. server'.pc = "draining"
        BY <1>4 DEF Shutdown, MergeInv, Shape, TypeOK
    <2>2. WaitsForTheMerge'
        BY <2>1 DEF WaitsForTheMerge
    <2>3. QED  BY <1>3, <1>4, <2>2 DEF Shutdown
<1>5. CASE WaitForOngoingMerges
    <2>1. WaitsForTheMerge'
        BY <1>5 DEF WaitForOngoingMerges, WaitsForTheMerge, MergeInv, Shape,
           AloneRegistered, Active, work
    <2>2. QED  BY <1>3, <1>5, <2>1 DEF WaitForOngoingMerges
<1>6. QED  BY <1>1, <1>2, <1>4, <1>5

LEMMA StepKept == MergeInv /\ [Next]_vars => MergeInv'
<1> SUFFICES ASSUME MergeInv, [Next]_vars PROVE MergeInv'
    OBVIOUS
<1>1. TypeOK'
    BY StepTyped DEF MergeInv, Shape
<1>2. CASE UNCHANGED vars
    BY <1>2 DEF vars, disk, work, jobs, MergeInv, Shape, TypeOK, AloneRegistered,
       MergerOfLeader, UploadIsComplete, FolderAfterRow, WaitsForTheMerge, Undisturbed,
       MergerKnows, ReaderKnows, Active, Streamed
<1>3. QED
    BY <1>1, <1>2, ReaderKeeps, MergerKeeps, JobKeeps, ProcessKeeps DEF Next, Rest

(* The location through its merge, for as long as no second one is started. *)
THEOREM MergeFollowed == Spec => []MergeInv
BY StartKept, StepKept, PTL DEF Spec

(* No download, merge failure, crash, reset of a stalled merge or cleanup   *)
(* of parts loses the data of a location, nor is mergedAt set over a blob   *)
(* that is not whole, unless a merge is started beside or after another.    *)
THEOREM MergesAreSafe == Spec => []MergeSafe
<1>1. MergeInv => MergeSafe
    BY DEF MergeInv, Undisturbed, MergeSafe, DataKept, MergedIsWhole
<1>2. QED  BY <1>1, MergeFollowed, PTL

(* Only a download that follows the merge of another one is cut short.      *)
THEOREM LeadersGetEverything == Spec => []OnlyFollowersCut
<1>1. MergeInv => OnlyFollowersCut
    BY DEF MergeInv, Undisturbed, ReaderKnows, OnlyFollowersCut
<1>2. QED  BY <1>1, MergeFollowed, PTL

(* The process does not exit under a merge that runs alone: the one that    *)
(* main found in the map when no request was left is the one there is.      *)
THEOREM ShutdownWaits == Spec => ShutdownWaitsForTheMerge
<1>1. MergeInv /\ [Next]_vars => [Exit /\ ~contested => \A r \in Reader : ~Active(r)]_vars
    BY ReaderAssumption DEF MergeInv, WaitsForTheMerge, Exit, WaitOver
<1>2. QED  BY <1>1, MergeFollowed, PTL DEF Spec, ShutdownWaitsForTheMerge
=============================================================================

----------------------------- MODULE FrameStore -----------------------------
(***************************************************************************)
(* Captured frames (frame_store.py): the bytes are a file, the metadata a  *)
(* row in SQLite, and every function runs in a thread of its own, so the   *)
(* two halves of one operation interleave with those of any other.  The    *)
(* functions are followed from one file or database operation to the next; *)
(* each database statement is a transaction and is one action.             *)
(*                                                                         *)
(* A frame has one writer: the capture that saves it, and then the plate   *)
(* solves of the same run (or upload), which write WCS headers into it one *)
(* after the other.  Its content is a version number; a file that is being *)
(* written, or whose write was cut short, is Torn.  The client is the one  *)
(* the tools' descriptions ask for: it confirms a frame after comparing    *)
(* the bytes it got with the checksum it was told.                         *)
(*                                                                         *)
(* Bounds: MaxVersions of a frame, MaxRestarts of the service; each call   *)
(* in Cleaners deletes or purges once.                                     *)
(***************************************************************************)
EXTENDS Integers

CONSTANTS Frames,        \* frame ids; a fresh uuid is never used again
          Cleaners,      \* calls of delete_frame and purge_transferred_frames
          MaxVersions,
          MaxRestarts

ASSUME BoundsAssumption == MaxVersions \in Nat \ {0} /\ MaxRestarts \in Nat

Versions == 1..MaxVersions
NoFile == 0
Torn == -1
Contents == Versions \cup {NoFile, Torn}

VARIABLES
  file,        \* file[f]: the content of the frame's file
  row,         \* row[f]: checksum_sha256 (that of the version sum) and transferred_at
  writer,      \* writer[f]: where the writer is, and the version it writes
  sound,       \* history: frames with no rewrite under way or cut short
  running,     \* frames whose run is one of this process
  client,      \* client[f]: what the client does about the frame
  copy,        \* copy[f]: the last version the client has verified, or NoFile
  cleaner,     \* cleaner[k]: where the call is, and the frames it acts on
  recorded,    \* history: frames that ever had a row
  discarded,   \* history: frames deleted with require_transferred=False
  restarts

storeVars == <<file, row>>
writerVars == <<writer, sound, running, recorded>>
clientVars == <<client, copy>>
cleanerVars == <<cleaner, discarded>>
vars == <<storeVars, writerVars, clientVars, cleanerVars, restarts>>

NoRow == [sum |-> 0, transferred |-> FALSE]
HasRow(f) == row[f].sum # 0

Writers == [at : {"none", "writing", "written", "lost", "idle", "read", "found",
                  "rewriting", "rewritten"},
            data : 0..MaxVersions]
Clients == [at : {"idle", "knows", "has"}, sum : 0..MaxVersions]
CleanerCalls == [at : {"idle", "checked", "unlinking", "done"},
                 frames : SUBSET Frames, override : BOOLEAN]

Init == /\ file = [f \in Frames |-> NoFile]
        /\ row = [f \in Frames |-> NoRow]
        /\ writer = [f \in Frames |-> [at |-> "none", data |-> 0]]
        /\ sound = {}
        /\ running = {}
        /\ client = [f \in Frames |-> [at |-> "idle", sum |-> 0]]
        /\ copy = [f \in Frames |-> NoFile]
        /\ cleaner = [k \in Cleaners |-> [at |-> "idle", frames |-> {}, override |-> FALSE]]
        /\ recorded = {}
        /\ discarded = {}
        /\ restarts = 0

Writing(f, at, data) == writer' = [writer EXCEPT ![f] = [at |-> at, data |-> data]]
FileBecomes(f, content) == file' = [file EXCEPT ![f] = content]

----------------------------------------------------------------------------
(***************************************************************************)
(* save_frame.  A write that fails (a full disk) leaves what was written;  *)
(* a row that cannot be inserted takes the file with it.                   *)
(***************************************************************************)
SaveOpensFile(f) ==
  /\ writer[f].at = "none"
  /\ Writing(f, "writing", 1)
  /\ FileBecomes(f, Torn)
  /\ running' = running \cup {f}
  /\ UNCHANGED <<row, sound, recorded, clientVars, cleanerVars, restarts>>

SaveWritesFile(f) ==
  /\ writer[f].at = "writing"
  /\ \/ Writing(f, "written", 1) /\ FileBecomes(f, 1)
     \/ Writing(f, "lost", 0) /\ UNCHANGED file
  /\ UNCHANGED <<row, sound, running, recorded, clientVars, cleanerVars, restarts>>

SaveInsertsRow(f) ==
  /\ writer[f].at = "written"
  /\ Writing(f, "idle", 0)
  /\ row' = [row EXCEPT ![f].sum = writer[f].data]
  /\ sound' = sound \cup {f}
  /\ recorded' = recorded \cup {f}
  /\ UNCHANGED <<file, running, clientVars, cleanerVars, restarts>>

SaveInsertFails(f) ==
  /\ writer[f].at = "written"
  /\ Writing(f, "lost", 0)
  /\ FileBecomes(f, NoFile)
  /\ UNCHANGED <<row, sound, running, recorded, clientVars, cleanerVars, restarts>>

(***************************************************************************)
(* write_wcs_headers and update_frame_data.  It is best effort: whatever   *)
(* fails, the run goes on and may solve the frame again.  A torn image is  *)
(* not solved.  write_bytes creates the file if it is gone by then, and    *)
(* the UPDATE changes nothing if the row is.                               *)
(***************************************************************************)
SolveReadsFile(f) ==
  /\ writer[f].at = "idle" /\ f \in running
  /\ file[f] \in 1..MaxVersions - 1
  /\ Writing(f, "read", file[f] + 1)
  /\ UNCHANGED <<storeVars, sound, running, recorded, clientVars, cleanerVars, restarts>>

UpdateFindsRow(f) ==
  /\ writer[f].at = "read"
  /\ \/ HasRow(f) /\ Writing(f, "found", writer[f].data)
     \/ Writing(f, "idle", 0)     \* no such frame, or the database fails
  /\ UNCHANGED <<storeVars, sound, running, recorded, clientVars, cleanerVars, restarts>>

UpdateOpensFile(f) ==
  /\ writer[f].at = "found"
  /\ Writing(f, "rewriting", writer[f].data)
  /\ FileBecomes(f, Torn)
  /\ sound' = sound \ {f}
  /\ UNCHANGED <<row, running, recorded, clientVars, cleanerVars, restarts>>

UpdateWritesFile(f) ==
  /\ writer[f].at = "rewriting"
  /\ \/ Writing(f, "rewritten", writer[f].data) /\ FileBecomes(f, writer[f].data)
     \/ Writing(f, "idle", 0) /\ UNCHANGED file
  /\ UNCHANGED <<row, sound, running, recorded, clientVars, cleanerVars, restarts>>

\* Mutant: an INSERT OR REPLACE instead of an UPDATE.
UpsertsRow(f) ==
  /\ writer[f].at = "rewritten"
  /\ Writing(f, "idle", 0)
  /\ row' = [row EXCEPT ![f].sum = writer[f].data]
  /\ sound' = sound \cup {f}
  /\ UNCHANGED <<file, running, recorded, clientVars, cleanerVars, restarts>>

\* Mutant: the checksum in the row is left as it was.
KeepsOldChecksum(f) ==
  /\ writer[f].at = "rewritten"
  /\ Writing(f, "idle", 0)
  /\ sound' = sound \cup {f}
  /\ UNCHANGED <<file, row, running, recorded, clientVars, cleanerVars, restarts>>

UpdateSetsRow(f) ==
  /\ writer[f].at = "rewritten"
  /\ Writing(f, "idle", 0)
  /\ row' = IF HasRow(f) THEN [row EXCEPT ![f].sum = writer[f].data] ELSE row
  /\ sound' = sound \cup {f}
  /\ UNCHANGED <<file, running, recorded, clientVars, cleanerVars, restarts>>

UpdateRowFails(f) ==
  /\ writer[f].at = "rewritten"
  /\ Writing(f, "idle", 0)
  /\ UNCHANGED <<storeVars, sound, running, recorded, clientVars, cleanerVars, restarts>>

WriterStep(f) ==
  \/ SaveOpensFile(f) \/ SaveWritesFile(f) \/ SaveInsertsRow(f) \/ SaveInsertFails(f)
  \/ SolveReadsFile(f) \/ UpdateFindsRow(f) \/ UpdateOpensFile(f)
  \/ UpdateWritesFile(f) \/ UpdateSetsRow(f) \/ UpdateRowFails(f)

----------------------------------------------------------------------------
(***************************************************************************)
(* The client: get_frame_metadata, then download_frame (which has looked   *)
(* the path up before it opens the file), then confirm_frame_transfer,     *)
(* which sets transferred_at in a row that is still there.  Bytes that     *)
(* were read across a rewrite match no checksum, like Torn ones.           *)
(***************************************************************************)
GetMetadata(f) ==
  /\ client[f].at = "idle" /\ HasRow(f)
  /\ client' = [client EXCEPT ![f] = [at |-> "knows", sum |-> row[f].sum]]
  /\ UNCHANGED <<storeVars, writerVars, copy, cleanerVars, restarts>>

DownloadFrame(f) ==
  /\ client[f].at = "knows"
  /\ IF file[f] = client[f].sum
       THEN /\ client' = [client EXCEPT ![f].at = "has"]
            /\ copy' = [copy EXCEPT ![f] = file[f]]
       ELSE /\ client' = [client EXCEPT ![f] = [at |-> "idle", sum |-> 0]]
            /\ UNCHANGED copy
  /\ UNCHANGED <<storeVars, writerVars, cleanerVars, restarts>>

\* Mutant: the confirmation is kept although the frame is gone.
ConfirmsAnyFrame(f) ==
  /\ client[f].at = "has"
  /\ client' = [client EXCEPT ![f] = [at |-> "idle", sum |-> 0]]
  /\ row' = [row EXCEPT ![f].transferred = TRUE]
  /\ UNCHANGED <<file, writerVars, copy, cleanerVars, restarts>>

ConfirmFrameTransfer(f) ==
  /\ client[f].at = "has"
  /\ client' = [client EXCEPT ![f] = [at |-> "idle", sum |-> 0]]
  /\ row' = IF HasRow(f) THEN [row EXCEPT ![f].transferred = TRUE] ELSE row
  /\ UNCHANGED <<file, writerVars, copy, cleanerVars, restarts>>

ClientStep(f) == GetMetadata(f) \/ DownloadFrame(f) \/ ConfirmFrameTransfer(f)

----------------------------------------------------------------------------
(***************************************************************************)
(* delete_frame: the row is read and checked, then deleted, then the file  *)
(* is.  A refused or unknown frame changes nothing.                        *)
(***************************************************************************)
CleanerBecomes(k, at, frames, override) ==
  cleaner' = [cleaner EXCEPT ![k] = [at |-> at, frames |-> frames, override |-> override]]

DeleteChecks(k, f, requireTransferred) ==
  /\ cleaner[k].at = "idle" /\ HasRow(f)
  /\ requireTransferred => row[f].transferred
  /\ CleanerBecomes(k, "checked", {f}, ~requireTransferred)
  /\ UNCHANGED <<storeVars, writerVars, clientVars, discarded, restarts>>

DropRows(frames) == row' = [f \in Frames |-> IF f \in frames THEN NoRow ELSE row[f]]

DeleteRow(k) ==
  /\ cleaner[k].at = "checked"
  /\ DropRows(cleaner[k].frames)
  /\ CleanerBecomes(k, "unlinking", cleaner[k].frames, FALSE)
  /\ discarded' = IF cleaner[k].override THEN discarded \cup cleaner[k].frames ELSE discarded
  /\ UNCHANGED <<file, writerVars, clientVars, restarts>>

\* The database refuses the DELETE.
DeleteRowFails(k) ==
  /\ cleaner[k].at = "checked"
  /\ CleanerBecomes(k, "done", {}, FALSE)
  /\ UNCHANGED <<storeVars, writerVars, clientVars, discarded, restarts>>

(***************************************************************************)
(* purge_transferred_frames: one DELETE ... RETURNING of the transferred   *)
(* frames whose captured_at, a reading of the wall clock, is before the    *)
(* cutoff; then the files, one at a time.                                  *)
(***************************************************************************)
\* Mutant: the frames before the cutoff, transferred or not.
OldFrames(old) == {f \in old : HasRow(f)}

Purgeable(old) == {f \in old : HasRow(f) /\ row[f].transferred}

PurgeRows(k, old) ==
  /\ cleaner[k].at = "idle" /\ Purgeable(old) # {}
  /\ DropRows(Purgeable(old))
  /\ CleanerBecomes(k, "unlinking", Purgeable(old), FALSE)
  /\ UNCHANGED <<file, writerVars, clientVars, discarded, restarts>>

\* Mutant: delete_frame removes the file first.
UnlinksFirst(k, f) ==
  /\ cleaner[k].at \in {"checked", "unlinking"} /\ f \in cleaner[k].frames
  /\ FileBecomes(f, NoFile)
  /\ cleaner' = [cleaner EXCEPT ![k].frames = @ \ {f}]
  /\ UNCHANGED <<row, writerVars, clientVars, discarded, restarts>>

Unlinks(k, f) ==
  /\ cleaner[k].at = "unlinking" /\ f \in cleaner[k].frames
  /\ FileBecomes(f, NoFile)
  /\ cleaner' = [cleaner EXCEPT ![k].frames = @ \ {f}]
  /\ UNCHANGED <<row, writerVars, clientVars, discarded, restarts>>

\* The last file is gone, or unlink raises and the rest is left.
CleanerEnds(k) ==
  /\ cleaner[k].at = "unlinking"
  /\ CleanerBecomes(k, "done", {}, FALSE)
  /\ UNCHANGED <<storeVars, writerVars, clientVars, discarded, restarts>>

CleanerStep(k) ==
  \/ \E f \in Frames, req \in BOOLEAN : DeleteChecks(k, f, req)
  \/ DeleteRow(k) \/ DeleteRowFails(k)
  \/ \E old \in SUBSET Frames : PurgeRows(k, old)
  \/ \E f \in Frames : Unlinks(k, f)
  \/ CleanerEnds(k)

----------------------------------------------------------------------------
\* The service dies and comes back: every thread is gone, and no run is resumed.
Restart ==
  /\ restarts < MaxRestarts
  /\ restarts' = restarts + 1
  /\ writer' = [f \in Frames |->
       CASE writer[f].at = "none" -> writer[f]
         [] writer[f].at \in {"writing", "written", "lost"} -> [at |-> "lost", data |-> 0]
         [] OTHER -> [at |-> "idle", data |-> 0]]
  /\ running' = {}
  /\ cleaner' = [k \in Cleaners |->
       IF cleaner[k].at = "idle" THEN cleaner[k]
                                 ELSE [at |-> "done", frames |-> {}, override |-> FALSE]]
  /\ UNCHANGED <<storeVars, sound, recorded, clientVars, discarded>>

Next == \/ \E f \in Frames : WriterStep(f) \/ ClientStep(f)
        \/ \E k \in Cleaners : CleanerStep(k)
        \/ Restart

Spec == Init /\ [][Next]_vars

----------------------------------------------------------------------------
TypeOK == /\ file \in [Frames -> Contents]
          /\ row \in [Frames -> [sum : 0..MaxVersions, transferred : BOOLEAN]]
          /\ \A f \in Frames : row[f].transferred => HasRow(f)
          /\ writer \in [Frames -> Writers]
          /\ sound \subseteq Frames /\ running \subseteq Frames
          /\ client \in [Frames -> Clients]
          /\ copy \in [Frames -> Versions \cup {NoFile}]
          /\ cleaner \in [Cleaners -> CleanerCalls]
          /\ recorded \subseteq Frames /\ discarded \subseteq Frames
          /\ restarts \in 0..MaxRestarts

(***************************************************************************)
(* A row never points to a file that is not there, whatever save, update,  *)
(* delete, purge and a crash do between their file and their row: this is  *)
(* why save_frame writes the file first and delete_frame removes it last.  *)
(***************************************************************************)
RowHasItsFile == \A f \in Frames : HasRow(f) => file[f] # NoFile

(***************************************************************************)
(* The checksum a client is given is that of the frame's file, unless a    *)
(* rewrite of the file is under way or was cut short.                      *)
(***************************************************************************)
ChecksumIsTheFiles == \A f \in sound : HasRow(f) => file[f] = row[f].sum

(***************************************************************************)
(* Unless its deletion was forced, a frame is only ever deleted when the   *)
(* client holds a complete, verified copy of it, in whatever order         *)
(* confirmations, rewrites, deletes and purges run.                        *)
(***************************************************************************)
NothingLostUnseen ==
  \A f \in recorded \ discarded : ~HasRow(f) => copy[f] # NoFile

(***************************************************************************)
(* A deleted frame does not come back, although a rewrite of it may have   *)
(* been under way.                                                         *)
(***************************************************************************)
DeletedStaysDeleted ==
  [][\A f \in recorded : ~HasRow(f) => ~HasRow(f)']_vars
=============================================================================

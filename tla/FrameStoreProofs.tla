-------------------------- MODULE FrameStoreProofs --------------------------
(***************************************************************************)
(* The safety of the frame store for any number of frames, calls, versions *)
(* and restarts.                                                           *)
(***************************************************************************)
EXTENDS FrameStore, TLAPS

Saving == {"none", "writing", "written", "lost"}
Rewriting == {"rewriting", "rewritten"}

\* A frame has had a row once its writer is past save_frame, and not before.
RecordedAgrees ==
  \A f \in Frames : /\ f \in recorded <=> writer[f].at \notin Saving
                    /\ HasRow(f) => f \in recorded

\* A writer about to touch the row knows what it wrote, and the file still has it
\* unless the frame was deleted meanwhile.
WritersAgree ==
  \A f \in Frames :
    /\ writer[f].at \in {"written", "read", "found"} \cup Rewriting => writer[f].data \in Versions
    /\ writer[f].at = "written" => file[f] = writer[f].data
    /\ writer[f].at = "rewritten" /\ HasRow(f) => file[f] = writer[f].data
    /\ writer[f].at \in Rewriting => f \notin sound

\* A cleanup removes only files of frames whose row is gone for good, and one that was
\* not forced has found its frame transferred.
CleanersAgree ==
  \A k \in Cleaners : \A f \in cleaner[k].frames :
    /\ f \in recorded
    /\ cleaner[k].at = "unlinking" => ~HasRow(f)
    /\ cleaner[k].at = "checked" /\ ~cleaner[k].override => copy[f] # NoFile

\* transferred_at says that the client has a copy, and so does its being about to confirm.
CopiesAgree ==
  \A f \in Frames : /\ row[f].transferred => copy[f] # NoFile
                    /\ client[f].at = "has" => copy[f] # NoFile
                    /\ client[f].at = "knows" => client[f].sum \in Versions

IInv == /\ TypeOK /\ RecordedAgrees /\ WritersAgree /\ CleanersAgree /\ CopiesAgree
        /\ RowHasItsFile /\ ChecksumIsTheFiles /\ NothingLostUnseen

----------------------------------------------------------------------------
\* No frame and no call has done anything yet.
LEMMA InitIInv == Init => IInv
BY BoundsAssumption
DEF Init, IInv, TypeOK, RecordedAgrees, WritersAgree, CleanersAgree, CopiesAgree,
    RowHasItsFile, ChecksumIsTheFiles, NothingLostUnseen, HasRow, NoRow, Saving, Rewriting,
    Contents, Versions, NoFile, Torn, Writers, Clients, CleanerCalls

(***************************************************************************)
(* The save and the rewrites of a frame.                                   *)
(***************************************************************************)
LEMMA WriterKeepsIInv ==
  ASSUME IInv, NEW g \in Frames, WriterStep(g)
  PROVE  IInv'
<1> USE BoundsAssumption DEF Writing, FileBecomes, HasRow, clientVars, cleanerVars, storeVars
<1>1. CASE SaveOpensFile(g)
  <2>1. TypeOK'
    BY <1>1 DEF SaveOpensFile, IInv, TypeOK, WritersAgree, Saving, Rewriting, Contents,
                Versions, NoFile, Torn, Writers
  <2>2. /\ RecordedAgrees' /\ WritersAgree' /\ CleanersAgree' /\ CopiesAgree'
        /\ RowHasItsFile' /\ ChecksumIsTheFiles' /\ NothingLostUnseen'
    BY <1>1
       DEF SaveOpensFile, IInv, TypeOK, RecordedAgrees, WritersAgree, CleanersAgree,
           CopiesAgree, RowHasItsFile, ChecksumIsTheFiles, NothingLostUnseen, Saving,
           Rewriting, NoFile, Torn, Versions
  <2> QED BY <2>1, <2>2 DEF IInv
<1>2. CASE SaveWritesFile(g)
  <2>1. CASE Writing(g, "written", 1) /\ FileBecomes(g, 1)
    <3>1. TypeOK'
      BY <1>2, <2>1
         DEF SaveWritesFile, IInv, TypeOK, WritersAgree, Saving, Rewriting, Contents, Versions,
             NoFile, Torn, Writers
    <3>2. RecordedAgrees' /\ WritersAgree'
      BY <1>2, <2>1
         DEF SaveWritesFile, IInv, TypeOK, RecordedAgrees, WritersAgree, Saving, Rewriting,
             Versions
    <3>3. CleanersAgree' /\ CopiesAgree' /\ NothingLostUnseen'
      BY <1>2, <2>1 DEF SaveWritesFile, IInv, CleanersAgree, CopiesAgree, NothingLostUnseen
    <3>4. RowHasItsFile' /\ ChecksumIsTheFiles'
      BY <1>2, <2>1
         DEF SaveWritesFile, IInv, TypeOK, RecordedAgrees, WritersAgree, RowHasItsFile,
             ChecksumIsTheFiles, Saving, Rewriting, Versions, NoFile
    <3> QED BY <3>1, <3>2, <3>3, <3>4 DEF IInv
  <2>2. CASE Writing(g, "lost", 0) /\ UNCHANGED file
    <3>1. TypeOK'
      BY <1>2, <2>2
         DEF SaveWritesFile, IInv, TypeOK, WritersAgree, Saving, Rewriting, Contents, Versions,
             NoFile, Torn, Writers
    <3>2. RecordedAgrees' /\ WritersAgree'
      BY <1>2, <2>2
         DEF SaveWritesFile, IInv, TypeOK, RecordedAgrees, WritersAgree, Saving, Rewriting,
             Versions
    <3>3. CleanersAgree' /\ CopiesAgree' /\ NothingLostUnseen'
      BY <1>2, <2>2 DEF SaveWritesFile, IInv, CleanersAgree, CopiesAgree, NothingLostUnseen
    <3>4. RowHasItsFile' /\ ChecksumIsTheFiles'
      BY <1>2, <2>2
         DEF SaveWritesFile, IInv, TypeOK, RecordedAgrees, WritersAgree, RowHasItsFile,
             ChecksumIsTheFiles, Saving, Rewriting, Versions, NoFile
    <3> QED BY <3>1, <3>2, <3>3, <3>4 DEF IInv
  <2> QED BY <1>2, <2>1, <2>2 DEF SaveWritesFile
<1>3. CASE SaveInsertsRow(g)
  <2>1. TypeOK'
    BY <1>3 DEF SaveInsertsRow, IInv, TypeOK, WritersAgree, Saving, Rewriting, Contents,
                Versions, NoFile, Torn, Writers
  <2>2. /\ RecordedAgrees' /\ WritersAgree' /\ CleanersAgree' /\ CopiesAgree'
        /\ RowHasItsFile' /\ ChecksumIsTheFiles' /\ NothingLostUnseen'
    BY <1>3
       DEF SaveInsertsRow, IInv, TypeOK, RecordedAgrees, WritersAgree, CleanersAgree,
           CopiesAgree, RowHasItsFile, ChecksumIsTheFiles, NothingLostUnseen, Saving,
           Rewriting, NoFile, Torn, Versions
  <2> QED BY <2>1, <2>2 DEF IInv
<1>4. CASE SaveInsertFails(g)
  <2>1. TypeOK'
    BY <1>4 DEF SaveInsertFails, IInv, TypeOK, WritersAgree, Saving, Rewriting, Contents,
                Versions, NoFile, Torn, Writers
  <2>2. /\ RecordedAgrees' /\ WritersAgree' /\ CleanersAgree' /\ CopiesAgree'
        /\ RowHasItsFile' /\ ChecksumIsTheFiles' /\ NothingLostUnseen'
    BY <1>4
       DEF SaveInsertFails, IInv, TypeOK, RecordedAgrees, WritersAgree, CleanersAgree,
           CopiesAgree, RowHasItsFile, ChecksumIsTheFiles, NothingLostUnseen, Saving,
           Rewriting, NoFile, Torn, Versions
  <2> QED BY <2>1, <2>2 DEF IInv
<1>5. CASE SolveReadsFile(g)
  <2>1. TypeOK'
    BY <1>5 DEF SolveReadsFile, IInv, TypeOK, WritersAgree, Saving, Rewriting, Contents,
                Versions, NoFile, Torn, Writers
  <2>2. /\ RecordedAgrees' /\ WritersAgree' /\ CleanersAgree' /\ CopiesAgree'
        /\ RowHasItsFile' /\ ChecksumIsTheFiles' /\ NothingLostUnseen'
    BY <1>5
       DEF SolveReadsFile, IInv, TypeOK, RecordedAgrees, WritersAgree, CleanersAgree,
           CopiesAgree, RowHasItsFile, ChecksumIsTheFiles, NothingLostUnseen, Saving,
           Rewriting, NoFile, Torn, Versions
  <2> QED BY <2>1, <2>2 DEF IInv
<1>6. CASE UpdateFindsRow(g)
  <2>1. TypeOK'
    <3>1. writer' \in [Frames -> Writers]
      <4>1. writer[g] \in Writers
        BY DEF IInv, TypeOK
      <4>2. [at |-> "found", data |-> writer[g].data] \in Writers
        BY <4>1 DEF Writers
      <4>3. [at |-> "idle", data |-> 0] \in Writers
        BY DEF Writers
      <4> QED BY <1>6, <4>2, <4>3 DEF UpdateFindsRow, IInv, TypeOK
    <3> QED BY <1>6, <3>1 DEF UpdateFindsRow, IInv, TypeOK
  <2>2. RecordedAgrees' /\ WritersAgree'
    <3>1. CASE HasRow(g) /\ Writing(g, "found", writer[g].data)
      BY <1>6, <3>1
         DEF UpdateFindsRow, IInv, TypeOK, RecordedAgrees, WritersAgree, Saving, Rewriting
    <3>2. CASE Writing(g, "idle", 0)
      BY <1>6, <3>2
         DEF UpdateFindsRow, IInv, TypeOK, RecordedAgrees, WritersAgree, Saving, Rewriting
    <3> QED BY <1>6, <3>1, <3>2 DEF UpdateFindsRow
  <2>3. /\ CleanersAgree' /\ CopiesAgree' /\ RowHasItsFile'
        /\ ChecksumIsTheFiles' /\ NothingLostUnseen'
    BY <1>6 DEF UpdateFindsRow, IInv, CleanersAgree, CopiesAgree, RowHasItsFile,
                ChecksumIsTheFiles, NothingLostUnseen
  <2> QED BY <2>1, <2>2, <2>3 DEF IInv
<1>7. CASE UpdateOpensFile(g)
  <2>1. TypeOK'
    BY <1>7 DEF UpdateOpensFile, IInv, TypeOK, WritersAgree, Saving, Rewriting, Contents,
                Versions, NoFile, Torn, Writers
  <2>2. RecordedAgrees' /\ WritersAgree'
    BY <1>7 DEF UpdateOpensFile, IInv, TypeOK, RecordedAgrees, WritersAgree, Saving, Rewriting,
                Versions
  <2>3. CleanersAgree' /\ CopiesAgree'
    BY <1>7 DEF UpdateOpensFile, IInv, TypeOK, WritersAgree, CleanersAgree, CopiesAgree,
                Rewriting, Versions
  <2>4. RowHasItsFile' /\ ChecksumIsTheFiles' /\ NothingLostUnseen'
    BY <1>7 DEF UpdateOpensFile, IInv, TypeOK, RecordedAgrees, WritersAgree, RowHasItsFile,
                ChecksumIsTheFiles, NothingLostUnseen, Saving, Rewriting, Versions, NoFile, Torn
  <2> QED BY <2>1, <2>2, <2>3, <2>4 DEF IInv
<1>8. CASE UpdateWritesFile(g)
  <2>1. CASE Writing(g, "rewritten", writer[g].data) /\ FileBecomes(g, writer[g].data)
    <3>1. TypeOK'
      BY <1>8, <2>1
         DEF UpdateWritesFile, IInv, TypeOK, WritersAgree, Saving, Rewriting, Contents,
             Versions, NoFile, Torn, Writers
    <3>2. RecordedAgrees' /\ WritersAgree'
      BY <1>8, <2>1
         DEF UpdateWritesFile, IInv, TypeOK, RecordedAgrees, WritersAgree, Saving, Rewriting
    <3>3. CleanersAgree' /\ CopiesAgree' /\ NothingLostUnseen'
      BY <1>8, <2>1 DEF UpdateWritesFile, IInv, CleanersAgree, CopiesAgree, NothingLostUnseen
    <3>4. RowHasItsFile' /\ ChecksumIsTheFiles'
      BY <1>8, <2>1
         DEF UpdateWritesFile, IInv, TypeOK, RecordedAgrees, WritersAgree, RowHasItsFile,
             ChecksumIsTheFiles, Saving, Rewriting, Versions, NoFile
    <3> QED BY <3>1, <3>2, <3>3, <3>4 DEF IInv
  <2>2. CASE Writing(g, "idle", 0) /\ UNCHANGED file
    <3>1. TypeOK'
      BY <1>8, <2>2
         DEF UpdateWritesFile, IInv, TypeOK, WritersAgree, Saving, Rewriting, Contents,
             Versions, NoFile, Torn, Writers
    <3>2. RecordedAgrees' /\ WritersAgree'
      BY <1>8, <2>2
         DEF UpdateWritesFile, IInv, TypeOK, RecordedAgrees, WritersAgree, Saving, Rewriting
    <3>3. CleanersAgree' /\ CopiesAgree' /\ NothingLostUnseen'
      BY <1>8, <2>2 DEF UpdateWritesFile, IInv, CleanersAgree, CopiesAgree, NothingLostUnseen
    <3>4. RowHasItsFile' /\ ChecksumIsTheFiles'
      BY <1>8, <2>2
         DEF UpdateWritesFile, IInv, TypeOK, RecordedAgrees, WritersAgree, RowHasItsFile,
             ChecksumIsTheFiles, Saving, Rewriting, Versions, NoFile
    <3> QED BY <3>1, <3>2, <3>3, <3>4 DEF IInv
  <2> QED BY <1>8, <2>1, <2>2 DEF UpdateWritesFile
<1>9. CASE UpdateSetsRow(g)
  <2>1. TypeOK'
    BY <1>9 DEF UpdateSetsRow, IInv, TypeOK, WritersAgree, Saving, Rewriting, Contents,
                Versions, NoFile, Torn, Writers
  <2>2. RecordedAgrees' /\ WritersAgree'
    BY <1>9 DEF UpdateSetsRow, IInv, TypeOK, RecordedAgrees, WritersAgree, Saving, Rewriting,
                Versions
  <2>3. CleanersAgree' /\ CopiesAgree'
    BY <1>9 DEF UpdateSetsRow, IInv, TypeOK, WritersAgree, CleanersAgree, CopiesAgree,
                Rewriting, Versions
  <2>4. RowHasItsFile' /\ ChecksumIsTheFiles' /\ NothingLostUnseen'
    BY <1>9 DEF UpdateSetsRow, IInv, TypeOK, RecordedAgrees, WritersAgree, RowHasItsFile,
                ChecksumIsTheFiles, NothingLostUnseen, Saving, Rewriting, Versions, NoFile, Torn
  <2> QED BY <2>1, <2>2, <2>3, <2>4 DEF IInv
<1>10. CASE UpdateRowFails(g)
  <2>1. TypeOK'
    BY <1>10 DEF UpdateRowFails, IInv, TypeOK, WritersAgree, Saving, Rewriting, Contents,
                 Versions, NoFile, Torn, Writers
  <2>2. /\ RecordedAgrees' /\ WritersAgree' /\ CleanersAgree' /\ CopiesAgree'
        /\ RowHasItsFile' /\ ChecksumIsTheFiles' /\ NothingLostUnseen'
    BY <1>10
       DEF UpdateRowFails, IInv, TypeOK, RecordedAgrees, WritersAgree, CleanersAgree,
           CopiesAgree, RowHasItsFile, ChecksumIsTheFiles, NothingLostUnseen, Saving,
           Rewriting, NoFile, Torn, Versions
  <2> QED BY <2>1, <2>2 DEF IInv
<1> QED BY <1>1, <1>2, <1>3, <1>4, <1>5, <1>6, <1>7, <1>8, <1>9, <1>10 DEF WriterStep

(***************************************************************************)
(* The client only adds copies and confirmations.                          *)
(***************************************************************************)
LEMMA ClientKeepsIInv ==
  ASSUME IInv, NEW g \in Frames, ClientStep(g)
  PROVE  IInv'
<1> USE BoundsAssumption DEF HasRow, writerVars, cleanerVars, storeVars
<1>1. CASE GetMetadata(g)
  <2>1. TypeOK'
    BY <1>1 DEF GetMetadata, IInv, TypeOK, Clients
  <2>2. CopiesAgree'
    BY <1>1 DEF GetMetadata, IInv, TypeOK, CopiesAgree, Versions
  <2>3. /\ RecordedAgrees' /\ WritersAgree' /\ CleanersAgree' /\ RowHasItsFile'
        /\ ChecksumIsTheFiles' /\ NothingLostUnseen'
    BY <1>1 DEF GetMetadata, IInv, RecordedAgrees, WritersAgree, CleanersAgree, RowHasItsFile,
                ChecksumIsTheFiles, NothingLostUnseen
  <2> QED BY <2>1, <2>2, <2>3 DEF IInv
<1>2. CASE DownloadFrame(g)
  <2>1. /\ client' \in [Frames -> Clients]
        /\ copy' \in [Frames -> Versions \cup {NoFile}]
        /\ \A f \in Frames : copy[f] # NoFile => copy'[f] # NoFile
        /\ CopiesAgree'
    <3>1. CASE file[g] = client[g].sum
      <4>1. file[g] \in Versions /\ file[g] # NoFile
        BY <1>2, <3>1 DEF DownloadFrame, IInv, CopiesAgree, Versions, NoFile
      <4>2. /\ client' = [client EXCEPT ![g].at = "has"]
            /\ copy' = [copy EXCEPT ![g] = file[g]]
            /\ row' = row
        BY <1>2, <3>1 DEF DownloadFrame
      <4>3. client' \in [Frames -> Clients]
        BY <4>2 DEF IInv, TypeOK, Clients
      <4>4. copy' \in [Frames -> Versions \cup {NoFile}]
        BY <4>1, <4>2 DEF IInv, TypeOK
      <4>5. \A f \in Frames : copy[f] # NoFile => copy'[f] # NoFile
        BY <4>1, <4>2 DEF IInv, TypeOK
      <4>6. CopiesAgree'
        BY <4>1, <4>2 DEF IInv, TypeOK, CopiesAgree, Clients
      <4> QED BY <4>3, <4>4, <4>5, <4>6
    <3>2. CASE file[g] # client[g].sum
      <4>1. client' = [client EXCEPT ![g] = [at |-> "idle", sum |-> 0]] /\ UNCHANGED <<copy, row>>
        BY <1>2, <3>2 DEF DownloadFrame
      <4> QED BY <4>1 DEF IInv, TypeOK, CopiesAgree, Clients
    <3> QED BY <3>1, <3>2
  <2>2. /\ RecordedAgrees' /\ WritersAgree' /\ CleanersAgree' /\ RowHasItsFile'
        /\ ChecksumIsTheFiles' /\ NothingLostUnseen'
    BY <1>2, <2>1
       DEF DownloadFrame, IInv, TypeOK, CleanerCalls, RecordedAgrees, WritersAgree,
           CleanersAgree, RowHasItsFile, ChecksumIsTheFiles, NothingLostUnseen
  <2>3. TypeOK'
    BY <1>2, <2>1 DEF DownloadFrame, IInv, TypeOK
  <2> QED BY <2>1, <2>2, <2>3 DEF IInv
<1>3. CASE ConfirmFrameTransfer(g)
  <2>1. /\ \A f \in Frames : row'[f].sum = row[f].sum
        /\ \A f \in Frames : row'[f].transferred => row[f].transferred \/ (f = g /\ HasRow(g))
        /\ row' \in [Frames -> [sum : 0..MaxVersions, transferred : BOOLEAN]]
    BY <1>3 DEF ConfirmFrameTransfer, IInv, TypeOK
  <2>2. TypeOK'
    BY <1>3, <2>1 DEF ConfirmFrameTransfer, IInv, TypeOK, Clients
  <2>3. CopiesAgree'
    BY <1>3, <2>1 DEF ConfirmFrameTransfer, IInv, TypeOK, CopiesAgree
  <2>4. /\ RecordedAgrees' /\ WritersAgree' /\ CleanersAgree' /\ RowHasItsFile'
        /\ ChecksumIsTheFiles' /\ NothingLostUnseen'
    BY <1>3, <2>1
       DEF ConfirmFrameTransfer, IInv, TypeOK, CleanerCalls, RecordedAgrees, WritersAgree,
           CleanersAgree, RowHasItsFile, ChecksumIsTheFiles, NothingLostUnseen
  <2> QED BY <2>2, <2>3, <2>4 DEF IInv
<1> QED BY <1>1, <1>2, <1>3 DEF ClientStep

----------------------------------------------------------------------------
(***************************************************************************)
(* Rows are deleted for frames that the client has, or by force.           *)
(***************************************************************************)
LEMMA DropKeepsIInv ==
  ASSUME IInv, NEW k \in Cleaners, NEW frames \in SUBSET recorded,
         DropRows(frames), CleanerBecomes(k, "unlinking", frames, FALSE),
         discarded' \subseteq Frames, discarded \subseteq discarded',
         \A f \in frames : f \in discarded' \/ copy[f] # NoFile,
         UNCHANGED <<file, writerVars, clientVars, restarts>>
  PROVE  IInv'
<1> USE DEF HasRow, writerVars, clientVars
<1>1. /\ row' \in [Frames -> [sum : 0..MaxVersions, transferred : BOOLEAN]]
      /\ \A f \in Frames \ frames : row'[f] = row[f]
      /\ \A f \in frames : row'[f].sum = 0 /\ ~row'[f].transferred
  BY BoundsAssumption DEF DropRows, NoRow, IInv, TypeOK
<1>2. TypeOK'
  BY <1>1 DEF IInv, TypeOK, CleanerBecomes, CleanerCalls
<1>3. RecordedAgrees' /\ WritersAgree' /\ CopiesAgree'
  BY <1>1 DEF IInv, TypeOK, RecordedAgrees, WritersAgree, CopiesAgree
<1>4. CleanersAgree'
  <2> SUFFICES ASSUME NEW q \in Cleaners, NEW f \in cleaner'[q].frames
               PROVE  /\ f \in recorded
                      /\ cleaner'[q].at = "unlinking" => row'[f].sum = 0
                      /\ cleaner'[q].at = "checked" /\ ~cleaner'[q].override => copy[f] # NoFile
    BY DEF CleanersAgree
  <2>1. CASE q = k
    BY <1>1, <2>1 DEF CleanerBecomes, IInv, TypeOK
  <2>2. CASE q # k
    <3>1. cleaner'[q] = cleaner[q] /\ f \in Frames
      BY <2>2 DEF CleanerBecomes, IInv, TypeOK, CleanerCalls
    <3> QED BY <1>1, <3>1 DEF IInv, CleanersAgree
  <2> QED BY <2>1, <2>2
<1>5. RowHasItsFile' /\ ChecksumIsTheFiles' /\ NothingLostUnseen'
  BY <1>1 DEF IInv, TypeOK, RowHasItsFile, ChecksumIsTheFiles, NothingLostUnseen
<1> QED BY <1>2, <1>3, <1>4, <1>5 DEF IInv

(***************************************************************************)
(* delete_frame and purge_transferred_frames.                              *)
(***************************************************************************)
LEMMA CleanerKeepsIInv ==
  ASSUME IInv, NEW k \in Cleaners, CleanerStep(k)
  PROVE  IInv'
<1> USE DEF HasRow, writerVars, clientVars, storeVars, CleanerBecomes
<1>1. ASSUME NEW g \in Frames, NEW req \in BOOLEAN, DeleteChecks(k, g, req) PROVE IInv'
  <2>1. TypeOK'
    BY <1>1 DEF DeleteChecks, IInv, TypeOK, CleanerCalls
  <2>2. CleanersAgree'
    BY <1>1 DEF DeleteChecks, IInv, TypeOK, CleanerCalls, RecordedAgrees, CopiesAgree,
                CleanersAgree
  <2>3. /\ RecordedAgrees' /\ WritersAgree' /\ CopiesAgree' /\ RowHasItsFile'
        /\ ChecksumIsTheFiles' /\ NothingLostUnseen'
    BY <1>1 DEF DeleteChecks, IInv, RecordedAgrees, WritersAgree, CopiesAgree, RowHasItsFile,
                ChecksumIsTheFiles, NothingLostUnseen
  <2> QED BY <2>1, <2>2, <2>3 DEF IInv
<1>2. CASE DeleteRow(k)
  <2>1. cleaner[k].frames \in SUBSET recorded
    BY DEF IInv, CleanersAgree
  <2>2. \A f \in cleaner[k].frames : f \in discarded' \/ copy[f] # NoFile
    BY <1>2 DEF DeleteRow, IInv, CleanersAgree
  <2>3. discarded' \subseteq Frames /\ discarded \subseteq discarded'
    BY <1>2 DEF DeleteRow, IInv, TypeOK, CleanerCalls
  <2> QED BY <1>2, <2>1, <2>2, <2>3, DropKeepsIInv DEF DeleteRow
<1>3. ASSUME NEW old \in SUBSET Frames, PurgeRows(k, old) PROVE IInv'
  <2>1. Purgeable(old) \in SUBSET recorded /\ \A f \in Purgeable(old) : copy[f] # NoFile
    BY DEF Purgeable, IInv, RecordedAgrees, CopiesAgree
  <2> QED BY <1>3, <2>1, DropKeepsIInv DEF PurgeRows, IInv, TypeOK
<1>4. ASSUME NEW g \in Frames, Unlinks(k, g) PROVE IInv'
  <2>1. g \in recorded /\ ~HasRow(g) /\ writer[g].at \notin Saving
    BY <1>4 DEF Unlinks, IInv, CleanersAgree, RecordedAgrees
  <2>2. TypeOK'
    BY <1>4 DEF Unlinks, FileBecomes, IInv, TypeOK, CleanerCalls, Contents, NoFile
  <2>3. WritersAgree'
    BY <1>4, <2>1 DEF Unlinks, FileBecomes, IInv, TypeOK, WritersAgree, Saving
  <2>4. RowHasItsFile' /\ ChecksumIsTheFiles'
    BY <1>4, <2>1 DEF Unlinks, FileBecomes, IInv, TypeOK, RowHasItsFile, ChecksumIsTheFiles
  <2>5. CleanersAgree'
    BY <1>4 DEF Unlinks, IInv, TypeOK, CleanerCalls, CleanersAgree
  <2>6. RecordedAgrees' /\ CopiesAgree' /\ NothingLostUnseen'
    BY <1>4 DEF Unlinks, IInv, RecordedAgrees, CopiesAgree, NothingLostUnseen
  <2> QED BY <2>2, <2>3, <2>4, <2>5, <2>6 DEF IInv
<1>5. CASE DeleteRowFails(k) \/ CleanerEnds(k)
  <2>1. TypeOK'
    <3>1. cleaner' = [cleaner EXCEPT ![k] = [at |-> "done", frames |-> {}, override |-> FALSE]]
      BY <1>5 DEF DeleteRowFails, CleanerEnds
    <3>2. cleaner' \in [Cleaners -> CleanerCalls]
      BY <3>1 DEF IInv, TypeOK, CleanerCalls
    <3> QED BY <1>5, <3>2 DEF DeleteRowFails, CleanerEnds, IInv, TypeOK
  <2>2. CleanersAgree'
    BY <1>5 DEF DeleteRowFails, CleanerEnds, IInv, TypeOK, CleanerCalls, CleanersAgree
  <2>3. /\ RecordedAgrees' /\ WritersAgree' /\ CopiesAgree' /\ RowHasItsFile'
        /\ ChecksumIsTheFiles' /\ NothingLostUnseen'
    BY <1>5 DEF DeleteRowFails, CleanerEnds, IInv, RecordedAgrees, WritersAgree, CopiesAgree,
                RowHasItsFile, ChecksumIsTheFiles, NothingLostUnseen
  <2> QED BY <2>1, <2>2, <2>3 DEF IInv
<1> QED BY <1>1, <1>2, <1>3, <1>4, <1>5 DEF CleanerStep

(***************************************************************************)
(* A restart leaves every file, every row and every copy as it is.         *)
(***************************************************************************)
LEMMA RestartKeepsIInv ==
  ASSUME IInv, Restart
  PROVE  IInv'
<1> USE DEF HasRow, clientVars, storeVars
<1>1. writer' \in [Frames -> Writers]
  BY BoundsAssumption DEF Restart, IInv, TypeOK, Writers
<1>2. \A f \in Frames : /\ writer'[f].at \in {"none", "lost", "idle"}
                        /\ writer'[f].at \in Saving <=> writer[f].at \in Saving
  BY DEF Restart, IInv, TypeOK, Writers, Saving
<1>3. \A k \in Cleaners : \/ cleaner'[k] = cleaner[k] /\ cleaner[k].at = "idle"
                          \/ cleaner'[k].frames = {}
  BY DEF Restart
<1>4. TypeOK'
  <2>1. cleaner' \in [Cleaners -> CleanerCalls]
    BY DEF Restart, IInv, TypeOK, CleanerCalls
  <2> QED BY <1>1, <2>1, BoundsAssumption DEF Restart, IInv, TypeOK
<1>5. RecordedAgrees' /\ WritersAgree'
  BY <1>2 DEF Restart, IInv, RecordedAgrees, WritersAgree, Rewriting
<1>6. CleanersAgree'
  BY <1>3 DEF Restart, IInv, CleanersAgree
<1>7. CopiesAgree' /\ RowHasItsFile' /\ ChecksumIsTheFiles' /\ NothingLostUnseen'
  BY DEF Restart, IInv, CopiesAgree, RowHasItsFile, ChecksumIsTheFiles, NothingLostUnseen
<1> QED BY <1>4, <1>5, <1>6, <1>7 DEF IInv

\* Every step keeps the invariant.
LEMMA NextKeepsIInv == IInv /\ [Next]_vars => IInv'
<1> SUFFICES ASSUME IInv, [Next]_vars PROVE IInv'
  OBVIOUS
<1>1. CASE Next
  BY <1>1, WriterKeepsIInv, ClientKeepsIInv, CleanerKeepsIInv, RestartKeepsIInv DEF Next
<1>2. CASE UNCHANGED vars
  BY <1>2 DEF vars, storeVars, writerVars, clientVars, cleanerVars, HasRow, IInv, TypeOK,
              RecordedAgrees, WritersAgree, CleanersAgree, CopiesAgree, RowHasItsFile,
              ChecksumIsTheFiles, NothingLostUnseen
<1> QED BY <1>1, <1>2

----------------------------------------------------------------------------
(***************************************************************************)
(* The inductive invariant holds in every reachable state.                 *)
(***************************************************************************)
THEOREM Invariance == Spec => []IInv
BY InitIInv, NextKeepsIInv, PTL DEF Spec

(***************************************************************************)
(* The type invariant.                                                     *)
(***************************************************************************)
THEOREM TypeCorrect == Spec => []TypeOK
<1>1. IInv => TypeOK
  BY DEF IInv
<1> QED BY <1>1, Invariance, PTL

(***************************************************************************)
(* A row never points to a file that is not there.                         *)
(***************************************************************************)
THEOREM RowsHaveFiles == Spec => []RowHasItsFile
<1>1. IInv => RowHasItsFile
  BY DEF IInv
<1> QED BY <1>1, Invariance, PTL

(***************************************************************************)
(* A client is told the checksum of the frame's file, unless a rewrite of  *)
(* it is under way or was cut short.                                       *)
(***************************************************************************)
THEOREM ChecksumsHold == Spec => []ChecksumIsTheFiles
<1>1. IInv => ChecksumIsTheFiles
  BY DEF IInv
<1> QED BY <1>1, Invariance, PTL

(***************************************************************************)
(* No frame is deleted, unless by force, that the client has no verified   *)
(* copy of.                                                                *)
(***************************************************************************)
THEOREM NothingLost == Spec => []NothingLostUnseen
<1>1. IInv => NothingLostUnseen
  BY DEF IInv
<1> QED BY <1>1, Invariance, PTL

\* Only save_frame makes a row, and only for a frame that never had one.
LEMMA NextMakesNoOldRow ==
  ASSUME IInv, Next
  PROVE  \A f \in recorded : ~HasRow(f) => ~HasRow(f)'
<1> USE DEF HasRow, storeVars
<1>1. ASSUME NEW g \in Frames, SaveInsertsRow(g) PROVE \A f \in recorded : row'[f] = row[f]
  BY <1>1 DEF SaveInsertsRow, IInv, TypeOK, RecordedAgrees, Saving
<1>2. ASSUME NEW g \in Frames, UpdateSetsRow(g)
      PROVE  \A f \in recorded : ~HasRow(f) => ~HasRow(f)'
  BY <1>2 DEF UpdateSetsRow, IInv, TypeOK
<1>3. ASSUME NEW g \in Frames, WriterStep(g), ~SaveInsertsRow(g), ~UpdateSetsRow(g)
      PROVE  row' = row
  BY <1>3 DEF WriterStep, SaveOpensFile, SaveWritesFile, SaveInsertFails, SolveReadsFile,
              UpdateFindsRow, UpdateOpensFile, UpdateWritesFile, UpdateRowFails
<1>4. ASSUME NEW g \in Frames, ClientStep(g) PROVE \A f \in recorded : row'[f].sum = row[f].sum
  BY <1>4 DEF ClientStep, GetMetadata, DownloadFrame, ConfirmFrameTransfer, IInv, TypeOK
<1>5. ASSUME NEW k \in Cleaners, CleanerStep(k)
      PROVE  \A f \in recorded : ~HasRow(f) => ~HasRow(f)'
  <2>1. row' = row \/ \E S : DropRows(S)
    BY <1>5 DEF CleanerStep, DeleteChecks, DeleteRow, DeleteRowFails, PurgeRows, Unlinks,
                CleanerEnds
  <2>2. recorded \subseteq Frames
    BY DEF IInv, TypeOK
  <2>3. ASSUME NEW S, DropRows(S)
        PROVE  \A f \in recorded : ~HasRow(f) => ~HasRow(f)'
    BY <2>2, <2>3 DEF DropRows, NoRow
  <2> QED BY <2>1, <2>3
<1>6. CASE Restart
  BY <1>6 DEF Restart
<1> QED BY <1>1, <1>2, <1>3, <1>4, <1>5, <1>6 DEF Next

(***************************************************************************)
(* A deleted frame does not come back.                                     *)
(***************************************************************************)
THEOREM DeletedStay == Spec => DeletedStaysDeleted
<1>1. IInv /\ [Next]_vars => [\A f \in recorded : ~HasRow(f) => ~HasRow(f)']_vars
  BY NextMakesNoOldRow
<1> QED BY <1>1, Invariance, PTL DEF Spec, DeletedStaysDeleted
=============================================================================

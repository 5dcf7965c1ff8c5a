------------------------------ MODULE RigStore ------------------------------
(***************************************************************************)
(* The stores of rig and observatory definitions: one YAML file per id and *)
(* a dictionary of what was loaded from the files, which readers use.      *)
(*                                                                         *)
(* A save runs in a thread.  It opens the file (which empties it), writes  *)
(* it, reads the whole directory, and installs what it read in place of    *)
(* the dictionary.  The two stores have the same steps and differ in one   *)
(* thing: rig_store holds a lock over all of them, observatory_store holds *)
(* none.  UsesLock says which store this is.                               *)
(*                                                                         *)
(* A definition is a body and the number of the save it comes from.        *)
(***************************************************************************)
EXTENDS Naturals

CONSTANTS
  Tasks,       \* the tool calls and runs that may be under way
  Ids,         \* rig ids
  Bodies,      \* what a definition may say
  CutTo,       \* bodies that a cut-off file of a body may still parse to
  UsesLock,    \* rig_store: TRUE; observatory_store: FALSE
  MaxSaves,    \* bound: definitions that clients submit
  NoTask,      \* nobody holds the lock
  NoFile,      \* no file with this id; no definition in the dictionary
  Broken       \* a file that does not parse

ASSUME IdsAssumption == Ids # {}
ASSUME UsesLockAssumption == UsesLock \in BOOLEAN
ASSUME MaxSavesAssumption == MaxSaves \in Nat
ASSUME NoTaskAssumption == NoTask \notin Tasks
ASSUME CutToAssumption == CutTo \in [Bodies -> SUBSET Bodies]

VARIABLES
  disk,        \* the files
  cache,       \* _rigs
  lock,        \* the holder of _rigs_lock
  spc,         \* where each task is in a save
  job,         \* what each task saves
  failed,      \* a write has failed since the files were last read
  saves        \* definitions submitted so far

storeVars == <<disk, cache, lock, spc, job, failed, saves>>

Definitions == [ver : 0 .. MaxSaves, body : Bodies]

Nothing == [i \in Ids |-> NoFile]

(* load_rigs: the files that parse *)
Loaded(files) ==
  [i \in Ids |-> IF files[i] \in Definitions THEN files[i] ELSE NoFile]

NoJob == [id |-> CHOOSE i \in Ids : TRUE, def |-> NoFile, overwrite |-> FALSE,
          read |-> Nothing]

StoreTypeOK ==
  /\ disk \in [Ids -> Definitions \cup {NoFile, Broken}]
  /\ cache \in [Ids -> Definitions \cup {NoFile}]
  /\ lock \in Tasks \cup {NoTask}
  /\ spc \in [Tasks -> {"Idle", "Open", "Empty", "Written", "Parsed",
                        "Installed", "Saved", "Raised"}]
  /\ job \in [Tasks -> [id : Ids, def : Definitions \cup {NoFile},
                        overwrite : BOOLEAN,
                        read : [Ids -> Definitions \cup {NoFile}]]]
  /\ failed \in BOOLEAN
  /\ saves \in 0 .. MaxSaves

StoreInit ==
  /\ disk \in [Ids -> [ver : {0}, body : Bodies] \cup {NoFile}]
  /\ cache = Loaded(disk)
  /\ lock = NoTask
  /\ spc = [t \in Tasks |-> "Idle"]
  /\ job = [t \in Tasks |-> NoJob]
  /\ failed = FALSE
  /\ saves = 0

-----------------------------------------------------------------------------
(* Saving *)

At(t, from, to) == spc[t] = from /\ spc' = [spc EXCEPT ![t] = to]

\* Mutant: save_rig without its lock.
NoLockNeeded == TRUE

(* _rigs_lock can be taken: by a save, and by whoever reads the dictionary *)
Free == UsesLock => lock = NoTask

SaveCalled(t, i, d, overwrite) ==
  /\ At(t, "Idle", "Open")
  /\ job' = [job EXCEPT ![t] = [NoJob EXCEPT !.id = i, !.def = d,
                                             !.overwrite = overwrite]]
  /\ UNCHANGED <<disk, cache, lock, failed>>

(* mode "w" empties the file, mode "x" refuses one that exists *)
SaveOpens(t) ==
  /\ At(t, "Open", "Empty")
  /\ Free
  /\ job[t].overwrite \/ disk[job[t].id] = NoFile
  /\ lock' = IF UsesLock THEN t ELSE lock
  /\ disk' = [disk EXCEPT ![job[t].id] = Broken]
  /\ UNCHANGED <<cache, job, failed, saves>>

(* the file exists, or the directory or the file cannot be opened *)
SaveRefused(t) ==
  /\ At(t, "Open", "Raised")
  /\ Free
  /\ UNCHANGED <<disk, cache, lock, job, failed, saves>>

SaveWrites(t) ==
  /\ At(t, "Empty", "Written")
  /\ disk' = [disk EXCEPT ![job[t].id] = job[t].def]
  /\ UNCHANGED <<cache, lock, job, failed, saves>>

(* f.write raises half way: what is in the file by then stays *)
SaveFails(t) ==
  /\ At(t, "Empty", "Raised")
  /\ \E left \in {Broken} \cup
                 {[job[t].def EXCEPT !.body = b] : b \in CutTo[job[t].def.body]} :
       disk' = [disk EXCEPT ![job[t].id] = left]
  /\ lock' = IF UsesLock THEN NoTask ELSE lock
  /\ failed' = TRUE
  /\ UNCHANGED <<cache, job, saves>>

LoadReads(t) ==
  /\ At(t, "Written", "Parsed")
  /\ job' = [job EXCEPT ![t].read = Loaded(disk)]
  /\ failed' = FALSE
  /\ UNCHANGED <<disk, cache, lock, saves>>

LoadInstalls(t) ==
  /\ At(t, "Parsed", "Installed")
  /\ cache' = job[t].read
  /\ UNCHANGED <<disk, lock, job, failed, saves>>

(* get_rig at the end of save_rig *)
SaveReturns(t) ==
  /\ spc[t] = "Installed"
  /\ spc' = [spc EXCEPT ![t] = IF cache[job[t].id] = NoFile THEN "Raised"
                                                            ELSE "Saved"]
  /\ lock' = IF UsesLock THEN NoTask ELSE lock
  /\ UNCHANGED <<disk, cache, job, failed, saves>>

SaveEnds(t) ==
  /\ spc[t] \in {"Saved", "Raised"}
  /\ spc' = [spc EXCEPT ![t] = "Idle"]
  /\ job' = [job EXCEPT ![t] = NoJob]
  /\ UNCHANGED <<disk, cache, lock, failed, saves>>

SaveRuns(t) ==
  \/ SaveOpens(t)
  \/ SaveRefused(t)
  \/ SaveWrites(t)
  \/ SaveFails(t)
  \/ LoadReads(t)
  \/ LoadInstalls(t)
  \/ SaveReturns(t)

(* configuration(action="save"): what a client submits is a new version *)
Submits(t, i, b, overwrite) ==
  /\ saves < MaxSaves
  /\ saves' = saves + 1
  /\ SaveCalled(t, i, [ver |-> saves + 1, body |-> b], overwrite)

(* update_component_slots: get_rig, under the lock of its own, and then a   *)
(* save of the rig it got with another body                                 *)
Updates(t, i, b) ==
  /\ Free
  /\ cache[i] # NoFile
  /\ SaveCalled(t, i, [cache[i] EXCEPT !.body = b], TRUE)
  /\ UNCHANGED saves

(* The process ends anywhere and starts again: run() loads the files. *)
StoreRestart ==
  /\ cache' = Loaded(disk)
  /\ lock' = NoTask
  /\ spc' = [t \in Tasks |-> "Idle"]
  /\ job' = [t \in Tasks |-> NoJob]
  /\ failed' = FALSE
  /\ UNCHANGED <<disk, saves>>

StoreNext ==
  \/ \E t \in Tasks :
       \/ SaveRuns(t)
       \/ SaveEnds(t)
       \/ \E i \in Ids, b \in Bodies, overwrite \in BOOLEAN :
            Submits(t, i, b, overwrite)
       \/ \E i \in Ids, b \in Bodies : Updates(t, i, b)
  \/ StoreRestart

StoreSpec == StoreInit /\ [][StoreNext]_storeVars

-----------------------------------------------------------------------------

Quiet == \A t \in Tasks : spc[t] \in {"Idle", "Open", "Saved", "Raised"}

(***************************************************************************)
(* While no save is between opening its file and returning, readers are    *)
(* served exactly the files that parse, unless a write has failed since    *)
(* they were last read.  save_rig promises that "the saved rig is          *)
(* immediately available by id" and its lock is there for this;            *)
(* save_observatory promises the same of locations.                        *)
(***************************************************************************)
CacheIsDisk == Quiet /\ ~failed => cache = Loaded(disk)
=============================================================================

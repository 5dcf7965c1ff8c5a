-------------------------- MODULE ObservatoryStore --------------------------
(***************************************************************************)
(* The store of observatory locations.  Its load and its save go through   *)
(* the steps of the rig store, and configuration(action="save") runs both  *)
(* in threads; but nothing here takes a lock, so the steps of two saves    *)
(* mix freely.                                                             *)
(***************************************************************************)
EXTENDS Naturals

CONSTANTS Tasks, Locations, Bodies, CutTo, MaxSaves, NoTask, NoFile, Broken

VARIABLES disk, cache, lock, spc, job, failed, saves

vars == <<disk, cache, lock, spc, job, failed, saves>>

Store == INSTANCE RigStore WITH Ids <- Locations, UsesLock <- FALSE

Init == Store!StoreInit

(* configuration(action="save", kind="observatory") *)
SaveTool(t) ==
  \E i \in Locations, b \in Bodies, overwrite \in BOOLEAN :
    Store!Submits(t, i, b, overwrite)

SaveObservatory(t) == Store!SaveRuns(t) \/ Store!SaveEnds(t)

Restart == Store!StoreRestart

Next == (\E t \in Tasks : SaveTool(t) \/ SaveObservatory(t)) \/ Restart

Spec == Init /\ [][Next]_vars

-----------------------------------------------------------------------------

(***************************************************************************)
(* save_observatory says that it reloads the directory "so the saved       *)
(* location is immediately available by id to get_observatory": once all   *)
(* saves have returned, every location on file is served.  Two saves at    *)
(* once break it: the one that read the directory first may install what   *)
(* it read last, and the other's location is gone until the next save.     *)
(***************************************************************************)
SavedIsServed == Store!CacheIsDisk
=============================================================================

-------------------------- MODULE RigFiltersProofs --------------------------
(***************************************************************************)
(* The rig store serves what its files say, for any number of tasks, ids   *)
(* and saves, because of its lock; and the filter wheel's names, for any   *)
(* number of rigs, connections, calls and renamings as well: the           *)
(* composition takes only steps of the rig store, so that its lock keeps   *)
(* what it promises; connections that are up are named; and a filter's     *)
(* name means the driver's slot.                                           *)
(***************************************************************************)
EXTENDS RigFilters, FiniteSetTheorems, TLAPS

-----------------------------------------------------------------------------
(***************************************************************************)
(* The rig store.  The invariant says what its lock is for: whoever is     *)
(* between opening its file and returning holds it, so no file changes     *)
(* under a reload that has been read and not yet installed.                *)
(***************************************************************************)
Busy == {"Empty", "Written", "Parsed", "Installed"}

(* what is written, and will be written, is a definition *)
JobIsWhole ==
  \A t \in Tasks : spc[t] \in Busy \cup {"Open"} => job[t].def \in Definitions

(* whoever is in a save holds the lock *)
LockHeld == \A t \in Tasks : spc[t] \in Busy => lock = t

(* what was read is still what the files say *)
ReadIsDisk ==
  \A t \in Tasks : spc[t] = "Parsed" => job[t].read = Loaded(disk) /\ ~failed

InstalledIsDisk == \A t \in Tasks : spc[t] = "Installed" => cache = Loaded(disk)

TypeInv == StoreTypeOK /\ JobIsWhole

LockInv == LockHeld /\ ReadIsDisk /\ InstalledIsDisk /\ CacheIsDisk

-----------------------------------------------------------------------------
(* Types *)

LEMMA LoadedIsTyped ==
  ASSUME NEW files
  PROVE  Loaded(files) \in [Ids -> Definitions \cup {NoFile}]
BY DEF Loaded

LEMMA NoJobIsTyped == NoJob \in [id : Ids, def : Definitions \cup {NoFile},
                                overwrite : BOOLEAN,
                                read : [Ids -> Definitions \cup {NoFile}]]
<1>1. (CHOOSE i \in Ids : TRUE) \in Ids
  BY IdsAssumption
<1>2. QED
  BY <1>1 DEF NoJob, Nothing

LEMMA InitTyped == StoreInit => TypeInv
<1> SUFFICES ASSUME StoreInit PROVE TypeInv
  OBVIOUS
<1>1. 0 \in 0 .. MaxSaves
  BY MaxSavesAssumption
<1>2. [ver : {0}, body : Bodies] \subseteq Definitions
  BY <1>1 DEF Definitions
<1>3. StoreTypeOK
  BY <1>1, <1>2, LoadedIsTyped, NoJobIsTyped DEF StoreInit, StoreTypeOK
<1>4. JobIsWhole
  BY DEF StoreInit, JobIsWhole, Busy
<1>5. QED
  BY <1>3, <1>4 DEF TypeInv

LEMMA CalledTyped ==
  ASSUME TypeInv, NEW t \in Tasks, NEW i \in Ids, NEW d \in Definitions,
         NEW overwrite \in BOOLEAN, SaveCalled(t, i, d, overwrite),
         saves' \in 0 .. MaxSaves
  PROVE  TypeInv'
<1> USE DEF TypeInv
<1>1. job' \in [Tasks -> [id : Ids, def : Definitions \cup {NoFile},
                         overwrite : BOOLEAN,
                         read : [Ids -> Definitions \cup {NoFile}]]]
  BY NoJobIsTyped DEF SaveCalled, StoreTypeOK
<1>2. StoreTypeOK'
  BY <1>1 DEF SaveCalled, At, StoreTypeOK
<1>3. job'[t].def = d
  BY NoJobIsTyped DEF SaveCalled, StoreTypeOK
<1>4. JobIsWhole'
  BY <1>3 DEF SaveCalled, At, StoreTypeOK, JobIsWhole
<1>5. QED
  BY <1>2, <1>4

LEMMA StepTyped == TypeInv /\ [StoreNext]_storeVars => TypeInv'
<1> SUFFICES ASSUME TypeInv, [StoreNext]_storeVars PROVE TypeInv'
  OBVIOUS
<1> USE DEF TypeInv
<1>1. ASSUME NEW t \in Tasks, SaveOpens(t) PROVE TypeInv'
  BY <1>1 DEF SaveOpens, At, StoreTypeOK, JobIsWhole, Busy
<1>2. ASSUME NEW t \in Tasks, SaveRefused(t) PROVE TypeInv'
  BY <1>2 DEF SaveRefused, At, StoreTypeOK, JobIsWhole, Busy
<1>3. ASSUME NEW t \in Tasks, SaveWrites(t) PROVE TypeInv'
  <2>1. job[t].def \in Definitions
    BY <1>3 DEF SaveWrites, At, JobIsWhole, Busy
  <2>2. StoreTypeOK'
    BY <1>3, <2>1 DEF SaveWrites, At, StoreTypeOK
  <2>3. JobIsWhole'
    BY <1>3 DEF SaveWrites, At, StoreTypeOK, JobIsWhole, Busy
  <2>4. QED
    BY <2>2, <2>3
<1>4. ASSUME NEW t \in Tasks, SaveFails(t) PROVE TypeInv'
  <2>1. job[t].def \in Definitions
    BY <1>4 DEF SaveFails, At, JobIsWhole, Busy
  <2>2. \A b \in CutTo[job[t].def.body] :
          [job[t].def EXCEPT !.body = b] \in Definitions
    BY <2>1, CutToAssumption DEF Definitions
  <2>3. disk' \in [Ids -> Definitions \cup {NoFile, Broken}]
    <3>1. PICK left \in {Broken} \cup
                       {[job[t].def EXCEPT !.body = b] : b \in CutTo[job[t].def.body]} :
            disk' = [disk EXCEPT ![job[t].id] = left]
      BY <1>4 DEF SaveFails
    <3>2. left \in Definitions \cup {Broken}
      BY <2>2
    <3>3. QED
      BY <3>1, <3>2 DEF StoreTypeOK
  <2>4. StoreTypeOK'
    BY <1>4, <2>3 DEF SaveFails, At, StoreTypeOK
  <2>5. JobIsWhole'
    BY <1>4 DEF SaveFails, At, StoreTypeOK, JobIsWhole, Busy
  <2>6. QED
    BY <2>4, <2>5
<1>5. ASSUME NEW t \in Tasks, LoadReads(t) PROVE TypeInv'
  <2>1. Loaded(disk) \in [Ids -> Definitions \cup {NoFile}]
    BY LoadedIsTyped
  <2>2. StoreTypeOK'
    BY <1>5, <2>1 DEF LoadReads, At, StoreTypeOK
  <2>3. \A u \in Tasks : job'[u].def = job[u].def
    BY <1>5 DEF LoadReads, StoreTypeOK
  <2>4. JobIsWhole'
    BY <1>5, <2>3 DEF LoadReads, At, StoreTypeOK, JobIsWhole, Busy
  <2>5. QED
    BY <2>2, <2>4
<1>6. ASSUME NEW t \in Tasks, LoadInstalls(t) PROVE TypeInv'
  BY <1>6 DEF LoadInstalls, At, StoreTypeOK, JobIsWhole, Busy
<1>7. ASSUME NEW t \in Tasks, SaveReturns(t) PROVE TypeInv'
  BY <1>7 DEF SaveReturns, StoreTypeOK, JobIsWhole, Busy
<1>8. ASSUME NEW t \in Tasks, SaveEnds(t) PROVE TypeInv'
  <2>1. StoreTypeOK'
    BY <1>8, NoJobIsTyped DEF SaveEnds, StoreTypeOK
  <2>2. JobIsWhole'
    BY <1>8 DEF SaveEnds, StoreTypeOK, JobIsWhole, Busy
  <2>3. QED
    BY <2>1, <2>2
<1>9. ASSUME NEW t \in Tasks, NEW i \in Ids, NEW b \in Bodies,
             NEW overwrite \in BOOLEAN, Submits(t, i, b, overwrite)
      PROVE  TypeInv'
  <2>1. saves + 1 \in 0 .. MaxSaves
    BY <1>9, MaxSavesAssumption DEF Submits, StoreTypeOK
  <2>2. [ver |-> saves + 1, body |-> b] \in Definitions
    BY <2>1 DEF Definitions
  <2>3. QED
    BY <1>9, <2>1, <2>2, CalledTyped DEF Submits
<1>10. ASSUME NEW t \in Tasks, NEW i \in Ids, NEW b \in Bodies, Updates(t, i, b)
       PROVE  TypeInv'
  <2>1. cache[i] \in Definitions
    BY <1>10 DEF Updates, StoreTypeOK
  <2>2. [cache[i] EXCEPT !.body = b] \in Definitions
    BY <2>1 DEF Definitions
  <2>3. QED
    BY <1>10, <2>2, CalledTyped DEF Updates, StoreTypeOK
<1>11. CASE StoreRestart
  <2>1. StoreTypeOK'
    BY <1>11, LoadedIsTyped, NoJobIsTyped DEF StoreRestart, StoreTypeOK
  <2>2. JobIsWhole'
    BY <1>11 DEF StoreRestart, JobIsWhole, Busy
  <2>3. QED
    BY <2>1, <2>2
<1>12. CASE UNCHANGED storeVars
  BY <1>12 DEF storeVars, StoreTypeOK, JobIsWhole
<1>13. QED
  BY <1>1, <1>2, <1>3, <1>4, <1>5, <1>6, <1>7, <1>8, <1>9, <1>10, <1>11, <1>12
     DEF StoreNext, SaveRuns

(***************************************************************************)
(* Every reachable state of a store, locked or not, is well typed.         *)
(***************************************************************************)
THEOREM StoreTyped == StoreSpec => []StoreTypeOK
<1>1. TypeInv => StoreTypeOK
  BY DEF TypeInv
<1>2. QED
  BY <1>1, InitTyped, StepTyped, PTL DEF StoreSpec

-----------------------------------------------------------------------------
(* The lock *)

LEMMA InitLocked == StoreInit => LockInv
BY DEF StoreInit, LockInv, LockHeld, ReadIsDisk, InstalledIsDisk, CacheIsDisk, Busy

(* a step that leaves files, dictionary and lock alone, and is not of a save *)
(* that holds the lock                                                       *)
LEMMA AsideLocked ==
  ASSUME LockInv, TypeInv, NEW t \in Tasks, NEW place \in {"Idle", "Open", "Raised"},
         spc[t] \notin Busy, spc' = [spc EXCEPT ![t] = place],
         \A u \in Tasks : u # t => job'[u] = job[u],
         UNCHANGED <<disk, cache, lock, failed>>
  PROVE  LockInv'
<1>1. \A u \in Tasks : u # t => spc'[u] = spc[u]
  BY DEF TypeInv, StoreTypeOK
<1>2. spc'[t] \notin Busy
  BY DEF TypeInv, StoreTypeOK, Busy
<1>3. LockHeld' /\ InstalledIsDisk'
  BY <1>1, <1>2 DEF LockInv, LockHeld, InstalledIsDisk, Loaded, Busy
<1>4. ReadIsDisk'
  BY <1>1, <1>2 DEF LockInv, ReadIsDisk, Loaded, Busy
<1>5. Quiet' => Quiet
  BY <1>1, <1>2 DEF Quiet, Busy, TypeInv, StoreTypeOK
<1>6. CacheIsDisk'
  BY <1>5 DEF LockInv, CacheIsDisk, Loaded
<1>7. QED
  BY <1>3, <1>4, <1>6 DEF LockInv

(* nobody but the holder of the lock is in a save *)
LEMMA OneHolder ==
  ASSUME LockInv, NEW t \in Tasks, spc[t] \in Busy
  PROVE  /\ lock = t
         /\ \A u \in Tasks : u # t => spc[u] \notin Busy
BY DEF LockInv, LockHeld

LEMMA StepLocked ==
  ASSUME UsesLock, LockInv, TypeInv, [StoreNext]_storeVars
  PROVE  LockInv'
<1>1. ASSUME NEW t \in Tasks, SaveOpens(t) PROVE LockInv'
  <2>1. \A u \in Tasks : spc[u] \notin Busy
    BY <1>1, NoTaskAssumption DEF SaveOpens, Free, LockInv, LockHeld
  <2>2. spc'[t] = "Empty" /\ \A u \in Tasks : u # t => spc'[u] = spc[u]
    BY <1>1 DEF SaveOpens, At, TypeInv, StoreTypeOK
  <2>3. lock' = t
    BY <1>1 DEF SaveOpens
  <2>4. LockHeld' /\ ReadIsDisk' /\ InstalledIsDisk'
    BY <2>1, <2>2, <2>3 DEF LockHeld, ReadIsDisk, InstalledIsDisk, Busy
  <2>5. CacheIsDisk'
    BY <2>2 DEF CacheIsDisk, Quiet
  <2>6. QED
    BY <2>4, <2>5 DEF LockInv
<1>2. ASSUME NEW t \in Tasks, SaveRefused(t) PROVE LockInv'
  BY <1>2, AsideLocked DEF SaveRefused, At, Busy
<1>3. ASSUME NEW t \in Tasks, SaveWrites(t) PROVE LockInv'
  <2>1. lock = t /\ \A u \in Tasks : u # t => spc[u] \notin Busy
    BY <1>3, OneHolder DEF SaveWrites, At, Busy
  <2>2. spc'[t] = "Written" /\ \A u \in Tasks : u # t => spc'[u] = spc[u]
    BY <1>3 DEF SaveWrites, At, TypeInv, StoreTypeOK
  <2>3. LockHeld' /\ ReadIsDisk' /\ InstalledIsDisk'
    BY <1>3, <2>1, <2>2 DEF SaveWrites, LockHeld, ReadIsDisk, InstalledIsDisk, Busy
  <2>4. CacheIsDisk'
    BY <2>2 DEF CacheIsDisk, Quiet
  <2>5. QED
    BY <2>3, <2>4 DEF LockInv
<1>4. ASSUME NEW t \in Tasks, SaveFails(t) PROVE LockInv'
  <2>1. lock = t /\ \A u \in Tasks : u # t => spc[u] \notin Busy
    BY <1>4, OneHolder DEF SaveFails, At, Busy
  <2>2. spc'[t] = "Raised" /\ \A u \in Tasks : u # t => spc'[u] = spc[u]
    BY <1>4 DEF SaveFails, At, TypeInv, StoreTypeOK
  <2>3. LockHeld' /\ ReadIsDisk' /\ InstalledIsDisk'
    BY <2>1, <2>2 DEF LockHeld, ReadIsDisk, InstalledIsDisk, Busy
  <2>4. CacheIsDisk'
    BY <1>4 DEF SaveFails, CacheIsDisk
  <2>5. QED
    BY <2>3, <2>4 DEF LockInv
<1>5. ASSUME NEW t \in Tasks, LoadReads(t) PROVE LockInv'
  <2>1. lock = t /\ \A u \in Tasks : u # t => spc[u] \notin Busy
    BY <1>5, OneHolder DEF LoadReads, At, Busy
  <2>2. spc'[t] = "Parsed" /\ \A u \in Tasks : u # t => spc'[u] = spc[u]
    BY <1>5 DEF LoadReads, At, TypeInv, StoreTypeOK
  <2>3. job'[t].read = Loaded(disk)'
    BY <1>5 DEF LoadReads, Loaded, TypeInv, StoreTypeOK
  <2>4. LockHeld' /\ ReadIsDisk' /\ InstalledIsDisk'
    BY <1>5, <2>1, <2>2, <2>3 DEF LoadReads, LockHeld, ReadIsDisk, InstalledIsDisk, Busy
  <2>5. CacheIsDisk'
    BY <2>2 DEF CacheIsDisk, Quiet
  <2>6. QED
    BY <2>4, <2>5 DEF LockInv
<1>6. ASSUME NEW t \in Tasks, LoadInstalls(t) PROVE LockInv'
  <2>1. lock = t /\ \A u \in Tasks : u # t => spc[u] \notin Busy
    BY <1>6, OneHolder DEF LoadInstalls, At, Busy
  <2>2. spc'[t] = "Installed" /\ \A u \in Tasks : u # t => spc'[u] = spc[u]
    BY <1>6 DEF LoadInstalls, At, TypeInv, StoreTypeOK
  <2>3. cache' = Loaded(disk)'
    BY <1>6 DEF LoadInstalls, At, LockInv, ReadIsDisk, Loaded
  <2>4. LockHeld' /\ ReadIsDisk' /\ InstalledIsDisk'
    BY <1>6, <2>1, <2>2, <2>3 DEF LoadInstalls, LockHeld, ReadIsDisk, InstalledIsDisk, Busy
  <2>5. CacheIsDisk'
    BY <2>3 DEF CacheIsDisk
  <2>6. QED
    BY <2>4, <2>5 DEF LockInv
<1>7. ASSUME NEW t \in Tasks, SaveReturns(t) PROVE LockInv'
  <2>1. lock = t /\ \A u \in Tasks : u # t => spc[u] \notin Busy
    BY <1>7, OneHolder DEF SaveReturns, Busy
  <2>2. spc'[t] \in {"Raised", "Saved"} /\ \A u \in Tasks : u # t => spc'[u] = spc[u]
    BY <1>7 DEF SaveReturns, TypeInv, StoreTypeOK
  <2>3. LockHeld' /\ ReadIsDisk' /\ InstalledIsDisk'
    BY <2>1, <2>2 DEF LockHeld, ReadIsDisk, InstalledIsDisk, Busy
  <2>4. cache' = Loaded(disk)'
    BY <1>7 DEF SaveReturns, LockInv, InstalledIsDisk, Loaded
  <2>5. CacheIsDisk'
    BY <2>4 DEF CacheIsDisk
  <2>6. QED
    BY <2>3, <2>5 DEF LockInv
<1>8. ASSUME NEW t \in Tasks, SaveEnds(t) PROVE LockInv'
  <2>1. \A u \in Tasks : u # t => job'[u] = job[u]
    BY <1>8 DEF SaveEnds, TypeInv, StoreTypeOK
  <2>2. QED
    BY <1>8, <2>1, AsideLocked DEF SaveEnds, Busy
<1>9. ASSUME NEW t \in Tasks, NEW i \in Ids, NEW d, NEW overwrite \in BOOLEAN,
             SaveCalled(t, i, d, overwrite)
      PROVE  LockInv'
  <2>1. \A u \in Tasks : u # t => job'[u] = job[u]
    BY <1>9 DEF SaveCalled, TypeInv, StoreTypeOK
  <2>2. QED
    BY <1>9, <2>1, AsideLocked DEF SaveCalled, At, Busy
<1>10. CASE StoreRestart
  <2>1. cache' = Loaded(disk)'
    BY <1>10 DEF StoreRestart, Loaded
  <2>2. \A u \in Tasks : spc'[u] = "Idle"
    BY <1>10 DEF StoreRestart
  <2>3. QED
    BY <2>1, <2>2 DEF LockInv, LockHeld, ReadIsDisk, InstalledIsDisk, CacheIsDisk, Busy
<1>11. CASE UNCHANGED storeVars
  BY <1>11 DEF storeVars, LockInv, LockHeld, ReadIsDisk, InstalledIsDisk, CacheIsDisk,
     Quiet, Loaded
<1>12. QED
  BY <1>1, <1>2, <1>3, <1>4, <1>5, <1>6, <1>7, <1>8, <1>9, <1>10, <1>11
     DEF StoreNext, SaveRuns, Submits, Updates

(***************************************************************************)
(* The store that uses its lock (rig_store) serves what its files say      *)
(* whenever no save is between opening its file and returning and no write *)
(* has failed since the files were read.  Without the lock the statement   *)
(* is false, as ObservatoryStore shows.                                    *)
(***************************************************************************)
THEOREM LockedStoreServesItsFiles ==
  ASSUME UsesLock
  PROVE  StoreSpec => []CacheIsDisk
<1>1. LockInv /\ TypeInv /\ [StoreNext]_storeVars => LockInv' /\ TypeInv'
  BY StepLocked, StepTyped
<1>2. LockInv => CacheIsDisk
  BY DEF LockInv
<1>3. QED
  BY <1>1, <1>2, InitLocked, InitTyped, PTL DEF StoreSpec

-----------------------------------------------------------------------------
(* The connection *)

ConnectionInv ==
  /\ client \in Messaging!Clients \cup {NoClient}
  /\ life \in [Messaging!Clients -> {"unborn", "running", "cancelled", "over"}]
  /\ NoClientRunsUnnamed

MessagingStep ==
  \/ \E t \in Tasks : \/ Messaging!StartMessaging(t) \/ Messaging!StopMessaging(t)
                      \/ Messaging!StopEnds(t) \/ Messaging!StartEnds(t)
  \/ \E k \in Messaging!Clients : Messaging!ClientEnds(k) \/ Messaging!Connects(k)
  \/ Messaging!MessagingRestart

LEMMA InitConnected == Messaging!MessagingInit => ConnectionInv
BY DEF Messaging!MessagingInit, ConnectionInv, NoClientRunsUnnamed,
   Messaging!NoClientRunsUnnamed

(* a client is created only when none is running *)
LEMMA CreatesConnected ==
  ASSUME ConnectionInv, NEW t \in Tasks, Messaging!Creates(t),
         \/ forgot'
         \/ \A k \in Messaging!Clients : life[k] # "running"
  PROVE  ConnectionInv'
<1>1. PICK k \in Messaging!Clients :
        /\ client' = k
        /\ task' = k
        /\ life' = [life EXCEPT ![k] = "running"]
  BY DEF Messaging!Creates
<1>2. QED
  BY <1>1 DEF ConnectionInv, NoClientRunsUnnamed, Messaging!NoClientRunsUnnamed

(* whoever is told to stop is the only one that runs *)
LEMMA CancelsConnected ==
  ASSUME ConnectionInv, NEW t \in Tasks, NEW starts, Messaging!Cancels(t, starts),
         UNCHANGED forgot
  PROVE  ConnectionInv'
BY DEF Messaging!Cancels, ConnectionInv, NoClientRunsUnnamed,
   Messaging!NoClientRunsUnnamed

LEMMA StepConnected == ConnectionInv /\ MessagingStep => ConnectionInv'
<1> SUFFICES ASSUME ConnectionInv, MessagingStep PROVE ConnectionInv'
  OBVIOUS
<1>1. ASSUME NEW t \in Tasks, Messaging!StartMessaging(t) PROVE ConnectionInv'
  <2>1. CASE client # NoClient
    BY <1>1, <2>1, CancelsConnected DEF Messaging!StartMessaging
  <2>2. CASE client = NoClient
    <3>1. \/ forgot'
          \/ \A k \in Messaging!Clients : life[k] # "running"
      BY <1>1, <2>2, NoClientAssumption
         DEF Messaging!StartMessaging, ConnectionInv, NoClientRunsUnnamed,
             Messaging!NoClientRunsUnnamed, Messaging!Clients
    <3>2. QED
      BY <1>1, <2>2, <3>1, CreatesConnected DEF Messaging!StartMessaging
  <2>3. QED
    BY <2>1, <2>2
<1>2. ASSUME NEW t \in Tasks, Messaging!StopMessaging(t) PROVE ConnectionInv'
  BY <1>2, CancelsConnected DEF Messaging!StopMessaging
<1>3. ASSUME NEW t \in Tasks, Messaging!StopEnds(t) PROVE ConnectionInv'
  <2>1. \/ forgot'
        \/ \A k \in Messaging!Clients : life[k] # "running"
    BY <1>3, NoClientAssumption
       DEF Messaging!StopEnds, ConnectionInv, NoClientRunsUnnamed,
           Messaging!NoClientRunsUnnamed, Messaging!Clients
  <2>2. CASE Messaging!Creates(t)
    BY <2>1, <2>2, CreatesConnected
  <2>3. CASE client' = NoClient /\ UNCHANGED life
    BY <2>1, <2>3 DEF ConnectionInv, NoClientRunsUnnamed, Messaging!NoClientRunsUnnamed
  <2>4. QED
    BY <1>3, <2>2, <2>3 DEF Messaging!StopEnds
<1>4. ASSUME NEW t \in Tasks, Messaging!StartEnds(t) PROVE ConnectionInv'
  BY <1>4 DEF Messaging!StartEnds, ConnectionInv, NoClientRunsUnnamed,
     Messaging!NoClientRunsUnnamed
<1>5. ASSUME NEW k \in Messaging!Clients, Messaging!ClientEnds(k) PROVE ConnectionInv'
  BY <1>5 DEF Messaging!ClientEnds, ConnectionInv, NoClientRunsUnnamed,
     Messaging!NoClientRunsUnnamed
<1>6. ASSUME NEW k \in Messaging!Clients, Messaging!Connects(k) PROVE ConnectionInv'
  BY <1>6 DEF Messaging!Connects, ConnectionInv, NoClientRunsUnnamed,
     Messaging!NoClientRunsUnnamed
<1>7. CASE Messaging!MessagingRestart
  BY <1>7 DEF Messaging!MessagingRestart, ConnectionInv, NoClientRunsUnnamed,
     Messaging!NoClientRunsUnnamed
<1>8. QED
  BY <1>1, <1>2, <1>3, <1>4, <1>5, <1>6, <1>7 DEF MessagingStep

(* the composition changes the connection by the connection's steps only *)
LEMMA NextIsMessagingStep == [Next]_vars => MessagingStep \/ UNCHANGED messagingVars
BY DEF Next, vars, MessagingStep, messagingVars, SelectFilter, WaitEnds,
   SyncFilterNames, AdoptFilterNames, UpdateReads, UpdateRaises, ThreadRuns, ThreadEnds,
   EndRun, MessagingTool, MessagingRuns, StartRun, SyncTool, SaveTool, ClientEnds,
   Connects, Receives, DriverExecutes, DriverReconfigured, Restart

LEMMA ConnectionStays ==
  ConnectionInv /\ UNCHANGED messagingVars => ConnectionInv'
BY DEF ConnectionInv, messagingVars, NoClientRunsUnnamed, Messaging!NoClientRunsUnnamed

LEMMA NextConnected == ConnectionInv /\ [Next]_vars => ConnectionInv'
BY NextIsMessagingStep, StepConnected, ConnectionStays

(***************************************************************************)
(* Every connection that is up is the one _client names, so that           *)
(* stop_messaging can stop it, unless two calls have awaited the end of    *)
(* one old client (start_messaging and stop_messaging).                    *)
(***************************************************************************)
THEOREM ConnectionsAreNamed == Spec => []NoClientRunsUnnamed
<1>1. Init => ConnectionInv
  BY InitConnected DEF Init
<1>2. ConnectionInv => NoClientRunsUnnamed
  BY DEF ConnectionInv
<1>3. QED
  BY <1>1, <1>2, NextConnected, PTL DEF Spec

-----------------------------------------------------------------------------
(* What the copies of the names are *)

(* what a wheel of as many slots as the driver's may be told *)
WheelNames == {n \in SlotMaps : SameSize(n, names)}

SlotNumbers == (UNION {DOMAIN n : n \in SlotMaps}) \cup {0, 1}

SlotCommands == [kind : {"slot"}, slot : SlotNumbers, name : FilterNames \cup {NoName},
                 sure : BOOLEAN]

NameCommands == [kind : {"names"}, slots : WheelNames]

WireInv ==
  /\ names \in SlotMaps
  /\ commands \in Seq(SlotCommands \cup NameCommands)
  /\ reports \in [Messaging!Clients -> Seq(WheelNames)]
  /\ known \in [Messaging!Clients -> WheelNames \cup {NoNames}]

TaskInv ==
  /\ ctx \in [Tasks -> [rig : Ids, slots : SlotMaps]]
  /\ step \in [Tasks -> [rig : Ids, then : {"return", "adopt", "select"},
                         filter : Filters \cup {NoFilter}, slots : SlotMaps,
                         sure : BOOLEAN]]

FilterTypes == WireInv /\ TaskInv

LEMMA SlotsAreMaps ==
  ASSUME StoreTypeOK, NEW r \in Ids, RigIsThere(r)
  PROVE  Slots(r) \in SlotMaps /\ cache[r].body \in Bodies
BY DEF StoreTypeOK, RigIsThere, Slots, SlotMaps, Definitions

LEMMA LiveIsMap ==
  ASSUME WireInv, ConnectionInv, client # NoClient, Live # NoNames
  PROVE  Live \in WheelNames /\ Live \in SlotMaps
BY DEF WireInv, ConnectionInv, Live, WheelNames

LEMMA NoContextTyped == NoContext \in [rig : Ids, slots : SlotMaps]
<1>1. (CHOOSE r \in Ids : TRUE) \in Ids
  BY IdsAssumption
<1>2. QED
  BY <1>1, NamesAssumption DEF NoContext

LEMMA NoStepTyped ==
  NoStep \in [rig : Ids, then : {"return", "adopt", "select"},
              filter : Filters \cup {NoFilter}, slots : SlotMaps, sure : BOOLEAN]
<1>1. NoContext.rig \in Ids
  BY NoContextTyped
<1>2. QED
  BY <1>1, NamesAssumption DEF NoStep

LEMMA InitFilterTypes == Init => FilterTypes
<1> SUFFICES ASSUME Init PROVE FilterTypes
  OBVIOUS
<1>1. WireInv
  BY NamesAssumption DEF Init, WireInv
<1>2. TaskInv
  BY NoContextTyped, NoStepTyped DEF Init, TaskInv
<1>3. QED
  BY <1>1, <1>2 DEF FilterTypes

(* The driver keeps its names: a wire's step. *)
LEMMA SendsTyped ==
  ASSUME WireInv, NEW c \in SlotCommands \cup NameCommands, Sends(c)
  PROVE  commands' \in Seq(SlotCommands \cup NameCommands)
BY DEF WireInv, Sends

LEMMA WireTyped ==
  ASSUME WireInv, UNCHANGED names,
         commands' \in Seq(SlotCommands \cup NameCommands),
         reports' \in [Messaging!Clients -> Seq(WheelNames)],
         known' \in [Messaging!Clients -> WheelNames \cup {NoNames}]
  PROVE  WireInv'
<1>1. WheelNames' = WheelNames
  BY DEF WheelNames
<1>2. QED
  BY <1>1 DEF WireInv, NameCommands, SlotCommands

LEMMA LeavesTyped ==
  ASSUME TaskInv, NEW t \in Tasks, Leaves(t)
  PROVE  TaskInv'
BY NoContextTyped, NoStepTyped DEF TaskInv, Leaves

LEMMA ContinuesTyped ==
  ASSUME TaskInv, NEW t \in Tasks, NEW to, NEW slots \in SlotMaps,
         Continues(t, to, slots)
  PROVE  TaskInv'
<1>1. step' \in [Tasks -> [rig : Ids, then : {"return", "adopt", "select"},
                 filter : Filters \cup {NoFilter}, slots : SlotMaps, sure : BOOLEAN]]
  BY NoStepTyped DEF TaskInv, Continues
<1>2. ctx' \in [Tasks -> [rig : Ids, slots : SlotMaps]]
  BY DEF TaskInv, Continues
<1>3. QED
  BY <1>1, <1>2 DEF TaskInv

LEMMA UpdatesFirstTyped ==
  ASSUME TaskInv, NEW t \in Tasks, NEW r \in Ids, NEW then \in {"adopt", "return", "select"},
         NEW filter \in Filters \cup {NoFilter}, Live \in SlotMaps,
         UpdatesFirst(t, r, then, filter), UNCHANGED ctx
  PROVE  TaskInv'
<1>1. (Live = names) \in BOOLEAN
  OBVIOUS
<1> DEFINE new == [rig |-> r, then |-> then, filter |-> filter, slots |-> Live,
                   sure |-> Live = names]
<1>2. new \in [rig : Ids, then : {"return", "adopt", "select"},
               filter : Filters \cup {NoFilter}, slots : SlotMaps, sure : BOOLEAN]
  BY <1>1, Zenon
<1>3. step' = [step EXCEPT ![t] = new]
  BY DEF UpdatesFirst
<1> HIDE DEF new
<1>4. QED
  BY <1>2, <1>3 DEF TaskInv

LEMMA NoFilterIsOne == NoFilter \in Filters \cup {NoFilter}
OBVIOUS

(* the slot that a filter's name resolves to *)
LEMMA ResolvesTyped ==
  ASSUME NEW slots \in SlotMaps, NEW filter \in Filters \cup {NoFilter},
         NEW s \in Resolves(slots, filter)
  PROVE  s \in SlotNumbers
BY DEF Resolves, Named, SlotNumbers, Filters, NoFilter

LEMMA MovesTyped ==
  ASSUME FilterTypes, NEW t \in Tasks, NEW slots \in SlotMaps,
         NEW filter \in Filters \cup {NoFilter}, NEW sure \in BOOLEAN,
         Moves(t, slots, filter, sure)
  PROVE  TaskInv' /\ commands' \in Seq(SlotCommands \cup NameCommands)
<1>1. ASSUME NEW s \in Resolves(slots, filter),
             Sends([kind |-> "slot", slot |-> s, name |-> filter.name, sure |-> sure]),
             Continues(t, "Wait", slots)
      PROVE  TaskInv' /\ commands' \in Seq(SlotCommands \cup NameCommands)
  <2>1. filter.name \in FilterNames \cup {NoName}
    BY DEF Filters, NoFilter
  <2>2. [kind |-> "slot", slot |-> s, name |-> filter.name, sure |-> sure] \in SlotCommands
    BY <1>1, <2>1, ResolvesTyped DEF SlotCommands
  <2>3. QED
    BY <1>1, <2>2, SendsTyped, ContinuesTyped DEF FilterTypes
<1>2. CASE Leaves(t) /\ UNCHANGED commands
  BY <1>2, LeavesTyped DEF FilterTypes, WireInv
<1>3. QED
  BY <1>1, <1>2 DEF Moves

LEMMA PushesTyped ==
  ASSUME FilterTypes, ConnectionInv, client # NoClient, NEW slots \in SlotMaps,
         Pushes(slots)
  PROVE  commands' \in Seq(SlotCommands \cup NameCommands)
<1>1. Live \in WheelNames
  BY LiveIsMap DEF Pushes, FilterTypes
<1>2. SameSize(slots, names)
  BY <1>1 DEF Pushes, SameSize, WheelNames
<1>3. [kind |-> "names", slots |-> slots] \in NameCommands
  BY <1>2 DEF NameCommands, WheelNames
<1>4. QED
  BY <1>3, SendsTyped DEF Pushes, FilterTypes

-----------------------------------------------------------------------------
(* Steps keep the types *)

LEMMA FilterStepTyped ==
  ASSUME FilterTypes, ConnectionInv, NEW t \in Tasks,
         \/ \E f \in Filters : SelectFilter(t, f)
         \/ SyncFilterNames(t)
         \/ AdoptFilterNames(t)
  PROVE  FilterTypes'
<1> USE DEF FilterTypes
<1>1. ctx[t].slots \in SlotMaps /\ ctx[t].rig \in Ids
  BY DEF TaskInv
<1>2. ASSUME NEW f \in Filters, SelectFilter(t, f) PROVE FilterTypes'
  <2>1. client # NoClient
    BY <1>2 DEF SelectFilter, Steps
  <2>2. CASE Moves(t, ctx[t].slots, f, Live = names)
    <3>1. (Live = names) \in BOOLEAN
      OBVIOUS
    <3>2. TaskInv' /\ commands' \in Seq(SlotCommands \cup NameCommands)
      BY <1>1, <2>2, <3>1, MovesTyped
    <3>3. QED
      BY <1>2, <3>2, WireTyped DEF SelectFilter, WireInv
  <2>3. CASE ~Agrees(t) /\ UpdatesFirst(t, ctx[t].rig, "select", f) /\ UNCHANGED ctx
    <3>1. Live \in SlotMaps
      BY <2>1, <2>3, LiveIsMap DEF Agrees
    <3>2. TaskInv'
      BY <1>1, <2>3, <3>1, UpdatesFirstTyped
    <3>3. QED
      BY <1>2, <2>3, <3>2, WireTyped DEF SelectFilter, UpdatesFirst, WireInv
  <2>4. QED
    BY <1>2, <2>2, <2>3 DEF SelectFilter
<1>3. CASE SyncFilterNames(t)
  <2>1. commands' \in Seq(SlotCommands \cup NameCommands)
    BY <1>1, <1>3, PushesTyped DEF SyncFilterNames, Steps
  <2>2. QED
    BY <1>3, <2>1, WireTyped DEF SyncFilterNames, WireInv, TaskInv
<1>4. CASE AdoptFilterNames(t)
  <2>1. Live \in SlotMaps
    BY <1>4, LiveIsMap DEF AdoptFilterNames, Steps, Adopts
  <2>2. TaskInv'
    BY <1>1, <1>4, <2>1, UpdatesFirstTyped DEF AdoptFilterNames, Adopts
  <2>3. QED
    BY <1>4, <2>2, WireTyped DEF AdoptFilterNames, Adopts, UpdatesFirst, WireInv
<1>5. QED
  BY <1>2, <1>3, <1>4

LEMMA ToolTyped ==
  ASSUME FilterTypes, ConnectionInv, StoreTypeOK, NEW t \in Tasks, NEW r \in Ids,
         SyncTool(t, r) \/ StartRun(t, r)
  PROVE  FilterTypes'
<1> USE DEF FilterTypes
<1>1. Slots(r) \in SlotMaps
  BY SlotsAreMaps DEF SyncTool, StartRun
<1>2. CASE SyncTool(t, r) /\ Pushes(Slots(r)) /\ UNCHANGED <<pc, step>>
  <2>1. commands' \in Seq(SlotCommands \cup NameCommands)
    BY <1>1, <1>2, PushesTyped DEF SyncTool
  <2>2. QED
    BY <1>2, <2>1, WireTyped DEF SyncTool, WireInv, TaskInv
<1>3. CASE SyncTool(t, r) /\ Adopts(t, r, Slots(r), "return")
  <2>1. Live \in SlotMaps
    BY <1>3, LiveIsMap DEF SyncTool, Adopts
  <2>2. TaskInv'
    BY <1>3, <2>1, NoFilterIsOne, UpdatesFirstTyped DEF SyncTool, Adopts
  <2>3. QED
    BY <1>3, <2>2, WireTyped DEF SyncTool, Adopts, UpdatesFirst, WireInv
<1>4. CASE StartRun(t, r)
  <2>1. ctx' \in [Tasks -> [rig : Ids, slots : SlotMaps]]
    BY <1>1, <1>4 DEF StartRun, TaskInv
  <2>2. QED
    BY <1>4, <2>1, WireTyped DEF StartRun, driverVars, WireInv, TaskInv
<1>5. QED
  BY <1>2, <1>3, <1>4 DEF SyncTool

LEMMA ThreadTyped ==
  ASSUME FilterTypes, NEW t \in Tasks, ThreadEnds(t)
  PROVE  FilterTypes'
<1> USE DEF FilterTypes
<1>1. /\ step[t].slots \in SlotMaps
      /\ step[t].filter \in Filters \cup {NoFilter}
      /\ step[t].sure \in BOOLEAN
  BY DEF TaskInv
<1>2. TaskInv' /\ commands' \in Seq(SlotCommands \cup NameCommands)
  <2>1. CASE Leaves(t) /\ UNCHANGED commands
    BY <2>1, LeavesTyped DEF WireInv
  <2>2. CASE Continues(t, "Ready", step[t].slots) /\ UNCHANGED commands
    BY <1>1, <2>2, ContinuesTyped DEF WireInv
  <2>3. CASE Moves(t, step[t].slots, step[t].filter, step[t].sure)
    BY <1>1, <2>3, MovesTyped
  <2>4. QED
    BY <2>1, <2>2, <2>3 DEF ThreadEnds
<1>3. QED
  BY <1>2, WireTyped DEF ThreadEnds, WireInv

LEMMA ClientTyped ==
  ASSUME FilterTypes, NEW k \in Messaging!Clients,
         ClientEnds(k) \/ Connects(k) \/ Receives(k)
  PROVE  FilterTypes'
<1> USE DEF FilterTypes
<1>1. names \in WheelNames
  BY DEF WireInv, WheelNames, SameSize
<1>2. UNCHANGED <<names, commands, ctx, step>>
  BY DEF ClientEnds, Connects, Receives, taskVars
<1>3. reports' \in [Messaging!Clients -> Seq(WheelNames)]
  <2>1. CASE ClientEnds(k)
    BY <2>1 DEF ClientEnds, WireInv
  <2>2. CASE Connects(k)
    <3>1. <<names>> \in Seq(WheelNames)
      BY <1>1
    <3>2. QED
      BY <2>2, <3>1 DEF Connects, WireInv
  <2>3. CASE Receives(k)
    <3>1. reports[k] \in Seq(WheelNames)
      BY DEF WireInv
    <3>2. reports[k] # <<>> => Tail(reports[k]) \in Seq(WheelNames)
      BY <3>1
    <3>3. \/ reports' = reports
          \/ reports[k] # <<>> /\ reports' = [reports EXCEPT ![k] = Tail(@)]
      BY <2>3 DEF Receives
    <3>4. QED
      BY <3>2, <3>3 DEF WireInv
  <2>4. QED
    BY <2>1, <2>2, <2>3
<1>4. known' \in [Messaging!Clients -> WheelNames \cup {NoNames}]
  BY DEF ClientEnds, Connects, Receives, WireInv
<1>5. QED
  BY <1>2, <1>3, <1>4, WireTyped DEF WireInv, TaskInv

(* the driver's names have as many slots as before *)
LEMMA NamesChangeTyped ==
  ASSUME FilterTypes, NEW new \in SlotMaps, DOMAIN new = DOMAIN names,
         NEW queue \in Seq(SlotCommands \cup NameCommands),
         NamesChange(new, queue), UNCHANGED <<known, ctx>>
  PROVE  FilterTypes'
<1> USE DEF FilterTypes
<1>1. WheelNames' = WheelNames
  BY DEF NamesChange, WheelNames, SameSize
<1>2. new \in WheelNames
  BY DEF WheelNames, SameSize
<1>3. Unsure(queue) \in Seq(SlotCommands \cup NameCommands)
  <2>1. DOMAIN queue = 1 .. Len(queue) /\ Len(queue) \in Nat
    OBVIOUS
  <2>2. ASSUME NEW i \in 1 .. Len(queue)
        PROVE  (IF queue[i].kind = "slot" THEN [queue[i] EXCEPT !.sure = FALSE]
                                          ELSE queue[i]) \in SlotCommands \cup NameCommands
    <3>1. queue[i] \in SlotCommands \cup NameCommands
      BY <2>2
    <3>2. QED
      BY <3>1 DEF SlotCommands, NameCommands
  <2>3. Unsure(queue) \in [1 .. Len(queue) -> SlotCommands \cup NameCommands]
    BY <2>1, <2>2, Zenon DEF Unsure
  <2>4. QED
    BY <2>1, <2>3
<1>4. reports' \in [Messaging!Clients -> Seq(WheelNames)]
  BY <1>2 DEF NamesChange, WireInv
<1>5. WireInv'
  BY <1>1, <1>3, <1>4 DEF NamesChange, WireInv, NameCommands, SlotCommands
<1>6. TaskInv'
  BY DEF NamesChange, TaskInv
<1>7. QED
  BY <1>5, <1>6

LEMMA DriverTyped ==
  ASSUME FilterTypes,
         DriverExecutes \/ \E new \in DriverNames : DriverReconfigured(new)
  PROVE  FilterTypes'
<1> USE DEF FilterTypes
<1>1. CASE DriverExecutes
  <2> DEFINE c == Head(commands)
  <2>1. c \in SlotCommands \cup NameCommands
        /\ Tail(commands) \in Seq(SlotCommands \cup NameCommands)
    BY <1>1 DEF DriverExecutes, WireInv
  <2>2. CASE c.kind = "names" /\ NamesChange(Renamed(names, c.slots), Tail(commands))
    <3>1. c.slots \in WheelNames
      BY <2>1, <2>2 DEF SlotCommands, NameCommands
    <3>2. Renamed(names, c.slots) \in SlotMaps
      BY <3>1, BodiesAssumption DEF WireInv, WheelNames, SameSize
    <3>3. DOMAIN Renamed(names, c.slots) = DOMAIN names
      BY DEF Renamed
    <3>4. QED
      BY <1>1, <2>1, <2>2, <3>2, <3>3, NamesChangeTyped DEF DriverExecutes
  <2>3. CASE commands' = Tail(commands) /\ UNCHANGED <<names, reports, step>>
    BY <1>1, <2>1, <2>3, WireTyped DEF DriverExecutes, WireInv, TaskInv
  <2>4. QED
    BY <1>1, <2>2, <2>3 DEF DriverExecutes
<1>2. ASSUME NEW new \in DriverNames, DriverReconfigured(new) PROVE FilterTypes'
  <2>1. new \in SlotMaps
    BY NamesAssumption
  <2>2. QED
    BY <1>2, <2>1, NamesChangeTyped DEF DriverReconfigured, WireInv
<1>3. QED
  BY <1>1, <1>2

LEMMA RestartTyped == FilterTypes /\ Restart => FilterTypes'
<1> SUFFICES ASSUME FilterTypes, Restart PROVE FilterTypes'
  OBVIOUS
<1>1. TaskInv'
  BY NoContextTyped, NoStepTyped DEF Restart, TaskInv
<1>2. reports' \in [Messaging!Clients -> Seq(WheelNames)]
  BY DEF Restart, FilterTypes, WireInv
<1>3. known' \in [Messaging!Clients -> WheelNames \cup {NoNames}]
  BY DEF Restart, FilterTypes, WireInv
<1>4. QED
  BY <1>1, <1>2, <1>3, WireTyped DEF Restart, FilterTypes, WireInv

LEMMA NextTyped ==
  FilterTypes /\ ConnectionInv /\ StoreTypeOK /\ [Next]_vars => FilterTypes'
<1> SUFFICES ASSUME FilterTypes, ConnectionInv, StoreTypeOK, [Next]_vars
             PROVE  FilterTypes'
  OBVIOUS
<1>1. ASSUME NEW t \in Tasks,
             \/ \E f \in Filters : SelectFilter(t, f)
             \/ SyncFilterNames(t)
             \/ AdoptFilterNames(t)
      PROVE  FilterTypes'
  BY <1>1, FilterStepTyped
<1>2. ASSUME NEW t \in Tasks, NEW r \in Ids, SyncTool(t, r) \/ StartRun(t, r)
      PROVE  FilterTypes'
  BY <1>2, ToolTyped
<1>3. ASSUME NEW t \in Tasks, ThreadEnds(t) PROVE FilterTypes'
  BY <1>3, ThreadTyped
<1>4. ASSUME NEW t \in Tasks, UpdateRaises(t) \/ EndRun(t) PROVE FilterTypes'
  <2>1. TaskInv' /\ UNCHANGED driverVars
    BY <1>4, LeavesTyped DEF UpdateRaises, EndRun, FilterTypes
  <2>2. QED
    BY <2>1, WireTyped DEF driverVars, FilterTypes, WireInv
<1>5. ASSUME NEW k \in Messaging!Clients, ClientEnds(k) \/ Connects(k) \/ Receives(k)
      PROVE  FilterTypes'
  BY <1>5, ClientTyped
<1>6. CASE DriverExecutes \/ \E new \in DriverNames : DriverReconfigured(new)
  BY <1>6, DriverTyped
<1>7. CASE Restart
  BY <1>7, RestartTyped
<1>8. CASE UNCHANGED <<driverVars, ctx, step>>
  BY <1>8, WireTyped DEF driverVars, FilterTypes, WireInv, TaskInv
<1>9. ASSUME NEW t \in Tasks,
             \/ WaitEnds(t) \/ UpdateReads(t) \/ ThreadRuns(t)
             \/ MessagingTool(t) \/ MessagingRuns(t)
             \/ \E r \in Ids, b \in Drafts, overwrite \in BOOLEAN :
                  SaveTool(t, r, b, overwrite)
      PROVE  UNCHANGED <<driverVars, ctx, step>>
  BY <1>9 DEF WaitEnds, UpdateReads, ThreadRuns, MessagingTool, MessagingRuns, SaveTool,
     taskVars
<1>10. QED
  BY <1>1, <1>2, <1>3, <1>4, <1>5, <1>6, <1>7, <1>8, <1>9 DEF Next, vars, taskVars

-----------------------------------------------------------------------------
(* The store *)

LEMMA UpdateIsTheStores ==
  ASSUME FilterTypes, StoreTypeOK, NEW t \in Tasks, UpdateReads(t)
  PROVE  StoreNext
<1>1. step[t].rig \in Ids /\ step[t].slots \in SlotMaps
  BY DEF FilterTypes, TaskInv
<1>2. cache[step[t].rig].body \in Bodies /\ cache[step[t].rig].body.wheels = 1
  BY <1>1, SlotsAreMaps DEF UpdateReads, RigIsThere
<1>3. [cache[step[t].rig].body EXCEPT !.slots = step[t].slots] \in Bodies
  BY <1>1, <1>2, BodiesAssumption
<1>4. QED
  BY <1>1, <1>3 DEF UpdateReads, StoreNext

(* the composition changes the store by the store's steps only *)
LEMMA NextIsStoreStep ==
  FilterTypes /\ StoreTypeOK /\ [Next]_vars => [StoreNext]_storeVars
<1> SUFFICES ASSUME FilterTypes, StoreTypeOK, [Next]_vars PROVE [StoreNext]_storeVars
  OBVIOUS
<1>1. ASSUME NEW t \in Tasks, UpdateReads(t) PROVE StoreNext
  BY <1>1, UpdateIsTheStores
<1>2. ASSUME NEW t \in Tasks, ThreadRuns(t) \/ ThreadEnds(t) PROVE StoreNext
  BY <1>2 DEF ThreadRuns, ThreadEnds, StoreNext
<1>3. ASSUME NEW t \in Tasks, NEW r \in Ids, NEW b \in Drafts, NEW overwrite \in BOOLEAN,
             SaveTool(t, r, b, overwrite)
      PROVE  StoreNext
  BY <1>3, DraftsAssumption DEF SaveTool, StoreNext
<1>4. CASE Restart
  BY <1>4 DEF Restart, StoreNext
<1>5. CASE UNCHANGED vars
  BY <1>5 DEF vars
<1>6. ASSUME NEW t \in Tasks,
             \/ \E f \in Filters : SelectFilter(t, f)
             \/ WaitEnds(t) \/ SyncFilterNames(t) \/ AdoptFilterNames(t)
             \/ UpdateRaises(t) \/ EndRun(t) \/ MessagingTool(t) \/ MessagingRuns(t)
             \/ \E r \in Ids : StartRun(t, r) \/ SyncTool(t, r)
      PROVE  UNCHANGED storeVars
  BY <1>6 DEF SelectFilter, WaitEnds, SyncFilterNames, AdoptFilterNames, UpdateRaises,
     EndRun, MessagingTool, MessagingRuns, StartRun, SyncTool
<1>7. ASSUME NEW k \in Messaging!Clients, ClientEnds(k) \/ Connects(k) \/ Receives(k)
      PROVE  UNCHANGED storeVars
  BY <1>7 DEF ClientEnds, Connects, Receives
<1>8. CASE DriverExecutes \/ \E new \in DriverNames : DriverReconfigured(new)
  BY <1>8 DEF DriverExecutes, DriverReconfigured
<1>9. QED
  BY <1>1, <1>2, <1>3, <1>4, <1>5, <1>6, <1>7, <1>8 DEF Next

IInv == TypeInv /\ ConnectionInv /\ FilterTypes

LEMMA InitIInv == Init => IInv
BY InitTyped, InitConnected, InitFilterTypes DEF Init, IInv

LEMMA NextKeepsIInv == IInv /\ [Next]_vars => IInv' /\ [StoreNext]_storeVars
BY NextIsStoreStep, StepTyped, NextConnected, NextTyped DEF IInv, TypeInv

(***************************************************************************)
(* The composition implements the rig store: whatever runs, tools, the     *)
(* connection and the driver do, the files and the dictionary change only  *)
(* by save_rig, update_component_slots and a restart.                      *)
(***************************************************************************)
THEOREM FiltersImplementStore == Spec => StoreSpec
<1>1. Init => StoreInit
  BY DEF Init
<1>2. QED
  BY <1>1, InitIInv, NextKeepsIInv, PTL DEF Spec, StoreSpec

(***************************************************************************)
(* While no save is between opening its file and returning, and no write   *)
(* has failed since the files were read, runs and tools are served the     *)
(* rigs that are on file (save_rig, under its lock), the slots that a      *)
(* filter step adopts included.                                            *)
(***************************************************************************)
THEOREM RigsAreServedAsFiled == Spec => []CacheIsDisk
<1>1. StoreSpec => []CacheIsDisk
  BY LockAssumption, LockedStoreServesItsFiles
<1>2. QED
  BY <1>1, FiltersImplementStore, PTL

-----------------------------------------------------------------------------
(* The filter that is meant *)

SureCommand(c) ==
  c.kind = "slot" /\ c.name # NoName /\ c.sure => Named(names, c.name) = {c.slot}

(* who is sure read the names that the driver still has *)
SureStep(t) == step[t].sure => step[t].slots = names

SureCommands == \A i \in DOMAIN commands : SureCommand(commands[i])

SureInv == SureCommands /\ \A t \in Tasks : SureStep(t)

LEMMA SureIsSelected == SureInv => NamedFilterIsSelected
BY DEF SureInv, SureCommands, SureCommand, NamedFilterIsSelected

LEMMA InitSure == Init => SureInv
BY DEF Init, SureInv, SureCommands, SureStep, NoStep

(* one slot, or none: _resolve_filter_slot *)
LEMMA ResolvesOne ==
  ASSUME NEW slots \in SlotMaps, NEW filter, filter.name # NoName,
         NEW s \in Resolves(slots, filter)
  PROVE  Named(slots, filter.name) = {s}
<1> DEFINE matches == Named(slots, filter.name)
<1>1. s \in matches /\ Cardinality(matches) = 1
  BY DEF Resolves
<1>2. IsFiniteSet(DOMAIN slots) /\ matches \in SUBSET DOMAIN slots
  BY NamesAssumption DEF Named
<1>3. IsFiniteSet(matches)
  BY <1>2, FS_Subset
<1>4. PICK x : matches = {x}
  BY <1>1, <1>3, FS_Singleton
<1>5. QED
  BY <1>1, <1>4

(* the driver's names and the tasks' steps stay, or lose what they were sure of *)
LEMMA SureStays ==
  ASSUME SureInv, FilterTypes, UNCHANGED names,
         \A t \in Tasks : step'[t] = step[t] \/ ~step'[t].sure,
         \/ UNCHANGED commands
         \/ \E c \in SlotCommands \cup NameCommands :
              SureCommand(c) /\ commands' = Append(commands, c)
  PROVE  SureInv'
<1>1. \A t \in Tasks : SureStep(t)'
  BY DEF SureInv, SureStep
<1>2. ASSUME NEW i \in DOMAIN commands' PROVE SureCommand(commands'[i])
  <2>1. CASE UNCHANGED commands
    BY <1>2, <2>1 DEF SureInv, SureCommands
  <2>2. ASSUME NEW c \in SlotCommands \cup NameCommands, SureCommand(c),
               commands' = Append(commands, c)
        PROVE  SureCommand(commands'[i])
    <3>1. commands \in Seq(SlotCommands \cup NameCommands)
      BY DEF FilterTypes, WireInv
    <3>2. /\ DOMAIN commands = 1 .. Len(commands)
          /\ Len(commands) \in Nat
          /\ DOMAIN commands' = 1 .. Len(commands) + 1
      BY <2>2, <3>1
    <3>3. CASE i = Len(commands) + 1
      BY <2>2, <3>1, <3>3
    <3>4. CASE i \in 1 .. Len(commands)
      <4>1. commands'[i] = commands[i]
        BY <2>2, <3>1, <3>4
      <4>2. SureCommand(commands[i])
        BY <3>2, <3>4 DEF SureInv, SureCommands
      <4>3. QED
        BY <4>1, <4>2
    <3>5. QED
      BY <1>2, <3>2, <3>3, <3>4
  <2>3. QED
    BY <2>1, <2>2
<1>3. SureCommands'
  BY <1>2 DEF SureCommands, SureCommand
<1>4. QED
  BY <1>1, <1>3 DEF SureInv

LEMMA SendsSure ==
  ASSUME FilterTypes, NEW c \in SlotCommands \cup NameCommands, SureCommand(c), Sends(c)
  PROVE  \/ UNCHANGED commands
         \/ \E d \in SlotCommands \cup NameCommands :
              SureCommand(d) /\ commands' = Append(commands, d)
BY DEF Sends

LEMMA OneStepUnsure ==
  ASSUME FilterTypes, NEW t \in Tasks, step' = [step EXCEPT ![t] = NoStep]
  PROVE  \A u \in Tasks : step'[u] = step[u] \/ ~step'[u].sure
BY DEF FilterTypes, TaskInv, NoStep

LEMMA MovesSure ==
  ASSUME SureInv, FilterTypes, NEW t \in Tasks, NEW slots \in SlotMaps,
         NEW filter \in Filters \cup {NoFilter}, NEW sure \in BOOLEAN,
         sure => slots = names, Moves(t, slots, filter, sure), UNCHANGED names
  PROVE  SureInv'
<1>1. \A u \in Tasks : step'[u] = step[u] \/ ~step'[u].sure
  BY OneStepUnsure DEF Moves, Continues, Leaves
<1>2. ASSUME NEW s \in Resolves(slots, filter),
             Sends([kind |-> "slot", slot |-> s, name |-> filter.name, sure |-> sure])
      PROVE  SureInv'
  <2> DEFINE c == [kind |-> "slot", slot |-> s, name |-> filter.name, sure |-> sure]
  <2>1. filter.name \in FilterNames \cup {NoName}
    BY DEF Filters, NoFilter
  <2>2. c \in SlotCommands
    BY <2>1, ResolvesTyped DEF SlotCommands
  <2>3. SureCommand(c)
    BY ResolvesOne DEF SureCommand
  <2>4. QED
    BY <1>1, <1>2, <2>2, <2>3, SendsSure, SureStays
<1>3. CASE UNCHANGED commands
  BY <1>1, <1>3, SureStays
<1>4. QED
  BY <1>2, <1>3 DEF Moves

LEMMA UpdatesFirstSure ==
  ASSUME SureInv, FilterTypes, NEW t \in Tasks, NEW r, NEW then, NEW filter,
         UpdatesFirst(t, r, then, filter), UNCHANGED names
  PROVE  SureInv'
<1>1. \A u \in Tasks : SureStep(u)'
  <2> SUFFICES ASSUME NEW u \in Tasks, step'[u].sure PROVE step'[u].slots = names
    BY DEF SureStep
  <2>1. CASE u = t
    BY <2>1 DEF UpdatesFirst, FilterTypes, TaskInv
  <2>2. CASE u # t
    BY <2>2 DEF UpdatesFirst, FilterTypes, TaskInv, SureInv, SureStep
  <2>3. QED
    BY <2>1, <2>2
<1>2. QED
  BY <1>1 DEF SureInv, SureCommands, SureCommand, UpdatesFirst

LEMMA PushesSure ==
  ASSUME SureInv, FilterTypes, ConnectionInv, client # NoClient, NEW slots \in SlotMaps,
         Pushes(slots), UNCHANGED <<names, step>>
  PROVE  SureInv'
<1>1. SameSize(slots, names)
  BY LiveIsMap DEF Pushes, SameSize, WheelNames, FilterTypes
<1>2. [kind |-> "names", slots |-> slots] \in NameCommands
  BY <1>1 DEF NameCommands, WheelNames
<1>3. SureCommand([kind |-> "names", slots |-> slots])
  BY DEF SureCommand
<1>4. QED
  BY <1>2, <1>3, SendsSure, SureStays DEF Pushes

(* nobody is sure of names that have changed *)
LEMMA NamesChangeSure ==
  ASSUME FilterTypes, NEW new, NEW queue \in Seq(SlotCommands \cup NameCommands),
         NamesChange(new, queue)
  PROVE  SureInv'
<1>1. \A t \in Tasks : ~step'[t].sure
  BY DEF NamesChange, FilterTypes, TaskInv
<1>2. ASSUME NEW i \in DOMAIN commands' PROVE ~(commands'[i].kind = "slot" /\ commands'[i].sure)
  <2>1. i \in DOMAIN queue /\ queue[i] \in SlotCommands \cup NameCommands
    BY <1>2 DEF NamesChange, Unsure
  <2>2. commands'[i] = IF queue[i].kind = "slot" THEN [queue[i] EXCEPT !.sure = FALSE]
                                                 ELSE queue[i]
    BY <2>1 DEF NamesChange, Unsure
  <2>3. QED
    BY <2>1, <2>2 DEF SlotCommands, NameCommands
<1>3. QED
  BY <1>1, <1>2 DEF SureInv, SureStep, SureCommands, SureCommand

LEMMA FilterStepSure ==
  ASSUME SureInv, FilterTypes, ConnectionInv, NEW t \in Tasks,
         \/ \E f \in Filters : SelectFilter(t, f)
         \/ SyncFilterNames(t)
         \/ AdoptFilterNames(t)
  PROVE  SureInv'
<1>1. ctx[t].slots \in SlotMaps
  BY DEF FilterTypes, TaskInv
<1>2. ASSUME NEW f \in Filters, SelectFilter(t, f) PROVE SureInv'
  <2>1. CASE Agrees(t) /\ Moves(t, ctx[t].slots, f, Live = names)
    <3>1. Live = names => ctx[t].slots = names
      BY <2>1, NamesAssumption DEF Agrees, FilterTypes, WireInv
    <3>2. (Live = names) \in BOOLEAN
      OBVIOUS
    <3>3. QED
      BY <1>1, <1>2, <2>1, <3>1, <3>2, MovesSure DEF SelectFilter
  <2>2. CASE UpdatesFirst(t, ctx[t].rig, "select", f)
    BY <1>2, <2>2, UpdatesFirstSure DEF SelectFilter
  <2>3. QED
    BY <1>2, <2>1, <2>2 DEF SelectFilter
<1>3. CASE SyncFilterNames(t)
  BY <1>1, <1>3, PushesSure DEF SyncFilterNames, Steps
<1>4. CASE AdoptFilterNames(t)
  BY <1>4, UpdatesFirstSure DEF AdoptFilterNames, Adopts
<1>5. QED
  BY <1>2, <1>3, <1>4

LEMMA SyncToolSure ==
  ASSUME SureInv, FilterTypes, ConnectionInv, StoreTypeOK, NEW t \in Tasks,
         NEW r \in Ids, SyncTool(t, r)
  PROVE  SureInv'
<1>1. Slots(r) \in SlotMaps
  BY SlotsAreMaps DEF SyncTool
<1>2. CASE Pushes(Slots(r)) /\ UNCHANGED step
  BY <1>1, <1>2, PushesSure DEF SyncTool
<1>3. CASE Adopts(t, r, Slots(r), "return")
  BY <1>3, UpdatesFirstSure DEF SyncTool, Adopts
<1>4. QED
  BY <1>2, <1>3 DEF SyncTool

LEMMA ThreadSure ==
  ASSUME SureInv, FilterTypes, NEW t \in Tasks, ThreadEnds(t)
  PROVE  SureInv'
<1>1. /\ step[t].slots \in SlotMaps
      /\ step[t].filter \in Filters \cup {NoFilter}
      /\ step[t].sure \in BOOLEAN
  BY DEF FilterTypes, TaskInv
<1>2. CASE UNCHANGED commands /\ step' = [step EXCEPT ![t] = NoStep]
  BY <1>2, OneStepUnsure, SureStays DEF ThreadEnds
<1>3. CASE Moves(t, step[t].slots, step[t].filter, step[t].sure)
  BY <1>1, <1>3, MovesSure DEF ThreadEnds, SureInv, SureStep
<1>4. QED
  BY <1>2, <1>3 DEF ThreadEnds, Leaves, Continues

LEMMA DriverSure ==
  ASSUME SureInv, FilterTypes,
         DriverExecutes \/ \E new \in DriverNames : DriverReconfigured(new)
  PROVE  SureInv'
<1>1. CASE DriverExecutes
  <2>1. /\ commands # <<>>
        /\ Tail(commands) \in Seq(SlotCommands \cup NameCommands)
    BY <1>1 DEF DriverExecutes, FilterTypes, WireInv
  <2>2. CASE NamesChange(Renamed(names, Head(commands).slots), Tail(commands))
    BY <2>1, <2>2, NamesChangeSure
  <2>3. CASE commands' = Tail(commands) /\ UNCHANGED <<names, step>>
    <3>1. ASSUME NEW i \in DOMAIN commands' PROVE SureCommand(commands'[i])
      <4>1. i + 1 \in DOMAIN commands /\ commands'[i] = commands[i + 1]
        BY <2>1, <2>3, <3>1 DEF FilterTypes, WireInv
      <4>2. QED
        BY <4>1 DEF SureInv, SureCommands
    <3>2. SureCommands'
      BY <2>3, <3>1 DEF SureCommands, SureCommand
    <3>3. QED
      BY <2>3, <3>2 DEF SureInv, SureStep
  <2>4. QED
    BY <1>1, <2>2, <2>3 DEF DriverExecutes
<1>2. ASSUME NEW new \in DriverNames, DriverReconfigured(new) PROVE SureInv'
  BY <1>2, NamesChangeSure DEF DriverReconfigured, FilterTypes, WireInv
<1>3. QED
  BY <1>1, <1>2

LEMMA NextSure == IInv /\ SureInv /\ [Next]_vars => SureInv'
<1> SUFFICES ASSUME IInv, SureInv, [Next]_vars PROVE SureInv'
  OBVIOUS
<1> USE DEF IInv, TypeInv
<1>1. ASSUME NEW t \in Tasks,
             \/ \E f \in Filters : SelectFilter(t, f)
             \/ SyncFilterNames(t)
             \/ AdoptFilterNames(t)
      PROVE  SureInv'
  BY <1>1, FilterStepSure
<1>2. ASSUME NEW t \in Tasks, NEW r \in Ids, SyncTool(t, r) PROVE SureInv'
  BY <1>2, SyncToolSure
<1>3. ASSUME NEW t \in Tasks, ThreadEnds(t) PROVE SureInv'
  BY <1>3, ThreadSure
<1>4. ASSUME NEW t \in Tasks, UpdateRaises(t) \/ EndRun(t) PROVE SureInv'
  BY <1>4, OneStepUnsure, SureStays DEF UpdateRaises, EndRun, Leaves, driverVars
<1>5. CASE DriverExecutes \/ \E new \in DriverNames : DriverReconfigured(new)
  BY <1>5, DriverSure
<1>6. CASE Restart
  BY <1>6, SureStays DEF Restart, NoStep
<1>7. CASE UNCHANGED <<names, commands, step>>
  BY <1>7, SureStays
<1>8. ASSUME NEW t \in Tasks,
             \/ WaitEnds(t) \/ UpdateReads(t) \/ ThreadRuns(t)
             \/ MessagingTool(t) \/ MessagingRuns(t)
             \/ \E r \in Ids : StartRun(t, r)
             \/ \E r \in Ids, b \in Drafts, overwrite \in BOOLEAN :
                  SaveTool(t, r, b, overwrite)
      PROVE  UNCHANGED <<names, commands, step>>
  BY <1>8 DEF WaitEnds, UpdateReads, ThreadRuns, MessagingTool, MessagingRuns, StartRun,
     SaveTool, taskVars, driverVars
<1>9. ASSUME NEW k \in Messaging!Clients, ClientEnds(k) \/ Connects(k) \/ Receives(k)
      PROVE  UNCHANGED <<names, commands, step>>
  BY <1>9 DEF ClientEnds, Connects, Receives, taskVars
<1>10. QED
  BY <1>1, <1>2, <1>3, <1>4, <1>5, <1>6, <1>7, <1>8, <1>9
     DEF Next, vars, taskVars, driverVars

(***************************************************************************)
(* A wheel that is sent to the filter of a name is sent to the one slot    *)
(* which the driver itself gives that name, although the slot number was   *)
(* looked up in the rig's names and, when the rig had none, after the copy *)
(* of the driver's names was saved in a thread (select_filter).  This is   *)
(* so for every command whose step read the driver's names as they are.    *)
(***************************************************************************)
THEOREM NamesMeanTheDriversSlots == Spec => []NamedFilterIsSelected
BY InitIInv, InitSure, NextKeepsIInv, NextSure, SureIsSelected, PTL DEF Spec
=============================================================================

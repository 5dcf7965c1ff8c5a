----------------------------- MODULE RigFilters -----------------------------
(***************************************************************************)
(* The filter wheel: three copies of its filter names that must agree when *)
(* a script asks for a filter by name.  The driver has them; the messaging *)
(* client has what the driver last reported; the rig has them in its file, *)
(* in the store's dictionary and, from there, in each run's own context.   *)
(* select_filter compares, copies them onto a rig that has none, and       *)
(* refuses when they differ; sync_filter_names and                         *)
(* adopt_filter_names_from_driver make them agree, as a script's step or   *)
(* as a tool call.                                                         *)
(*                                                                         *)
(* The module extends the rig store (RigStore) and composes it with the    *)
(* connection (MessagingClient) and the engine's filter steps.  A body of  *)
(* the store is what a rig says of its filter wheels: how many there are   *)
(* (wheels) and the filter in each slot (slots).  All rigs are of the one  *)
(* wheel there is.  Its driver is external: it executes commands in order, *)
(* may refuse new names, and may be reconfigured by its operator.          *)
(***************************************************************************)
EXTENDS RigStore, Sequences, FiniteSets

CONSTANTS
  Drafts,      \* the bodies that clients submit
  FilterNames, \* filter names
  DriverNames, \* the names the driver may be configured with
  MaxClients, MaxCalls, MaxRenames, MaxRestarts,  \* bounds
  NoClient,    \* None
  NoNames,     \* the client has no FILTER_NAME of the device
  NoName       \* a filter asked for by slot number

(* no names: of a rig that says nothing of its wheel's slots *)
NoSlots == [s \in {} |-> NoName]

SlotMaps == {b.slots : b \in Bodies}

(* what FILTER_NAME is after a driver that had `old` was sent `new` *)
Renamed(old, new) ==
  [s \in DOMAIN old |-> IF s \in DOMAIN new THEN new[s] ELSE old[s]]

SameSize(m, n) == Cardinality(DOMAIN m) = Cardinality(DOMAIN n)

ASSUME LockAssumption == UsesLock
ASSUME NoClientAssumption == NoClient \notin 1 .. MaxClients
ASSUME DraftsAssumption == Drafts \subseteq Bodies
ASSUME NamesAssumption ==
  /\ DriverNames \subseteq SlotMaps
  /\ NoSlots \in SlotMaps
  /\ NoNames \notin SlotMaps
  /\ \A n \in SlotMaps : IsFiniteSet(DOMAIN n)
ASSUME BodiesAssumption ==
  /\ \A b \in Bodies, n \in SlotMaps :
       b.wheels = 1 => [b EXCEPT !.slots = n] \in Bodies
  /\ \A m, n \in SlotMaps : SameSize(m, n) => Renamed(m, n) \in SlotMaps

VARIABLES
  client, task, life, connected, mpc, call, forgot,          \* MessagingClient
  names,       \* the driver's filter names
  commands,    \* commands on their way to the driver
  reports,     \* FILTER_NAME reports on their way to each client
  known,       \* FILTER_NAME as each client knows it
  moves,       \* whether each client knows FILTER_SLOT
  pc,          \* where each task is
  ctx,         \* each run's context: its rig and role_to_slots
  step,        \* what a task that waits for a thread goes on with
  calls, renames, restarts  \* tool calls and steps, and more for the bounds

Messaging == INSTANCE MessagingClient

messagingVars == <<client, task, life, connected, mpc, call, forgot>>
driverVars == <<names, commands, reports, known, moves, renames>>
taskVars == <<pc, ctx, step, calls>>
vars == <<storeVars, messagingVars, driverVars, taskVars, restarts>>

NoContext == [rig |-> CHOOSE r \in Ids : TRUE, slots |-> NoSlots]

NoFilter == [name |-> NoName, slot |-> 0]

NoStep == [rig |-> NoContext.rig, then |-> "return", filter |-> NoFilter,
           slots |-> NoSlots, sure |-> FALSE]

Init ==
  /\ StoreInit
  /\ Messaging!MessagingInit
  /\ names \in DriverNames
  /\ commands = <<>>
  /\ reports = [k \in Messaging!Clients |-> <<>>]
  /\ known = [k \in Messaging!Clients |-> NoNames]
  /\ moves = [k \in Messaging!Clients |-> FALSE]
  /\ pc = [t \in Tasks |-> "Idle"]
  /\ ctx = [t \in Tasks |-> NoContext]
  /\ step = [t \in Tasks |-> NoStep]
  /\ calls = 0
  /\ renames = 0
  /\ restarts = 0

-----------------------------------------------------------------------------
(* What the operations share *)

Counted == calls < MaxCalls /\ calls' = calls + 1

Called(t) == pc[t] = "Idle" /\ Counted

Steps(t) == pc[t] = "Ready" /\ client # NoClient /\ Counted

(* a call returns or raises, or a run ends *)
Leaves(t) ==
  /\ pc' = [pc EXCEPT ![t] = "Idle"]
  /\ ctx' = [ctx EXCEPT ![t] = NoContext]
  /\ step' = [step EXCEPT ![t] = NoStep]

Continues(t, to, slots) ==
  /\ pc' = [pc EXCEPT ![t] = to]
  /\ ctx' = [ctx EXCEPT ![t].slots = slots]
  /\ step' = [step EXCEPT ![t] = NoStep]

(* get_rig takes the lock, and raises for an id it does not have; a role    *)
(* must be that of exactly one component.                                   *)
RigIsThere(r) ==
  /\ Free
  /\ cache[r] # NoFile
  /\ cache[r].body.wheels = 1

Slots(r) == cache[r].body.slots

(* get_property_values of FILTER_NAME, read by filter_slots *)
Live == known[client]

Named(slots, name) == {s \in DOMAIN slots : slots[s] = name}

(* a command written to the connection; one that is closing loses it *)
Sends(command) ==
  commands' = IF life[client] = "running" /\ connected[client]
                THEN Append(commands, command) ELSE commands

-----------------------------------------------------------------------------
(* select_filter *)

(* _resolve_filter_slot: one slot, or an empty set when it raises *)
Resolves(slots, filter) ==
  LET matches == Named(slots, filter.name) IN
    IF filter.name = NoName THEN {filter.slot}
    ELSE IF Cardinality(matches) = 1 THEN matches ELSE {}

(* The step from there on: it sends the slot and waits for the wheel, or    *)
(* raises and so ends the run.                                              *)
Moves(t, slots, filter, sure) ==
  LET sendable == client # NoClient /\ moves[client] IN
  \/ \E s \in Resolves(slots, filter) :
       /\ sendable
       /\ Sends([kind |-> "slot", slot |-> s, name |-> filter.name, sure |-> sure])
       /\ Continues(t, "Wait", slots)
  \/ /\ Resolves(slots, filter) = {} \/ ~sendable
     /\ Leaves(t)
     /\ UNCHANGED commands

(* asyncio.to_thread(update_component_slots, ...) *)
UpdatesFirst(t, r, then, filter) ==
  /\ pc' = [pc EXCEPT ![t] = "Update"]
  /\ step' = [step EXCEPT ![t] =
       [rig |-> r, then |-> then, filter |-> filter, slots |-> Live,
        sure |-> Live = names]]
  /\ UNCHANGED commands

\* Mutant: the rig's slots are not compared with the driver's.
TrustsTheRig(t) == ctx[t].slots # NoSlots \/ Live \in {NoNames, NoSlots}

(* the rig and the driver agree, or the driver has no names *)
Agrees(t) == Live \in {NoNames, ctx[t].slots}

SelectFilter(t, filter) ==
  /\ Steps(t)
  /\ \/ /\ Agrees(t)
        /\ Moves(t, ctx[t].slots, filter, Live = names)
     \/ /\ ~Agrees(t)
        /\ ctx[t].slots = NoSlots
        /\ UpdatesFirst(t, ctx[t].rig, "select", filter)
        /\ UNCHANGED ctx
  /\ UNCHANGED <<storeVars, messagingVars, names, reports, known, moves, renames,
                 restarts>>

(* _wait_for_property_state *)
WaitEnds(t) ==
  /\ pc[t] = "Wait"
  /\ pc' = [pc EXCEPT ![t] = "Ready"]
  /\ UNCHANGED <<storeVars, messagingVars, driverVars, ctx, step, calls, restarts>>

-----------------------------------------------------------------------------
(* sync_filter_names and adopt_filter_names_from_driver *)

(* Names are pushed to a wheel with as many slots, unless it has them.      *)
Pushes(slots) ==
  /\ slots # NoSlots
  /\ Live \notin {NoNames, slots}
  /\ SameSize(Live, slots)
  /\ Sends([kind |-> "names", slots |-> slots])

Adopts(t, r, slots, then) ==
  /\ Live \notin {NoNames, NoSlots, slots}
  /\ UpdatesFirst(t, r, then, NoFilter)

SyncFilterNames(t) ==
  /\ Steps(t)
  /\ Pushes(ctx[t].slots)
  /\ UNCHANGED <<storeVars, messagingVars, names, reports, known, moves, renames,
                 pc, ctx, step, restarts>>

AdoptFilterNames(t) ==
  /\ Steps(t)
  /\ Adopts(t, ctx[t].rig, ctx[t].slots, "adopt")
  /\ UNCHANGED <<storeVars, messagingVars, names, reports, known, moves, renames,
                 ctx, restarts>>

(* rig_diagnostics(action="sync"), in the two directions *)
SyncTool(t, r) ==
  /\ Called(t)
  /\ RigIsThere(r)
  /\ client # NoClient
  /\ \/ Pushes(Slots(r)) /\ UNCHANGED <<pc, step>>
     \/ Adopts(t, r, Slots(r), "return")
  /\ UNCHANGED <<storeVars, messagingVars, names, reports, known, moves, renames,
                 ctx, restarts>>

-----------------------------------------------------------------------------
(* update_component_slots, in its thread, and what follows it *)

UpdateReads(t) ==
  LET r == step[t].rig IN
  /\ pc[t] = "Update"
  /\ RigIsThere(r)
  /\ Updates(t, r, [cache[r].body EXCEPT !.slots = step[t].slots])
  /\ pc' = [pc EXCEPT ![t] = "Saving"]
  /\ UNCHANGED <<messagingVars, driverVars, ctx, step, calls, restarts>>

UpdateRaises(t) ==
  /\ pc[t] = "Update"
  /\ Free
  /\ ~RigIsThere(step[t].rig)
  /\ Leaves(t)
  /\ UNCHANGED <<storeVars, messagingVars, driverVars, calls, restarts>>

SaveTool(t, r, b, overwrite) ==
  /\ Called(t)
  /\ Submits(t, r, b, overwrite)
  /\ pc' = [pc EXCEPT ![t] = "Saving"]
  /\ UNCHANGED <<messagingVars, driverVars, ctx, step, restarts>>

ThreadRuns(t) ==
  /\ SaveRuns(t)
  /\ UNCHANGED <<messagingVars, driverVars, taskVars, restarts>>

(* The thread is done and the caller runs again. *)
ThreadEnds(t) ==
  /\ SaveEnds(t)
  /\ \/ /\ step[t].then = "return" \/ spc[t] = "Raised"
        /\ Leaves(t)
        /\ UNCHANGED commands
     \/ /\ spc[t] = "Saved" /\ step[t].then = "adopt"
        /\ Continues(t, "Ready", step[t].slots)
        /\ UNCHANGED commands
     \/ /\ spc[t] = "Saved" /\ step[t].then = "select"
        /\ Moves(t, step[t].slots, step[t].filter, step[t].sure)
  /\ UNCHANGED <<messagingVars, names, reports, known, moves, renames, calls, restarts>>

-----------------------------------------------------------------------------
(* Runs *)

(* execute_script: the rig is read once, its device must be known *)
StartRun(t, r) ==
  /\ Called(t)
  /\ RigIsThere(r)
  /\ client # NoClient
  /\ Live # NoNames \/ moves[client]
  /\ ctx' = [ctx EXCEPT ![t] = [rig |-> r, slots |-> Slots(r)]]
  /\ pc' = [pc EXCEPT ![t] = "Ready"]
  /\ UNCHANGED <<storeVars, messagingVars, driverVars, step, restarts>>

(* the script is over, a step raises, or the run is cancelled *)
EndRun(t) ==
  /\ pc[t] \in {"Ready", "Wait"}
  /\ Leaves(t)
  /\ UNCHANGED <<storeVars, messagingVars, driverVars, calls, restarts>>

-----------------------------------------------------------------------------
(* The connection *)

MessagingTool(t) ==
  /\ Called(t)
  /\ Messaging!StartMessaging(t) \/ Messaging!StopMessaging(t)
  /\ pc' = [pc EXCEPT ![t] = "Messaging"]
  /\ UNCHANGED <<storeVars, driverVars, ctx, step, restarts>>

MessagingRuns(t) ==
  /\ Messaging!StopEnds(t) \/ Messaging!StartEnds(t)
  /\ pc' = [pc EXCEPT ![t] = IF mpc'[t] = "Idle" THEN "Idle" ELSE "Messaging"]
  /\ UNCHANGED <<storeVars, driverVars, ctx, step, calls, restarts>>

ClientEnds(k) ==
  /\ Messaging!ClientEnds(k)
  /\ reports' = [reports EXCEPT ![k] = <<>>]
  /\ UNCHANGED <<storeVars, names, commands, known, moves, renames, taskVars, restarts>>

(* The client asks for all properties and is sent the wheel's names. *)
Connects(k) ==
  /\ Messaging!Connects(k)
  /\ reports' = [reports EXCEPT ![k] = <<names>>]
  /\ UNCHANGED <<storeVars, names, commands, known, moves, renames, taskVars, restarts>>

(* definitions and updates arrive; the two properties in either order *)
Receives(k) ==
  /\ connected[k]
  /\ \/ /\ reports[k] # <<>>
        /\ known' = [known EXCEPT ![k] = Head(reports[k])]
        /\ reports' = [reports EXCEPT ![k] = Tail(@)]
        /\ UNCHANGED moves
     \/ /\ ~moves[k]
        /\ moves' = [moves EXCEPT ![k] = TRUE]
        /\ UNCHANGED <<known, reports>>
  /\ UNCHANGED <<storeVars, messagingVars, names, commands, renames, taskVars, restarts>>

-----------------------------------------------------------------------------
(* The driver *)

Unsure(queue) ==
  [i \in DOMAIN queue |->
     IF queue[i].kind = "slot" THEN [queue[i] EXCEPT !.sure = FALSE] ELSE queue[i]]

(* The driver's names change and every connected client is told.  What a    *)
(* step has read before this no longer tells where a filter is.             *)
NamesChange(new, queue) ==
  /\ new # names
  /\ names' = new
  /\ reports' = [k \in DOMAIN reports |->
                   IF connected[k] THEN Append(reports[k], new) ELSE reports[k]]
  /\ step' = [t \in Tasks |-> [step[t] EXCEPT !.sure = FALSE]]
  /\ commands' = Unsure(queue)

DriverExecutes ==
  /\ commands # <<>>
  /\ LET c == Head(commands) IN
       \/ c.kind = "names" /\ NamesChange(Renamed(names, c.slots), Tail(commands))
       \/ commands' = Tail(commands) /\ UNCHANGED <<names, reports, step>>
  /\ UNCHANGED <<storeVars, messagingVars, known, moves, renames, pc, ctx, calls,
                 restarts>>

DriverReconfigured(new) ==
  /\ renames < MaxRenames
  /\ DOMAIN new = DOMAIN names
  /\ renames' = renames + 1
  /\ NamesChange(new, commands)
  /\ UNCHANGED <<storeVars, messagingVars, known, moves, pc, ctx, calls, restarts>>

-----------------------------------------------------------------------------

(* The process ends anywhere and starts again; the driver goes on. *)
Restart ==
  /\ restarts < MaxRestarts
  /\ restarts' = restarts + 1
  /\ StoreRestart
  /\ Messaging!MessagingRestart
  /\ reports' = [k \in DOMAIN reports |-> <<>>]
  /\ known' = [k \in DOMAIN known |-> NoNames]
  /\ moves' = [k \in DOMAIN moves |-> FALSE]
  /\ pc' = [t \in Tasks |-> "Idle"]
  /\ step' = [t \in Tasks |-> NoStep]
  /\ ctx' = [t \in Tasks |-> NoContext]
  /\ UNCHANGED <<names, commands, renames, calls>>

Filters == [name : FilterNames, slot : {0}] \cup [name : {NoName}, slot : {1}]

Next ==
  \/ \E t \in Tasks :
       \/ \E f \in Filters : SelectFilter(t, f)
       \/ WaitEnds(t)
       \/ SyncFilterNames(t)
       \/ AdoptFilterNames(t)
       \/ UpdateReads(t)
       \/ UpdateRaises(t)
       \/ ThreadRuns(t)
       \/ ThreadEnds(t)
       \/ EndRun(t)
       \/ MessagingTool(t)
       \/ MessagingRuns(t)
       \/ \E r \in Ids :
            \/ StartRun(t, r)
            \/ SyncTool(t, r)
            \/ \E b \in Drafts, overwrite \in BOOLEAN : SaveTool(t, r, b, overwrite)
  \/ \E k \in Messaging!Clients : ClientEnds(k) \/ Connects(k) \/ Receives(k)
  \/ DriverExecutes
  \/ \E new \in DriverNames : DriverReconfigured(new)
  \/ Restart

Spec == Init /\ [][Next]_vars

-----------------------------------------------------------------------------

(***************************************************************************)
(* A wheel that is sent to the filter of a name is sent to the one slot    *)
(* which the driver itself gives that name, although the slot number was   *)
(* looked up in the rig's names and, when the rig had none, after the copy *)
(* of the driver's names was saved in a thread.  This is so for every      *)
(* command still on its way whose step read the driver's names as they     *)
(* were, and as they still are: no name was pushed to the driver or        *)
(* changed at the driver since ("sure").                                   *)
(***************************************************************************)
NamedFilterIsSelected ==
  \A i \in DOMAIN commands :
    LET c == commands[i] IN
      c.kind = "slot" /\ c.name # NoName /\ c.sure => Named(names, c.name) = {c.slot}

(***************************************************************************)
(* Every connection that is up is the one _client names, unless two calls  *)
(* have awaited the end of one old client (start_messaging and             *)
(* stop_messaging).                                                        *)
(***************************************************************************)
NoClientRunsUnnamed == Messaging!NoClientRunsUnnamed
=============================================================================

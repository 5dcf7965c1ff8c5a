--------------------------- MODULE MessagingClient ---------------------------
(***************************************************************************)
(* indi_messaging: the one connection to indiserver, kept in the globals   *)
(* _client and _task, and the calls that start and stop it.                *)
(*                                                                         *)
(* A client runs in a task of its own until that task is cancelled and has *)
(* ended.  start_messaging stops the old client first; both calls await    *)
(* the end of the old task, so another call can run in between.  A client  *)
(* that runs publishes what it receives, whether or not _client still      *)
(* names it.                                                               *)
(*                                                                         *)
(* Clients are numbered in the order in which they are created; a client   *)
(* and its task have one number.                                           *)
(***************************************************************************)
EXTENDS Naturals

CONSTANTS
  Tasks,       \* callers
  MaxClients,  \* bound: clients created
  NoClient     \* None

VARIABLES
  client,      \* _client
  task,        \* _task
  life,        \* the task of each client
  connected,   \* client.connected
  mpc,         \* where each caller is in start_messaging or stop_messaging
  call,        \* what each caller does and which task it awaits
  forgot       \* a stop has dropped a client other than the one it awaited

messagingVars == <<client, task, life, connected, mpc, call, forgot>>

Clients == 1 .. MaxClients

NoCall == [starts |-> FALSE, awaits |-> NoClient]

MessagingTypeOK ==
  /\ client \in Clients \cup {NoClient}
  /\ task \in Clients \cup {NoClient}
  /\ life \in [Clients -> {"unborn", "running", "cancelled", "over"}]
  /\ connected \in [Clients -> BOOLEAN]
  /\ mpc \in [Tasks -> {"Idle", "Stopping", "Connecting"}]
  /\ call \in [Tasks -> [starts : BOOLEAN, awaits : Clients \cup {NoClient}]]
  /\ forgot \in BOOLEAN

MessagingInit ==
  /\ client = NoClient
  /\ task = NoClient
  /\ life = [k \in Clients |-> "unborn"]
  /\ connected = [k \in Clients |-> FALSE]
  /\ mpc = [t \in Tasks |-> "Idle"]
  /\ call = [t \in Tasks |-> NoCall]
  /\ forgot = FALSE

-----------------------------------------------------------------------------

NextClient(k) == life[k] = "unborn" /\ \A j \in 1 .. k - 1 : life[j] # "unborn"

(* the lines of start_messaging after the old client is gone *)
Creates(t) ==
  \E k \in Clients :
    /\ NextClient(k)
    /\ client' = k
    /\ task' = k
    /\ life' = [life EXCEPT ![k] = "running"]
    /\ mpc' = [mpc EXCEPT ![t] = "Connecting"]
    /\ call' = [call EXCEPT ![t] = NoCall]

(* stop_messaging up to its await *)
Cancels(t, starts) ==
  /\ task # NoClient
  /\ life' = [life EXCEPT ![task] = IF @ = "running" THEN "cancelled" ELSE @]
  /\ mpc' = [mpc EXCEPT ![t] = "Stopping"]
  /\ call' = [call EXCEPT ![t] = [starts |-> starts, awaits |-> task]]
  /\ UNCHANGED <<client, task>>

\* Mutant: start_messaging without the stop of the client there is.
StartsBeside(t) ==
  /\ mpc[t] = "Idle"
  /\ Creates(t)
  /\ UNCHANGED <<connected, forgot>>

StartMessaging(t) ==
  /\ mpc[t] = "Idle"
  /\ \/ client # NoClient /\ Cancels(t, TRUE)
     \/ client = NoClient /\ Creates(t)
  /\ UNCHANGED <<connected, forgot>>

StopMessaging(t) ==
  /\ mpc[t] = "Idle"
  /\ Cancels(t, FALSE)
  /\ UNCHANGED <<connected, forgot>>

(* asyncrun ends: its connection is closed *)
ClientEnds(k) ==
  /\ life[k] = "cancelled"
  /\ life' = [life EXCEPT ![k] = "over"]
  /\ connected' = [connected EXCEPT ![k] = FALSE]
  /\ UNCHANGED <<client, task, mpc, call, forgot>>

(* The awaited task has ended: stop_messaging clears both globals, whatever *)
(* they hold by now, and start_messaging goes on.                           *)
StopEnds(t) ==
  /\ mpc[t] = "Stopping"
  /\ life[call[t].awaits] = "over"
  /\ forgot' = (forgot \/ client \notin {call[t].awaits, NoClient})
  /\ \/ /\ call[t].starts
        /\ Creates(t)
     \/ /\ ~call[t].starts
        /\ client' = NoClient
        /\ task' = NoClient
        /\ mpc' = [mpc EXCEPT ![t] = "Idle"]
        /\ call' = [call EXCEPT ![t] = NoCall]
        /\ UNCHANGED life
  /\ UNCHANGED connected

Connects(k) ==
  /\ life[k] = "running"
  /\ ~connected[k]
  /\ connected' = [connected EXCEPT ![k] = TRUE]
  /\ UNCHANGED <<client, task, life, mpc, call, forgot>>

(* _wait_until_connected: the client is connected, or time is up *)
StartEnds(t) ==
  /\ mpc[t] = "Connecting"
  /\ mpc' = [mpc EXCEPT ![t] = "Idle"]
  /\ UNCHANGED <<client, task, life, connected, call, forgot>>

MessagingRestart ==
  /\ client' = NoClient
  /\ task' = NoClient
  /\ life' = [k \in Clients |-> IF life[k] = "unborn" THEN "unborn" ELSE "over"]
  /\ connected' = [k \in Clients |-> FALSE]
  /\ mpc' = [t \in Tasks |-> "Idle"]
  /\ call' = [t \in Tasks |-> NoCall]
  /\ forgot' = FALSE

-----------------------------------------------------------------------------

(***************************************************************************)
(* Every client that runs is the one _client names, so that what it        *)
(* publishes is published once and stop_messaging can stop it.  There is   *)
(* one way out of this: two calls await the end of one old client, and the *)
(* slower one clears the client that the faster one has created since      *)
(* ("forgot").                                                             *)
(***************************************************************************)
NoClientRunsUnnamed ==
  \/ forgot
  \/ \A k \in Clients : life[k] = "running" => client = k /\ task = k
=============================================================================

---------------------------- MODULE RunLifecycle ----------------------------
(***************************************************************************)
(* What script_runs promises the clients of a script run, with nothing of  *)
(* how it keeps the promise: a run is absent, then live, and may then end  *)
(* once, with one outcome that never changes; a call that waits for a run  *)
(* either returns the outcome of the very run it asked about or is         *)
(* abandoned, and never returns anything else.                             *)
(***************************************************************************)
CONSTANTS Runs,        \* the runs that are ever started
          Callers,     \* the calls that wait for a run to end
          Outcomes     \* the ways a run can end

VARIABLES phase,       \* phase[r]: where run r is in its life
          call         \* call[c]: what call c asked and what it was told

NoRun == 0
NoAnswer == "none"

Idle == [state |-> "idle", run |-> NoRun, answer |-> NoAnswer]

Init == /\ phase = [r \in Runs |-> "absent"]
        /\ call = [c \in Callers |-> Idle]

Begin(r) == /\ phase[r] = "absent"
            /\ phase' = [phase EXCEPT ![r] = "live"]
            /\ call' = call

End(r, outcome) == /\ phase[r] = "live"
                   /\ phase' = [phase EXCEPT ![r] = outcome]
                   /\ call' = call

Ask(c, r) == /\ call[c].state = "idle"
             /\ phase[r] # "absent"
             /\ call' = [call EXCEPT ![c] = [state |-> "waiting", run |-> r, answer |-> NoAnswer]]
             /\ phase' = phase

\* The only answer there is: the outcome of the run that was asked about.
Tell(c, r) == /\ call[c].state = "waiting"
              /\ call[c].run = r
              /\ phase[r] \in Outcomes
              /\ call' = [call EXCEPT ![c] = [state |-> "answered", run |-> r, answer |-> phase[r]]]
              /\ phase' = phase

Abandon(c) == /\ call[c].state = "waiting"
              /\ call' = [call EXCEPT ![c] = [state |-> "aborted", run |-> call[c].run, answer |-> NoAnswer]]
              /\ phase' = phase

Next == \/ \E r \in Runs : Begin(r)
        \/ \E r \in Runs, outcome \in Outcomes : End(r, outcome)
        \/ \E c \in Callers, r \in Runs : Ask(c, r) \/ Tell(c, r)
        \/ \E c \in Callers : Abandon(c)

Spec == Init /\ [][Next]_<<phase, call>>
============================================================================

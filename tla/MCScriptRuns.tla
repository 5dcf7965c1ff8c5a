---------------------------- MODULE MCScriptRuns ----------------------------
(***************************************************************************)
(* Model-checking instances of ScriptRuns.                                 *)
(***************************************************************************)
EXTENDS ScriptRuns

CONSTANTS a, b, c1

TwoIds == {a, b}
OneCaller == {c1}
============================================================================

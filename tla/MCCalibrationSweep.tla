------------------------- MODULE MCCalibrationSweep -------------------------
(***************************************************************************)
(* Model-checking instance of CalibrationSweep: a sweep of two             *)
(* combinations, one run of somebody else, one call that cancels the sweep *)
(* and one that waits for or cancels a run.                                *)
(***************************************************************************)
EXTENDS CalibrationSweep

CONSTANTS a, b, c1, k1

TwoIds == {a, b}
OneCaller == {c1}
OneCanceller == {k1}
=============================================================================

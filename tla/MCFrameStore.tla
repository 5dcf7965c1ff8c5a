---------------------------- MODULE MCFrameStore ----------------------------
(***************************************************************************)
(* Model-checking instance of FrameStore: two frames and two cleanup calls *)
(* that can meet on one of them.                                           *)
(***************************************************************************)
EXTENDS FrameStore, TLC

CONSTANTS f1, f2, k1, k2

TwoFrames == {f1, f2}
TwoCleaners == {k1, k2}

\* Frames and calls are interchangeable, and no property is a liveness property.
Symmetry == Permutations(TwoFrames) \cup Permutations(TwoCleaners)
=============================================================================

--------------------------- MODULE MCEventNotify ---------------------------
(***************************************************************************)
(* Model-checking instance of EventNotify: three sessions, one of which    *)
(* has a transport that accepts nothing.                                   *)
(***************************************************************************)
EXTENDS EventNotify

CONSTANTS s1, s2, s3

ThreeSessions == {s1, s2, s3}
OneStalled == {s3}
============================================================================

---------------------------- MODULE MCDeafWatch ----------------------------
(***************************************************************************)
(* DeafWatch for TLC, with the thresholds of the code in seconds.          *)
(***************************************************************************)
EXTENDS DeafWatch
=============================================================================

---------------------------- MODULE MCDownFramer ----------------------------
(***************************************************************************)
(* DownFramer for TLC: records of up to three bytes, so that lengths from  *)
(* two on take a header of two bytes in base four and a Write of four      *)
(* bytes takes two records.                                                *)
(***************************************************************************)
EXTENDS DownFramer
=============================================================================

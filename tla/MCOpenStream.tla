---------------------------- MODULE MCOpenStream ----------------------------
(* OpenStream with two readers and two closers. *)
EXTENDS OpenStream
=============================================================================

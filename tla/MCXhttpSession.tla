--------------------------- MODULE MCXhttpSession ---------------------------
(* XhttpSession on small instances. *)
EXTENDS XhttpSession
=============================================================================

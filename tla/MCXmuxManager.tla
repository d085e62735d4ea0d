--------------------------- MODULE MCXmuxManager ---------------------------
(* XmuxManager on small instances. *)
EXTENDS XmuxManager, TLC

Symmetry == Permutations(Clients) \cup Permutations(Dials) \cup Permutations(Resetters)
=============================================================================

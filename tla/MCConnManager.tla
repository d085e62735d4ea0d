---------------------------- MODULE MCConnManager ----------------------------
(* A storm of three dials, one of them plain or not, and two relays behind one dial. *)
EXTENDS ConnManager

MCLoads == {[flows |-> 1 .. 3, plain |-> {}, relays |-> {}],
            [flows |-> 1 .. 3, plain |-> {3}, relays |-> {}],
            [flows |-> {1}, plain |-> {1}, relays |-> 1 .. 2]}

=============================================================================

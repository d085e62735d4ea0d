----------------------------- MODULE MCPacketUp -----------------------------
(* PacketUp on a small instance. *)
EXTENDS PacketUp
=============================================================================

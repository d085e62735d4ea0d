--------------------------- MODULE MCDnsTransport ---------------------------
(* DnsTransport on a small instance.  One UDP transport has a single id, so    *)
(* that the ids run out; another has more queries than ids, so that they are  *)
(* used again.                                                                *)
EXTENDS DnsTransport

MCTransports == {
  [kind |-> "udp", ids |-> 1, queries |-> 2, faults |-> 1],
  [kind |-> "udp", ids |-> 3, queries |-> 2, faults |-> 2],
  [kind |-> "udp", ids |-> 3, queries |-> 4, faults |-> 1],
  [kind |-> "tls", ids |-> 1, queries |-> 2, faults |-> 2],
  [kind |-> "quic", ids |-> 1, queries |-> 3, faults |-> 2]}
=============================================================================

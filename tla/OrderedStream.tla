--------------------------- MODULE OrderedStream ---------------------------
(***************************************************************************)
(* What the upload queue of a session promises to the proxied connection:  *)
(* the bytes of the accepted packets, in the order of their sequence       *)
(* numbers and without a gap.  Bytes are repeated only of a number that    *)
(* was accepted more than once, and before the next number begins.         *)
(***************************************************************************)
EXTENDS Integers, Sequences

CONSTANTS Seqs,   \* the sequence numbers of the packets that may be sent
          Len0    \* the payload length of each of them

VARIABLES
  accepted,   \* sequence numbers whose POST was accepted
  repeated,   \* those of which more than one POST was
  next,       \* the sequence number the stream has got to
  got,        \* how many bytes of each packet were delivered, counted once
  out         \* the chunks delivered: <<sequence number, offset, length>>

vars == <<accepted, repeated, next, got, out>>

Init ==
  /\ accepted = {} /\ repeated = {}
  /\ next = 0
  /\ got = [s \in Seqs |-> 0]
  /\ out = <<>>

Accept ==
  /\ \E s \in Seqs : /\ accepted' = accepted \cup {s}
                     /\ repeated' = repeated \cup (accepted \cap {s})
  /\ UNCHANGED <<next, got, out>>

\* The next n bytes of the current number, or n bytes from an earlier offset o.
Deliver ==
  /\ next \in accepted
  /\ \E o \in 0 .. got[next] : \E n \in 0 .. Len0[next] - o :
       /\ o < got[next] => next \in repeated
       /\ out' = Append(out, <<next, o, n>>)
       /\ got' = [got EXCEPT ![next] = IF o + n > @ THEN o + n ELSE @]
       /\ next' = IF o + n = Len0[next] THEN next + 1 ELSE next
  /\ UNCHANGED <<accepted, repeated>>

Next == Accept \/ Deliver

Spec == Init /\ [][Next]_vars
=============================================================================

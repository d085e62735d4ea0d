---------------------------- MODULE UploadQueue ----------------------------
(***************************************************************************)
(* The upload queue of a server session (upload_queue.go): POST handlers   *)
(* Push packets in any order through a bounded channel, the proxied        *)
(* connection Reads them back in the order of their sequence numbers       *)
(* through a heap, and whoever finishes the session Closes the queue.      *)
(*                                                                         *)
(* A packet is named by the handler that pushes it.  One packet may carry  *)
(* a whole request body (stream-up) instead of a numbered payload.         *)
(***************************************************************************)
EXTENDS Integers, Sequences, FiniteSets

CONSTANTS Pushers,     \* POST handlers of packet-up
          Streamers,   \* POST handlers of stream-up: their packet is a Reader
          Closers,     \* threads that call Close
          PktSeq,      \* the sequence number of each payload packet
          PktLen,      \* the payload length of each sequence number
          Mixed,       \* one session may get payloads and a Reader
          MaxPackets,  \* scMaxBufferedPosts
          Free         \* nobody holds writeCloseMutex

Handlers == Pushers \cup Streamers
Seqs == {PktSeq[p] : p \in Pushers}

ASSUME HandlerAssumption ==
  /\ Pushers \cap Streamers = {} /\ Handlers \cap Closers = {}
  /\ Free \notin Handlers \cup Closers
ASSUME PacketAssumption == PktSeq \in [Pushers -> Nat] /\ PktLen \in [Seqs -> Nat]
ASSUME MixedAssumption == Mixed \in BOOLEAN
ASSUME MaxAssumption == MaxPackets \in Nat \ {0}

VARIABLES
  pushed,       \* the channel pushedPackets
  pushedClosed, \* it is closed
  mutex,        \* the holder of writeCloseMutex
  closed, nomore,
  hreader,      \* h.reader: nil, its two words half written, or set
  heap,         \* the packets in the heap
  off,          \* how much of a packet's payload was cut off by partial reads
  nextSeq,
  ppc,          \* a handler: idle, send (in the critical section), ok, refused
  cpc,          \* a closer: idle, enter, drain, store, reader, done, panicked
  rpc,          \* the reader: see Read below
  got, out      \* history: the bytes delivered, see OrderedStream

queueVars == <<pushed, pushedClosed, mutex, closed, nomore, hreader>>
heapVars == <<heap, off, nextSeq, got, out>>
vars == <<queueVars, heapVars, ppc, cpc, rpc>>

Init ==
  /\ pushed = <<>> /\ pushedClosed = FALSE
  /\ mutex = Free
  /\ closed = FALSE /\ nomore = FALSE
  /\ hreader = "nil"
  /\ heap = {}
  /\ off = [p \in Handlers |-> 0]
  /\ nextSeq = 0
  /\ ppc = [p \in Handlers |-> "idle"]
  /\ cpc = [c \in Closers |-> "idle"]
  /\ rpc = "idle"
  /\ got = [s \in Seqs |-> 0]
  /\ out = <<>>

-----------------------------------------------------------------------------
(* Push.                                                                   *)

PushFrame == UNCHANGED <<closed, hreader, pushedClosed, heapVars, cpc, rpc>>

PushEnter(p) ==
  /\ ppc[p] = "idle" /\ mutex = Free
  /\ IF closed \/ nomore
       THEN ppc' = [ppc EXCEPT ![p] = "refused"] /\ UNCHANGED <<mutex, nomore>>
       ELSE /\ ppc' = [ppc EXCEPT ![p] = "send"]
            /\ mutex' = p
            /\ IF p \in Streamers THEN nomore' = TRUE ELSE UNCHANGED nomore
  /\ UNCHANGED pushed
  /\ PushFrame

\* The send blocks while the channel is full, with the mutex held.
PushSend(p) ==
  /\ ppc[p] = "send"
  /\ ~pushedClosed /\ Len(pushed) < MaxPackets
  /\ pushed' = Append(pushed, p)
  /\ ppc' = [ppc EXCEPT ![p] = "ok"]
  /\ mutex' = Free
  /\ UNCHANGED nomore
  /\ PushFrame

\* A client uses one mode for all the requests of a session.
SameMode(p) ==
  Mixed \/ \A q \in Handlers : ppc[q] # "idle" => (q \in Streamers <=> p \in Streamers)

Push(p) == (SameMode(p) /\ PushEnter(p)) \/ PushSend(p)

-----------------------------------------------------------------------------
(* Close.                                                                  *)

CloseFrame == UNCHANGED <<nomore, heapVars, ppc, rpc>>

CloseBegin(c) ==
  /\ cpc[c] = "idle"
  /\ cpc' = [cpc EXCEPT ![c] = "enter"]
  /\ UNCHANGED queueVars
  /\ UNCHANGED <<heapVars, ppc, rpc>>

\* Mutant: Close does not take the mutex.
CloseUnlocked(c) ==
  /\ cpc[c] = "enter"
  /\ closed' = TRUE
  /\ cpc' = [cpc EXCEPT ![c] = IF closed THEN "reader" ELSE "drain"]
  /\ UNCHANGED <<pushed, pushedClosed, mutex, hreader>>
  /\ CloseFrame

CloseEnter(c) ==
  /\ cpc[c] = "enter" /\ mutex = Free
  /\ mutex' = c
  /\ closed' = TRUE
  /\ cpc' = [cpc EXCEPT ![c] = IF closed THEN "reader" ELSE "drain"]
  /\ UNCHANGED <<pushed, pushedClosed, hreader>>
  /\ CloseFrame

\* Mutant: Close drops a Reader like any other packet.
CloseDrainAll(c) ==
  /\ cpc[c] = "drain" /\ pushed # <<>>
  /\ pushed' = Tail(pushed)
  /\ UNCHANGED <<hreader, cpc, pushedClosed, mutex, closed>>
  /\ CloseFrame

\* Close takes what is left in the channel.  Only a Reader is kept, by an
\* assignment that a concurrent Read may see half done.
CloseDrain(c) ==
  /\ cpc[c] = "drain" /\ pushed # <<>>
  /\ pushed' = Tail(pushed)
  /\ IF Head(pushed) \in Streamers
       THEN hreader' = "torn" /\ cpc' = [cpc EXCEPT ![c] = "store"]
       ELSE UNCHANGED <<hreader, cpc>>
  /\ UNCHANGED <<pushedClosed, mutex, closed>>
  /\ CloseFrame

CloseStore(c) ==
  /\ cpc[c] = "store"
  /\ hreader' = "set"
  /\ cpc' = [cpc EXCEPT ![c] = "drain"]
  /\ UNCHANGED <<pushed, pushedClosed, mutex, closed>>
  /\ CloseFrame

\* Mutant: the channel is left open.
CloseChannelMissing(c) ==
  /\ cpc[c] = "drain" /\ pushed = <<>>
  /\ cpc' = [cpc EXCEPT ![c] = "reader"]
  /\ UNCHANGED <<pushed, pushedClosed, mutex, closed, hreader>>
  /\ CloseFrame

CloseChannel(c) ==
  /\ cpc[c] = "drain" /\ pushed = <<>>
  /\ pushedClosed' = TRUE
  /\ cpc' = [cpc EXCEPT ![c] = "reader"]
  /\ UNCHANGED <<pushed, mutex, closed, hreader>>
  /\ CloseFrame

\* h.reader.Close, through a value that Read may be writing.
CloseReader(c) ==
  /\ cpc[c] = "reader"
  /\ \/ cpc' = [cpc EXCEPT ![c] = "done"]
     \/ hreader = "torn" /\ cpc' = [cpc EXCEPT ![c] = "panicked"]
  /\ mutex' = Free
  /\ UNCHANGED <<pushed, pushedClosed, closed, hreader>>
  /\ CloseFrame

Close(c) ==
  \/ CloseEnter(c) \/ CloseDrain(c) \/ CloseStore(c) \/ CloseChannel(c) \/ CloseReader(c)

-----------------------------------------------------------------------------
(* Read, called again and again by one goroutine: idle, checkClosed, recv  *)
(* (the first receive), loop (the heap loop), recv2 (the receive of a      *)
(* misordered loop), store (h.reader is being assigned).  It ends with     *)
(* eof, tooLarge, panicked, or stopped when the proxied side gives up.     *)

ReadFrame == UNCHANGED <<pushedClosed, mutex, closed, nomore, ppc, cpc>>

ReadBegin ==
  /\ rpc = "idle"
  /\ \/ hreader = "nil" /\ rpc' = "checkClosed"
     \/ hreader # "nil" /\ rpc' = "idle"          \* h.reader.Read
     \/ hreader = "torn" /\ rpc' = "panicked"
  /\ UNCHANGED <<pushed, hreader, heapVars>>
  /\ ReadFrame

ReadCheckClosed ==
  /\ rpc = "checkClosed"
  /\ rpc' = IF closed THEN "eof" ELSE IF heap = {} THEN "recv" ELSE "loop"
  /\ UNCHANGED <<pushed, hreader, heapVars>>
  /\ ReadFrame

ReadRecv ==
  /\ rpc = "recv" /\ pushed # <<>>
  /\ pushed' = Tail(pushed)
  /\ IF Head(pushed) \in Streamers
       THEN hreader' = "torn" /\ rpc' = "store" /\ UNCHANGED heap
       ELSE heap' = {Head(pushed)} /\ rpc' = "loop" /\ UNCHANGED hreader
  /\ UNCHANGED <<off, nextSeq, got, out>>
  /\ ReadFrame

ReadStore ==
  /\ rpc = "store"
  /\ hreader' = "set"
  /\ rpc' = "idle"
  /\ UNCHANGED <<pushed, heapVars>>
  /\ ReadFrame

\* A receive from the channel that Close closed.
ReadEOF ==
  /\ rpc \in {"recv", "recv2"} /\ pushed = <<>> /\ pushedClosed
  /\ rpc' = "eof"
  /\ UNCHANGED <<pushed, hreader, heapVars>>
  /\ ReadFrame

\* heap.Pop returns a packet with the least sequence number, any one of them
\* when several carry it.  A Reader packet carries the number zero.
SeqOf(p) == IF p \in Pushers THEN PktSeq[p] ELSE 0
LenOf(p) == IF p \in Pushers THEN PktLen[PktSeq[p]] ELSE 0
Top(p) == p \in heap /\ \A q \in heap : SeqOf(p) <= SeqOf(q)

\* History: what was delivered of the number of p, when it is now read up to m.
GotUpTo(p, m) ==
  IF p \in Pushers THEN [got EXCEPT ![SeqOf(p)] = IF m > @ THEN m ELSE @] ELSE got

\* Mutant: the rest of a packet is forgotten after a partial read.
PopForgetsRest(p) ==
  /\ SeqOf(p) = nextSeq
  /\ \E n \in 0 .. LenOf(p) - off[p] :
       /\ n = 0 => off[p] = LenOf(p)
       /\ heap' = heap \ {p} /\ nextSeq' = nextSeq + 1
       /\ off' = [off EXCEPT ![p] = @ + n]
       /\ out' = Append(out, <<SeqOf(p), off[p], n>>)
       /\ got' = GotUpTo(p, off[p] + n)
       /\ rpc' = "idle"

\* The expected packet: copy as much as fits, put the rest back.  Another copy
\* of its number may be on top next, from its own offset.
PopExpected(p) ==
  /\ SeqOf(p) = nextSeq
  /\ \E n \in 0 .. LenOf(p) - off[p] :
       /\ n = 0 => off[p] = LenOf(p)
       /\ IF off[p] + n < LenOf(p)
            THEN heap' = heap /\ nextSeq' = nextSeq
            ELSE heap' = heap \ {p} /\ nextSeq' = SeqOf(p) + 1
       /\ off' = [off EXCEPT ![p] = @ + n]
       /\ out' = Append(out, <<SeqOf(p), off[p], n>>)
       /\ got' = GotUpTo(p, off[p] + n)
       /\ rpc' = "idle"

\* An old packet: dropped.  Read returns no bytes when the heap is empty.
PopStale(p) ==
  /\ SeqOf(p) < nextSeq
  /\ heap' = heap \ {p}
  /\ rpc' = IF heap' = {} THEN "idle" ELSE "loop"
  /\ UNCHANGED <<off, nextSeq, got, out>>

\* Mutant: any number of packets may wait for a missing one.
PopEarlyUnbounded(p) ==
  /\ SeqOf(p) > nextSeq
  /\ heap' = heap
  /\ rpc' = "recv2"
  /\ UNCHANGED <<off, nextSeq, got, out>>

\* Mutant: a misordered packet does not go back to the heap.
PopEarlyDrops(p) ==
  /\ SeqOf(p) > nextSeq
  /\ heap' = heap \ {p}
  /\ rpc' = IF Cardinality(heap') > MaxPackets THEN "tooLarge" ELSE "recv2"
  /\ UNCHANGED <<off, nextSeq, got, out>>

\* A packet from the future: the connection is torn down when too many wait,
\* and the packet goes back to the heap otherwise.
PopEarly(p) ==
  /\ SeqOf(p) > nextSeq
  /\ IF Cardinality(heap \ {p}) > MaxPackets
       THEN heap' = heap \ {p} /\ rpc' = "tooLarge"
       ELSE heap' = heap /\ rpc' = "recv2"
  /\ UNCHANGED <<off, nextSeq, got, out>>

ReadLoop ==
  /\ rpc = "loop"
  /\ \E p \in heap : Top(p) /\ (PopExpected(p) \/ PopStale(p) \/ PopEarly(p))
  /\ UNCHANGED <<pushed, hreader>>
  /\ ReadFrame

\* The second receive puts whatever comes into the heap, a Reader too.
ReadRecv2 ==
  /\ rpc = "recv2" /\ pushed # <<>>
  /\ heap' = heap \cup {Head(pushed)}
  /\ pushed' = Tail(pushed)
  /\ rpc' = "loop"
  /\ UNCHANGED <<hreader, off, nextSeq, got, out>>
  /\ ReadFrame

ReaderStops ==
  /\ rpc = "idle"
  /\ rpc' = "stopped"
  /\ UNCHANGED <<pushed, hreader, heapVars>>
  /\ ReadFrame

Read ==
  \/ ReadBegin \/ ReadCheckClosed \/ ReadRecv \/ ReadStore \/ ReadEOF \/ ReadLoop \/ ReadRecv2

-----------------------------------------------------------------------------
Next ==
  \/ \E p \in Handlers : Push(p)
  \/ \E c \in Closers : CloseBegin(c) \/ Close(c)
  \/ Read
  \/ ReaderStops

Spec == Init /\ [][Next]_vars

(***************************************************************************)
(* The Go scheduler runs every goroutine that can run, and sync.Mutex      *)
(* hands itself to the waiter that has waited longest, so nobody who waits *)
(* for it starves.  Nobody has to push or to close.                        *)
(***************************************************************************)
Fairness ==
  /\ \A p \in Handlers : WF_vars(PushSend(p))
  /\ \A c \in Closers : SF_vars(CloseEnter(c)) /\ WF_vars(Close(c))
  /\ WF_vars(Read)

FairSpec == Spec /\ Fairness

-----------------------------------------------------------------------------
(* Properties.                                                             *)

Accepted == {PktSeq[p] : p \in {q \in Pushers : ppc[q] = "ok"}}

\* The numbers that were accepted more than once.
Repeated ==
  {PktSeq[p] : p \in {q \in Pushers : \E r \in Pushers \ {q} :
                        ppc[q] = "ok" /\ ppc[r] = "ok" /\ PktSeq[r] = PktSeq[q]}}

\* The packets in the channel.
Queued == {pushed[i] : i \in 1 .. Len(pushed)}

\* The channel never holds more than its capacity and the state is well formed.
TypeOK ==
  /\ pushed \in Seq(Handlers) /\ Len(pushed) <= MaxPackets
  /\ pushedClosed \in BOOLEAN /\ closed \in BOOLEAN /\ nomore \in BOOLEAN
  /\ mutex \in Handlers \cup Closers \cup {Free}
  /\ hreader \in {"nil", "torn", "set"}
  /\ heap \subseteq Handlers
  /\ off \in [Handlers -> Nat]
  /\ nextSeq \in Nat
  /\ ppc \in [Handlers -> {"idle", "send", "ok", "refused"}]
  /\ cpc \in [Closers -> {"idle", "enter", "drain", "store", "reader", "done", "panicked"}]
  /\ rpc \in {"idle", "checkClosed", "recv", "store", "loop", "recv2", "eof", "tooLarge",
              "panicked", "stopped"}
  /\ got \in [Seqs -> Nat]
  /\ out \in Seq(Nat \X Nat \X Nat)

\* A handler never sends on the channel that Close closed (it would panic):
\* the mutex keeps the check of closed and the send together.
NoSendOnClosedChannel ==
  /\ \A p \in Handlers : ppc[p] = "send" => mutex = p /\ ~closed /\ ~pushedClosed
  /\ pushedClosed => closed

\* A packet whose POST was answered with 200 is not lost: it is in the channel,
\* in the heap or delivered to the last byte, until the queue is closed or the
\* connection is torn down.
NoAcceptedPacketLost ==
  ~closed /\ rpc # "tooLarge" =>
    \A p \in Pushers : ppc[p] = "ok" =>
      \/ p \in Queued \cup heap
      \/ got[PktSeq[p]] = PktLen[PktSeq[p]]

\* At most one request body is accepted for the session, and it is not lost even
\* when Close meets it in the channel: it is queued or it is h.reader.
StreamReaderKept ==
  /\ \A s, t \in Streamers : ppc[s] \in {"send", "ok"} /\ ppc[t] \in {"send", "ok"} => s = t
  /\ \A s \in Streamers : ppc[s] = "ok" =>
       hreader # "nil" \/ s \in Queued

\* The heap never grows past the configured buffer by more than two packets.
HeapAlmostBounded == Cardinality(heap) <= MaxPackets + 2

Stream == INSTANCE OrderedStream
            WITH Len0 <- PktLen, accepted <- Accepted, repeated <- Repeated, next <- nextSeq

\* The reader gets the bytes of the accepted packets in the order of their
\* sequence numbers and without a gap.  No byte comes twice, unless its number
\* was accepted twice: the rest of a packet that was read in part goes back to
\* the heap, where the other copy may be popped before it.
ImplementsOrderedStream == Stream!Spec

\* A packet whose predecessors have all been accepted is delivered, unless the
\* queue is closed or its reader is gone; and a Read that waits for a packet is
\* released when Close is through.
AcceptedIsDelivered ==
  /\ \A p \in Pushers :
       (\A q \in Pushers : PktSeq[q] <= PktSeq[p] => ppc[q] = "ok")
         ~> (nextSeq > PktSeq[p] \/ closed \/ rpc \in {"stopped", "tooLarge"})
  /\ (rpc \in {"recv", "recv2"} /\ \E c \in Closers : cpc[c] = "done") ~> rpc \notin {"recv", "recv2"}
=============================================================================

------------------------- MODULE UploadQueue_proofs -------------------------
(***************************************************************************)
(* Proofs about UploadQueue for any number of handlers, any numbering of   *)
(* the packets and any buffer size.                                        *)
(***************************************************************************)
EXTENDS UploadQueue, FiniteSetTheorems, TLAPS

\* One pass of the heap loop that pops p and does A with it.
Pops(p, A) == rpc = "loop" /\ Top(p) /\ A /\ UNCHANGED <<pushed, hreader>> /\ ReadFrame

\* Every step keeps the state well formed.
LEMMA TypeStep == TypeOK /\ [Next]_vars => TypeOK'
<1>. SUFFICES ASSUME TypeOK, [Next]_vars PROVE TypeOK'
  OBVIOUS
<1>. USE HandlerAssumption, PacketAssumption, MaxAssumption
     DEF TypeOK, queueVars, heapVars
<1>1. CASE \E p \in Handlers : PushEnter(p)
  <2>. PICK p \in Handlers : PushEnter(p)
    BY <1>1
  <2>1. /\ ppc' \in [Handlers -> {"idle", "send", "ok", "refused"}]
        /\ mutex' \in Handlers \cup Closers \cup {Free}
    BY Zenon DEF PushEnter
  <2>2. nomore' \in BOOLEAN
    BY Zenon DEF PushEnter
  <2>. QED
    BY <2>1, <2>2 DEF PushEnter, PushFrame
<1>2. CASE \E p \in Handlers : PushSend(p)
  BY <1>2 DEF PushSend, PushFrame
<1>3. CASE \E c \in Closers : CloseBegin(c)
  BY <1>3 DEF CloseBegin, CloseFrame
<1>4. CASE \E c \in Closers : CloseEnter(c)
  BY <1>4 DEF CloseEnter, CloseFrame
<1>5. CASE \E c \in Closers : CloseDrain(c)
  <2>. PICK c \in Closers : CloseDrain(c)
    BY <1>5
  <2>1. /\ pushed' \in Seq(Handlers) /\ Len(pushed') <= MaxPackets
    BY DEF CloseDrain
  <2>2. /\ cpc' \in [Closers -> {"idle", "enter", "drain", "store", "reader", "done", "panicked"}]
        /\ hreader' \in {"nil", "torn", "set"}
    BY Zenon DEF CloseDrain
  <2>. QED
    BY <2>1, <2>2, Zenon DEF CloseDrain, CloseFrame
<1>6. CASE \E c \in Closers : CloseStore(c)
  BY <1>6 DEF CloseStore, CloseFrame
<1>7. CASE \E c \in Closers : CloseChannel(c)
  BY <1>7 DEF CloseChannel, CloseFrame
<1>8. CASE \E c \in Closers : CloseReader(c)
  BY <1>8, Zenon DEF CloseReader, CloseFrame
<1>9. CASE ReadBegin
  BY <1>9 DEF ReadBegin, ReadFrame
<1>10. CASE ReadCheckClosed
  BY <1>10 DEF ReadCheckClosed, ReadFrame
<1>11. CASE ReadRecv
  BY <1>11 DEF ReadRecv, ReadFrame
<1>12. CASE ReadStore
  BY <1>12 DEF ReadStore, ReadFrame
<1>13. CASE ReadEOF
  BY <1>13 DEF ReadEOF, ReadFrame
<1>14. CASE ReadRecv2
  BY <1>14 DEF ReadRecv2, ReadFrame
<1>15. CASE ReaderStops
  BY <1>15 DEF ReaderStops, ReadFrame
<1>16. CASE \E p \in heap : Pops(p, PopExpected(p))
  <2>. PICK p \in heap : Pops(p, PopExpected(p))
    BY <1>16
  <2>1. PICK n \in 0 .. LenOf(p) - off[p] :
          /\ heap' \subseteq heap
          /\ nextSeq' \in {nextSeq, SeqOf(p) + 1}
          /\ off' = [off EXCEPT ![p] = @ + n]
          /\ out' = Append(out, <<SeqOf(p), off[p], n>>)
          /\ got' = GotUpTo(p, off[p] + n)
          /\ rpc' = "idle"
    BY Zenon DEF Pops, PopExpected
  <2>2. SeqOf(p) \in Nat /\ off[p] \in Nat /\ LenOf(p) \in Nat
    BY DEF SeqOf, LenOf, Seqs
  <2>3. n \in Nat
    BY <2>2
  <2>4. off' \in [Handlers -> Nat] /\ nextSeq' \in Nat /\ heap' \subseteq Handlers
    <3>1. off[p] + n \in Nat
      BY <2>2, <2>3
    <3>2. off' \in [Handlers -> Nat]
      BY <2>1, <3>1
    <3>3. SeqOf(p) + 1 \in Nat
      BY <2>2
    <3>4. nextSeq' \in Nat
      BY <2>1, <3>3, Zenon
    <3>5. heap' \subseteq Handlers
      BY <2>1, Zenon
    <3>. QED
      BY <3>2, <3>4, <3>5, Zenon
  <2>5. got' \in [Seqs -> Nat]
    <3>1. CASE p \in Pushers
      <4>1. SeqOf(p) \in Seqs
        BY <3>1 DEF SeqOf, Seqs
      <4>2. got \in [Seqs -> Nat] /\ got[SeqOf(p)] \in Nat /\ off[p] + n \in Nat
        BY <2>2, <2>3, <4>1
      <4>3. \E m \in {off[p] + n, got[SeqOf(p)]} : got' = [got EXCEPT ![SeqOf(p)] = m]
        BY <2>1, <3>1, Zenon DEF GotUpTo
      <4>. QED
        BY <4>1, <4>2, <4>3, ZenonT(40)
    <3>. QED
      BY <2>1, <3>1, Zenon DEF GotUpTo
  <2>6. out' \in Seq(Nat \X Nat \X Nat)
    <3>1. <<SeqOf(p), off[p], n>> \in Nat \X Nat \X Nat
      BY <2>2, <2>3
    <3>2. \A S, e : \A q \in Seq(S) : e \in S => Append(q, e) \in Seq(S)
      OBVIOUS
    <3>. HIDE DEF TypeOK
    <3>. QED
      BY <2>1, <3>1, <3>2 DEF TypeOK
  <2>. QED
    BY <2>1, <2>4, <2>5, <2>6, Zenon DEF Pops, ReadFrame
<1>17. CASE \E p \in heap : Pops(p, PopStale(p))
  BY <1>17 DEF PopStale, Pops, Top, ReadFrame
<1>18. CASE \E p \in heap : Pops(p, PopEarly(p))
  BY <1>18 DEF PopEarly, Pops, Top, ReadFrame
<1>19. CASE UNCHANGED vars
  BY <1>19 DEF vars
<1>. QED
  BY <1>1, <1>2, <1>3, <1>4, <1>5, <1>6, <1>7, <1>8, <1>9, <1>10, <1>11, <1>12, <1>13, <1>14, <1>15, <1>16, <1>17, <1>18, <1>19 DEF Next, Push, Close, Read, ReadLoop, Pops

\* The initial states are well formed.
LEMMA TypeInit == Init => TypeOK
<1>. SUFFICES ASSUME Init PROVE TypeOK
  OBVIOUS
<1>. USE MaxAssumption DEF Init
<1>1. pushed \in Seq(Handlers) /\ Len(pushed) <= MaxPackets /\ out \in Seq(Nat \X Nat \X Nat)
  OBVIOUS
<1>2. off \in [Handlers -> Nat] /\ got \in [Seqs -> Nat]
  OBVIOUS
<1>3. /\ ppc \in [Handlers -> {"idle", "send", "ok", "refused"}]
      /\ cpc \in [Closers -> {"idle", "enter", "drain", "store", "reader", "done", "panicked"}]
  OBVIOUS
<1>. QED
  BY <1>1, <1>2, <1>3, Zenon DEF TypeOK

\* The state is well formed and the channel respects its capacity.
THEOREM TypeCorrect == Spec => []TypeOK
  BY TypeInit, TypeStep, PTL DEF Spec

-----------------------------------------------------------------------------
(* Mutual exclusion of Push and Close, and the bound of the heap.          *)

\* A closer in its critical section holds the mutex and has closed the queue.
LockInv ==
  /\ TypeOK
  /\ NoSendOnClosedChannel
  /\ \A c \in Closers : cpc[c] \in {"drain", "store", "reader"} => mutex = c /\ closed

\* Every step keeps the critical sections apart.
LEMMA LockStep == LockInv /\ [Next]_vars => LockInv'
<1>. SUFFICES ASSUME LockInv, [Next]_vars PROVE LockInv'
  OBVIOUS
<1>0. TypeOK /\ TypeOK'
  BY TypeStep DEF LockInv
<1>. USE <1>0, HandlerAssumption DEF LockInv, TypeOK, NoSendOnClosedChannel, queueVars, heapVars
<1>1. CASE \E p \in Handlers : PushEnter(p)
  BY <1>1 DEF PushEnter, PushFrame
<1>2. CASE \E p \in Handlers : PushSend(p)
  BY <1>2 DEF PushSend, PushFrame
<1>3. CASE \E c \in Closers : CloseBegin(c)
  BY <1>3 DEF CloseBegin, CloseFrame
<1>4. CASE \E c \in Closers : CloseEnter(c)
  BY <1>4 DEF CloseEnter, CloseFrame
<1>5. CASE \E c \in Closers : CloseDrain(c)
  BY <1>5 DEF CloseDrain, CloseFrame
<1>6. CASE \E c \in Closers : CloseStore(c)
  BY <1>6 DEF CloseStore, CloseFrame
<1>7. CASE \E c \in Closers : CloseChannel(c)
  BY <1>7 DEF CloseChannel, CloseFrame
<1>8. CASE \E c \in Closers : CloseReader(c)
  <2>. PICK c \in Closers : CloseReader(c)
    BY <1>8
  <2>1. \A p \in Handlers : ppc'[p] # "send"
    BY DEF CloseReader, CloseFrame
  <2>2. \A d \in Closers : cpc'[d] \notin {"drain", "store", "reader"}
    <3>1. \A d \in Closers : d # c => cpc[d] \notin {"drain", "store", "reader"}
      BY DEF CloseReader
    <3>2. \E e \in {"done", "panicked"} : cpc' = [cpc EXCEPT ![c] = e]
      BY DEF CloseReader
    <3>. QED
      BY <3>1, <3>2
  <2>. QED
    BY <2>1, <2>2 DEF CloseReader, CloseFrame
<1>9. CASE ReadBegin
  BY <1>9 DEF ReadBegin, ReadFrame
<1>10. CASE ReadCheckClosed
  BY <1>10, Zenon DEF ReadCheckClosed, ReadFrame
<1>11. CASE ReadRecv
  BY <1>11 DEF ReadRecv, ReadFrame
<1>12. CASE ReadStore
  BY <1>12, Zenon DEF ReadStore, ReadFrame
<1>13. CASE ReadEOF
  BY <1>13, Zenon DEF ReadEOF, ReadFrame
<1>14. CASE ReadRecv2
  BY <1>14, Zenon DEF ReadRecv2, ReadFrame
<1>15. CASE ReaderStops
  BY <1>15, Zenon DEF ReaderStops, ReadFrame
<1>16. CASE \E p \in heap : Pops(p, PopExpected(p))
  BY <1>16, SMTT(30) DEF PopExpected, Pops, Top, ReadFrame
<1>17. CASE \E p \in heap : Pops(p, PopStale(p))
  BY <1>17 DEF PopStale, Pops, Top, ReadFrame
<1>18. CASE \E p \in heap : Pops(p, PopEarly(p))
  BY <1>18 DEF PopEarly, Pops, Top, ReadFrame
<1>19. CASE UNCHANGED vars
  BY <1>19 DEF vars
<1>. QED
  BY <1>1, <1>2, <1>3, <1>4, <1>5, <1>6, <1>7, <1>8, <1>9, <1>10, <1>11, <1>12, <1>13, <1>14, <1>15, <1>16, <1>17, <1>18, <1>19, Zenon DEF Next, Push, Close, Read, ReadLoop, Pops

\* No handler ever sends on the closed channel, whatever the number of handlers
\* and closers.
THEOREM NoPanickingSend == Spec => []NoSendOnClosedChannel
<1>1. Init => LockInv
  <2>. SUFFICES ASSUME Init PROVE LockInv
    OBVIOUS
  <2>. QED
    BY TypeInit DEF Init, LockInv, NoSendOnClosedChannel
<1>2. LockInv => NoSendOnClosedChannel
  BY Zenon DEF LockInv
<1>. QED
  BY <1>1, <1>2, LockStep, PTL DEF Spec

-----------------------------------------------------------------------------
\* A second receive follows a check of the size of the heap.
HeapInv ==
  /\ TypeOK
  /\ IsFiniteSet(heap)
  /\ HeapAlmostBounded
  /\ rpc = "recv2" => Cardinality(heap) <= MaxPackets + 1

\* Every step keeps the heap within its bound.
LEMMA HeapStep == HeapInv /\ [Next]_vars => HeapInv'
<1>. SUFFICES ASSUME HeapInv, [Next]_vars PROVE HeapInv'
  OBVIOUS
<1>0. TypeOK /\ TypeOK'
  BY TypeStep DEF HeapInv
<1>a. Cardinality(heap) \in Nat /\ MaxPackets \in Nat
  BY FS_CardinalityType, MaxAssumption DEF HeapInv
<1>b. \A p \in heap : /\ IsFiniteSet(heap \ {p})
                      /\ Cardinality(heap \ {p}) = Cardinality(heap) - 1
  BY FS_RemoveElement DEF HeapInv
<1>. USE <1>0, <1>a DEF HeapInv, HeapAlmostBounded, queueVars, heapVars
<1>1. CASE \E p \in Handlers : PushEnter(p)
  BY <1>1 DEF PushEnter, PushFrame
<1>2. CASE \E p \in Handlers : PushSend(p)
  BY <1>2 DEF PushSend, PushFrame
<1>3. CASE \E c \in Closers : CloseBegin(c)
  BY <1>3 DEF CloseBegin, CloseFrame
<1>4. CASE \E c \in Closers : CloseEnter(c)
  BY <1>4 DEF CloseEnter, CloseFrame
<1>5. CASE \E c \in Closers : CloseDrain(c)
  BY <1>5 DEF CloseDrain, CloseFrame
<1>6. CASE \E c \in Closers : CloseStore(c)
  BY <1>6 DEF CloseStore, CloseFrame
<1>7. CASE \E c \in Closers : CloseChannel(c)
  BY <1>7 DEF CloseChannel, CloseFrame
<1>8. CASE \E c \in Closers : CloseReader(c)
  BY <1>8 DEF CloseReader, CloseFrame
<1>9. CASE ReadBegin
  BY <1>9 DEF ReadBegin, ReadFrame
<1>10. CASE ReadCheckClosed
  BY <1>10 DEF ReadCheckClosed, ReadFrame
<1>11. CASE ReadRecv
  <2>1. CASE heap' = heap
    BY <2>1, <1>11 DEF ReadRecv
  <2>2. CASE heap' = {Head(pushed)}
    <3>1. IsFiniteSet(heap') /\ Cardinality(heap') = 1
      BY <2>2, FS_Singleton, Zenon
    <3>. QED
      BY <3>1, <1>11, MaxAssumption DEF ReadRecv
  <2>. QED
    BY <2>1, <2>2, <1>11 DEF ReadRecv
<1>12. CASE ReadStore
  BY <1>12 DEF ReadStore, ReadFrame
<1>13. CASE ReadEOF
  BY <1>13 DEF ReadEOF, ReadFrame
<1>14. CASE ReadRecv2
  <2>1. /\ IsFiniteSet(heap') /\ Cardinality(heap') \in {Cardinality(heap), Cardinality(heap) + 1}
    BY <1>14, FS_AddElement, Zenon DEF ReadRecv2
  <2>. QED
    BY <2>1, <1>14 DEF ReadRecv2
<1>15. CASE ReaderStops
  BY <1>15 DEF ReaderStops, ReadFrame
<1>16. CASE \E p \in heap : Pops(p, PopExpected(p))
  <2>1. heap' = heap \/ \E p \in heap : heap' = heap \ {p}
    BY <1>16 DEF Pops, PopExpected
  <2>2. IsFiniteSet(heap') /\ Cardinality(heap') <= Cardinality(heap)
    BY <2>1, <1>b
  <2>3. rpc' = "idle" /\ Cardinality(heap') \in Nat
    BY <2>2, FS_CardinalityType, <1>16 DEF Pops, PopExpected
  <2>. QED
    BY <2>2, <2>3
<1>17. CASE \E p \in heap : Pops(p, PopStale(p))
  BY <1>17, <1>b DEF PopStale, Pops
<1>18. CASE \E p \in heap : Pops(p, PopEarly(p))
  BY <1>18, <1>b DEF PopEarly, Pops
<1>19. CASE UNCHANGED vars
  BY <1>19 DEF vars
<1>. QED
  BY <1>1, <1>2, <1>3, <1>4, <1>5, <1>6, <1>7, <1>8, <1>9, <1>10, <1>11, <1>12, <1>13, <1>14, <1>15, <1>16, <1>17, <1>18, <1>19, Zenon DEF Next, Push, Close, Read, ReadLoop, Pops

\* The heap of misordered packets holds at most two packets more than
\* scMaxBufferedPosts, whatever the order in which they arrive.
THEOREM HeapBound == Spec => []HeapAlmostBounded
<1>1. Init => HeapInv
  <2>. SUFFICES ASSUME Init PROVE HeapInv
    OBVIOUS
  <2>1. IsFiniteSet(heap) /\ Cardinality(heap) = 0
    BY FS_EmptySet DEF Init
  <2>. QED
    BY <2>1, TypeInit, MaxAssumption DEF Init, HeapInv, HeapAlmostBounded
<1>2. HeapInv => HeapAlmostBounded
  BY DEF HeapInv
<1>. QED
  BY <1>1, <1>2, HeapStep, PTL DEF Spec
-----------------------------------------------------------------------------
(* The channel as a set. *)

\* What a receive from a channel leaves in it.
LEMMA TailElements ==
  ASSUME NEW S, NEW q \in Seq(S), q # <<>>
  PROVE  {q[i] : i \in 1 .. Len(q)} = {Head(q)} \cup {Tail(q)[i] : i \in 1 .. Len(Tail(q))}
<1>1. Len(q) \in Nat \ {0} /\ Len(Tail(q)) = Len(q) - 1 /\ Head(q) = q[1]
  OBVIOUS
<1>2. \A i \in 1 .. Len(Tail(q)) : Tail(q)[i] = q[i + 1] /\ i + 1 \in 1 .. Len(q)
  BY <1>1
<1>3. ASSUME NEW i \in 1 .. Len(q)
      PROVE  q[i] \in {Head(q)} \cup {Tail(q)[j] : j \in 1 .. Len(Tail(q))}
  <2>1. CASE i = 1
    BY <1>1, <2>1
  <2>2. CASE i # 1
    <3>1. i - 1 \in 1 .. Len(Tail(q)) /\ Tail(q)[i - 1] = q[i]
      BY <1>1, <1>2, <2>2
    <3>. QED
      BY <3>1
  <2>. QED
    BY <2>1, <2>2
<1>4. 1 \in 1 .. Len(q)
  BY <1>1
<1>5. Head(q) \in {q[i] : i \in 1 .. Len(q)}
  BY <1>1, <1>4
<1>6. ASSUME NEW i \in 1 .. Len(Tail(q)) PROVE Tail(q)[i] \in {q[j] : j \in 1 .. Len(q)}
  BY <1>2
<1>. QED
  BY <1>3, <1>5, <1>6

\* What a send adds to it.
LEMMA AppendElements ==
  ASSUME NEW S, NEW q \in Seq(S), NEW e \in S
  PROVE  {Append(q, e)[i] : i \in 1 .. Len(Append(q, e))} = {q[i] : i \in 1 .. Len(q)} \cup {e}
<1>1. Len(q) \in Nat /\ Len(Append(q, e)) = Len(q) + 1 /\ Append(q, e)[Len(q) + 1] = e
  OBVIOUS
<1>2. \A i \in 1 .. Len(q) : Append(q, e)[i] = q[i]
  OBVIOUS
<1>3. 1 .. Len(q) + 1 = 1 .. Len(q) \cup {Len(q) + 1}
  BY <1>1
<1>. QED
  BY <1>1, <1>2, <1>3

-----------------------------------------------------------------------------
(* The request body of a streaming upload.  The handlers of a session all    *)
(* push packets or all push a body.                                          *)

OneMode ==
  \A p, q \in Handlers :
    ppc[p] # "idle" /\ ppc[q] # "idle" => (p \in Streamers <=> q \in Streamers)

\* The first body shuts the door behind it, and the heap, where a body would be
\* lost, only ever holds packets.
KeptInv ==
  /\ LockInv
  /\ OneMode
  /\ StreamReaderKept
  /\ \A s \in Streamers : ppc[s] \in {"send", "ok"} => nomore
  /\ \A p \in Queued : ppc[p] = "ok"
  /\ \A p \in heap : p \in Pushers /\ ppc[p] = "ok"
  /\ rpc \in {"loop", "recv2"} => heap # {}

\* Every step keeps the accepted body where Read or Close will find it.
LEMMA KeptStep == ~Mixed /\ KeptInv /\ [Next]_vars => KeptInv'
<1>. SUFFICES ASSUME ~Mixed, KeptInv, [Next]_vars PROVE KeptInv'
  BY Zenon
<1>0. LockInv /\ LockInv' /\ TypeOK /\ TypeOK'
  BY LockStep, Zenon DEF KeptInv, LockInv
<1>a. /\ ppc \in [Handlers -> {"idle", "send", "ok", "refused"}]
      /\ heap \subseteq Handlers /\ pushed \in Seq(Handlers)
      /\ Pushers \subseteq Handlers /\ Streamers \subseteq Handlers
      /\ Handlers = Pushers \cup Streamers /\ Pushers \cap Streamers = {}
  BY <1>0, HandlerAssumption, Zenon DEF TypeOK, Handlers
<1>b. ASSUME pushed # <<>>, pushed' = Tail(pushed)
      PROVE  Queued = {Head(pushed)} \cup Queued' /\ Head(pushed) \in Handlers
  <2>1. Queued' = {Tail(pushed)[i] : i \in 1 .. Len(Tail(pushed))}
    BY <1>b DEF Queued
  <2>2. Queued = {pushed[i] : i \in 1 .. Len(pushed)}
    BY DEF Queued
  <2>3. Head(pushed) \in Handlers
    BY <1>a, <1>b
  <2>. QED
    BY <1>a, <1>b, <2>1, <2>2, <2>3, TailElements, ZenonT(40)
<1>c. Queued \subseteq Handlers
  BY <1>a DEF Queued
<1>d. pushed' = pushed => Queued' = Queued
  BY Zenon DEF Queued
<1>. USE <1>0, <1>a, <1>c, <1>d DEF KeptInv, OneMode, StreamReaderKept, queueVars, heapVars
<1>1. CASE \E p \in Handlers : SameMode(p) /\ PushEnter(p)
  <2>. PICK p \in Handlers : SameMode(p) /\ PushEnter(p)
    BY <1>1, Zenon
  <2>1. /\ ppc[p] = "idle"
        /\ \E e \in {"send", "refused"} : ppc' = [ppc EXCEPT ![p] = e]
        /\ UNCHANGED <<pushed, hreader, heap, rpc>>
    BY Zenon DEF PushEnter, PushFrame
  <2>2. \A q \in Handlers : q # p => ppc'[q] = ppc[q]
    BY <2>1
  <2>3. OneMode'
    BY <2>1, <2>2, ZenonT(40) DEF SameMode
  <2>4. p \in Streamers /\ ppc'[p] \in {"send", "ok"} => ~nomore /\ nomore'
    BY <2>1, SMTT(30) DEF PushEnter
  <2>5. nomore => nomore'
    BY Zenon DEF PushEnter
  <2>6. ppc'[p] # "ok"
    BY <2>1
  <2>7. /\ \A s \in Streamers : ppc'[s] \in {"send", "ok"} => nomore'
        /\ \A s, t \in Streamers : ppc'[s] \in {"send", "ok"} /\ ppc'[t] \in {"send", "ok"} => s = t
    BY <2>2, <2>4, <2>5, Zenon
  <2>8. \A q \in Handlers : ppc'[q] = "ok" <=> ppc[q] = "ok"
    BY <2>1, <2>2, <2>6
  <2>. QED
    BY <2>1, <2>3, <2>7, <2>8, Zenon
<1>2. CASE \E p \in Handlers : PushSend(p)
  <2>. PICK p \in Handlers : PushSend(p)
    BY <1>2, Zenon
  <2>1. Queued' = Queued \cup {p}
    <3>1. Queued' = {Append(pushed, p)[i] : i \in 1 .. Len(Append(pushed, p))}
      BY SMTT(30) DEF PushSend, Queued
    <3>2. Queued = {pushed[i] : i \in 1 .. Len(pushed)}
      BY Zenon DEF Queued
    <3>. QED
      BY <3>1, <3>2, <1>a, AppendElements, SMTT(30)
  <2>2. /\ ppc[p] = "send" /\ ppc' = [ppc EXCEPT ![p] = "ok"]
        /\ UNCHANGED <<nomore, hreader, heap, rpc>>
    BY Zenon DEF PushSend, PushFrame
  <2>3. ppc'[p] = "ok" /\ \A q \in Handlers : q # p => ppc'[q] = ppc[q]
    BY <2>2
  <2>. QED
    BY <2>1, <2>2, <2>3, Zenon
<1>3. CASE \E c \in Closers : CloseBegin(c) \/ CloseEnter(c) \/ CloseChannel(c) \/ CloseReader(c)
  <2>1. UNCHANGED <<pushed, nomore, hreader, heap, rpc, ppc>>
    BY <1>3, Zenon DEF CloseBegin, CloseEnter, CloseChannel, CloseReader, CloseFrame
  <2>. QED
    BY <2>1, Zenon
<1>4. CASE \E c \in Closers : CloseDrain(c)
  <2>1. /\ pushed # <<>> /\ pushed' = Tail(pushed)
        /\ IF Head(pushed) \in Streamers THEN hreader' = "torn" ELSE hreader' = hreader
        /\ UNCHANGED <<nomore, heap, rpc, ppc>>
    BY <1>4, Zenon DEF CloseDrain, CloseFrame
  <2>2. Queued = {Head(pushed)} \cup Queued'
    BY <1>b, <2>1, Zenon
  <2>3. "torn" # "nil"
    OBVIOUS
  <2>. QED
    BY <2>1, <2>2, <2>3, Zenon
<1>5. CASE (\E c \in Closers : CloseStore(c)) \/ ReadStore
  <2>1. /\ hreader' = "set" /\ UNCHANGED <<pushed, nomore, heap, ppc>>
        /\ rpc' \in {rpc, "idle"}
    BY <1>5, Zenon DEF CloseStore, CloseFrame, ReadStore, ReadFrame
  <2>. QED
    BY <2>1, SMTT(30)
<1>6. CASE ReadBegin \/ ReadCheckClosed \/ ReadEOF \/ ReaderStops
  <2>1. /\ UNCHANGED <<pushed, nomore, hreader, heap, ppc>>
        /\ rpc' \in {"loop", "recv2"} => heap # {}
    BY <1>6, SMTT(30) DEF ReadBegin, ReadCheckClosed, ReadEOF, ReaderStops, ReadFrame
  <2>. QED
    BY <2>1, Zenon
<1>7. CASE ReadRecv
  <2>1. /\ pushed # <<>> /\ pushed' = Tail(pushed)
        /\ IF Head(pushed) \in Streamers
             THEN hreader' = "torn" /\ heap' = heap /\ rpc' = "store"
             ELSE heap' = {Head(pushed)} /\ hreader' = hreader
        /\ UNCHANGED <<nomore, ppc>>
    BY <1>7, Zenon DEF ReadRecv, ReadFrame
  <2>2. Queued = {Head(pushed)} \cup Queued' /\ Head(pushed) \in Handlers
    BY <1>b, <2>1, Zenon
  <2>3. CASE Head(pushed) \in Streamers
    BY <2>1, <2>2, <2>3, SMTT(30)
  <2>4. CASE Head(pushed) \notin Streamers
    BY <2>1, <2>2, <2>4, ZenonT(40)
  <2>. QED
    BY <2>3, <2>4, Zenon
<1>8. CASE ReadRecv2
  <2>1. /\ pushed # <<>> /\ pushed' = Tail(pushed)
        /\ rpc = "recv2" /\ heap' = heap \cup {Head(pushed)}
        /\ UNCHANGED <<nomore, hreader, ppc>>
    BY <1>8, Zenon DEF ReadRecv2, ReadFrame
  <2>2. Queued = {Head(pushed)} \cup Queued' /\ Head(pushed) \in Handlers
    BY <1>b, <2>1, Zenon
  <2>3. PICK q \in heap : q \in Pushers /\ ppc[q] = "ok"
    BY <2>1, Zenon
  <2>4. \A s \in Streamers : ppc[s] = "idle"
    BY <2>3, SMTT(30)
  <2>5. Head(pushed) \in Pushers /\ ppc[Head(pushed)] = "ok"
    BY <2>2, <2>4, SMTT(30)
  <2>6. \A s \in Streamers : ppc[s] # "ok"
    BY <2>4
  <2>. QED
    BY <2>1, <2>2, <2>5, <2>6, Zenon
<1>9. CASE ReadLoop
  <2>1. /\ UNCHANGED <<pushed, nomore, hreader, ppc>>
        /\ heap' \subseteq heap
        /\ rpc' \in {"loop", "recv2"} => heap' # {}
    <3>1. PICK p \in heap : Top(p) /\ (PopExpected(p) \/ PopStale(p) \/ PopEarly(p))
      BY <1>9, Zenon DEF ReadLoop
    <3>2. CASE PopExpected(p)
      BY <1>9, <3>2, SMTT(30) DEF PopExpected, ReadLoop, ReadFrame
    <3>3. CASE PopStale(p)
      BY <1>9, <3>3, SMTT(30) DEF PopStale, ReadLoop, ReadFrame
    <3>4. CASE PopEarly(p)
      BY <1>9, <3>4, SMTT(30) DEF PopEarly, ReadLoop, ReadFrame
    <3>. QED
      BY <3>1, <3>2, <3>3, <3>4, Zenon
  <2>. QED
    BY <2>1, Zenon
<1>10. CASE UNCHANGED vars
  BY <1>10, Zenon DEF vars
<1>. QED
  BY <1>1, <1>2, <1>3, <1>4, <1>5, <1>6, <1>7, <1>8, <1>9, <1>10, Zenon DEF Next, Push, Close, Read

\* The initial states have no body.
LEMMA KeptInit == Init => KeptInv
<1>. SUFFICES ASSUME Init PROVE KeptInv
  OBVIOUS
<1>1. LockInv /\ Queued = {}
  BY TypeInit DEF Init, LockInv, NoSendOnClosedChannel, Queued
<1>2. heap = {} /\ rpc = "idle" /\ \A p \in Handlers : ppc[p] = "idle"
  BY DEF Init
<1>3. \A s \in Streamers : s \in Handlers
  BY DEF Handlers
<1>. QED
  BY <1>1, <1>2, <1>3 DEF KeptInv, OneMode, StreamReaderKept

\* In a session whose handlers keep to one mode, at most one request body is
\* accepted, and it stays in the channel until Read or Close makes it h.reader.
THEOREM BodyKept ==
  ASSUME ~Mixed
  PROVE  Spec => []StreamReaderKept
<1>1. KeptInv => StreamReaderKept
  BY DEF KeptInv
<1>2. KeptInv /\ [Next]_vars => KeptInv'
  BY KeptStep
<1>. QED
  BY <1>1, <1>2, KeptInit, PTL DEF Spec
-----------------------------------------------------------------------------
(* The stream of packets, in a session whose handlers keep to one mode.      *)

\* What was delivered of a number is what was read of one of its copies.  A copy
\* that was read less far has another accepted one beside it, and whatever comes
\* before the expected number is delivered.
CutInv ==
  \A p \in Pushers :
    /\ off[p] <= got[PktSeq[p]] /\ got[PktSeq[p]] <= PktLen[PktSeq[p]]
    /\ off[p] # got[PktSeq[p]] =>
         \E q \in Pushers \ {p} : ppc[q] = "ok" /\ PktSeq[q] = PktSeq[p]
    /\ PktSeq[p] < nextSeq => got[PktSeq[p]] = PktLen[PktSeq[p]]

StreamInv ==
  /\ KeptInv
  /\ CutInv
  /\ rpc = "recv" => heap = {}
  /\ NoAcceptedPacketLost

\* An accepted packet stays accepted.
LEMMA OkStays ==
  ASSUME TypeOK, [Next]_vars
  PROVE  \A p \in Handlers : ppc[p] = "ok" => ppc'[p] = "ok"
<1>1. CASE ppc' = ppc
  BY <1>1
<1>2. CASE \E p \in Handlers : PushEnter(p) \/ PushSend(p)
  BY <1>2 DEF PushEnter, PushSend, TypeOK
<1>3. CASE (\E c \in Closers : CloseBegin(c) \/ Close(c)) \/ Read \/ ReaderStops
  BY <1>1, <1>3, Zenon DEF CloseBegin, Close, CloseEnter, CloseDrain, CloseStore, CloseChannel,
     CloseReader, CloseFrame, Read, ReadBegin, ReadCheckClosed, ReadRecv, ReadStore, ReadEOF,
     ReadLoop, ReadRecv2, ReaderStops, ReadFrame
<1>. QED
  BY <1>1, <1>2, <1>3, Zenon DEF Next, Push, vars

\* Only a pass of the heap loop that finds the expected number delivers.
LEMMA OnlyExpectedDelivers ==
  ASSUME [Next]_vars, ~\E p \in heap : Pops(p, PopExpected(p))
  PROVE  UNCHANGED <<off, nextSeq, got, out>>
<1>1. CASE ReadLoop
  BY <1>1, Zenon DEF ReadLoop, Pops, PopStale, PopEarly
<1>2. CASE (\E p \in Handlers : Push(p)) \/ (\E c \in Closers : CloseBegin(c) \/ Close(c))
  BY <1>2, Zenon DEF Push, PushEnter, PushSend, PushFrame, CloseBegin, Close, CloseEnter,
     CloseDrain, CloseStore, CloseChannel, CloseReader, CloseFrame, heapVars
<1>3. CASE \/ ReadBegin \/ ReadCheckClosed \/ ReadRecv \/ ReadStore \/ ReadEOF \/ ReadRecv2
           \/ ReaderStops \/ UNCHANGED vars
  BY <1>3, Zenon DEF ReadBegin, ReadCheckClosed, ReadRecv, ReadStore, ReadEOF, ReadRecv2,
     ReaderStops, heapVars, vars
<1>. QED
  BY <1>1, <1>2, <1>3, Zenon DEF Next, Read

\* What a pass of the heap loop that delivers does to the history.
LEMMA ExpectedFacts ==
  ASSUME StreamInv, NEW p \in heap, Pops(p, PopExpected(p))
  PROVE  /\ p \in Pushers /\ ppc[p] = "ok" /\ PktSeq[p] = nextSeq /\ nextSeq \in Seqs
         /\ \E n \in 0 .. PktLen[nextSeq] - off[p] :
              /\ off' = [off EXCEPT ![p] = @ + n]
              /\ out' = Append(out, <<nextSeq, off[p], n>>)
              /\ got' = [got EXCEPT ![nextSeq] = IF off[p] + n > @ THEN off[p] + n ELSE @]
              /\ IF off[p] + n < PktLen[nextSeq]
                   THEN heap' = heap /\ nextSeq' = nextSeq
                   ELSE heap' = heap \ {p} /\ nextSeq' = nextSeq + 1
<1>1. p \in Pushers /\ ppc[p] = "ok"
  BY Zenon DEF StreamInv, KeptInv
<1>2. PktSeq[p] = nextSeq /\ nextSeq \in Seqs
  BY <1>1, Zenon DEF Pops, PopExpected, SeqOf, Seqs
<1>3. SeqOf(p) = nextSeq /\ LenOf(p) = PktLen[nextSeq]
  BY <1>1, <1>2 DEF SeqOf, LenOf
<1>. QED
  BY <1>1, <1>2, <1>3, Zenon DEF Pops, PopExpected, GotUpTo

\* The numbers that a delivery of n bytes works with.
LEMMA ExpectedNumbers ==
  ASSUME StreamInv, NEW p \in Pushers, NEW n \in 0 .. PktLen[PktSeq[p]] - off[p],
         off' = [off EXCEPT ![p] = @ + n],
         got' = [got EXCEPT ![PktSeq[p]] = IF off[p] + n > @ THEN off[p] + n ELSE @]
  PROVE  /\ off'[p] = off[p] + n /\ off'[p] <= PktLen[PktSeq[p]] /\ off[p] <= off'[p]
         /\ \A q \in Pushers \ {p} : off'[q] = off[q]
         /\ \A q \in Pushers : PktSeq[q] # PktSeq[p] => got'[PktSeq[q]] = got[PktSeq[q]]
         /\ off'[p] <= got'[PktSeq[p]] /\ got'[PktSeq[p]] <= PktLen[PktSeq[p]]
         /\ got[PktSeq[p]] <= got'[PktSeq[p]]
         /\ got'[PktSeq[p]] \in {off'[p], got[PktSeq[p]]}
         /\ off'[p] \in Nat /\ got'[PktSeq[p]] \in Nat
<1>1. /\ off \in [Handlers -> Nat] /\ Pushers \subseteq Handlers
      /\ got \in [Seqs -> Nat] /\ \A q \in Pushers : PktSeq[q] \in Seqs
      /\ PktLen[PktSeq[p]] \in Nat
  BY PacketAssumption, Zenon DEF StreamInv, KeptInv, LockInv, TypeOK, Handlers, Seqs
<1>2. off[p] <= got[PktSeq[p]] /\ got[PktSeq[p]] <= PktLen[PktSeq[p]]
  BY Zenon DEF StreamInv, CutInv
<1>3. off'[p] = off[p] + n /\ \A q \in Pushers \ {p} : off'[q] = off[q]
  BY <1>1
<1>4. got'[PktSeq[p]] = (IF off[p] + n > got[PktSeq[p]] THEN off[p] + n ELSE got[PktSeq[p]])
  BY <1>1
<1>5. \A q \in Pushers : PktSeq[q] # PktSeq[p] => got'[PktSeq[q]] = got[PktSeq[q]]
  BY <1>1
<1>6. off[p] \in Nat /\ got[PktSeq[p]] \in Nat
  BY <1>1, Zenon
<1>7. /\ off'[p] <= PktLen[PktSeq[p]] /\ off[p] <= off'[p]
      /\ off'[p] <= got'[PktSeq[p]] /\ got'[PktSeq[p]] <= PktLen[PktSeq[p]]
      /\ got[PktSeq[p]] <= got'[PktSeq[p]]
      /\ got'[PktSeq[p]] \in {off'[p], got[PktSeq[p]]}
      /\ off'[p] \in Nat /\ got'[PktSeq[p]] \in Nat
  BY <1>1, <1>2, <1>3, <1>4, <1>6
<1>. QED
  BY <1>3, <1>5, <1>7, Zenon

\* A delivery keeps the history in agreement with the offsets of the copies.
LEMMA CutStep ==
  ASSUME StreamInv, [Next]_vars, NEW p \in heap, Pops(p, PopExpected(p))
  PROVE  CutInv'
<1>1. p \in Pushers /\ ppc[p] = "ok" /\ PktSeq[p] = nextSeq
  BY ExpectedFacts, Zenon
<1>2. PICK n \in 0 .. PktLen[nextSeq] - off[p] :
        /\ off' = [off EXCEPT ![p] = @ + n]
        /\ got' = [got EXCEPT ![nextSeq] = IF off[p] + n > @ THEN off[p] + n ELSE @]
        /\ IF off[p] + n < PktLen[nextSeq]
             THEN nextSeq' = nextSeq ELSE nextSeq' = nextSeq + 1
  BY ExpectedFacts, Zenon
<1>3. /\ off'[p] = off[p] + n /\ off'[p] <= PktLen[nextSeq] /\ off[p] <= off'[p]
      /\ \A q \in Pushers \ {p} : off'[q] = off[q]
      /\ \A q \in Pushers : PktSeq[q] # nextSeq => got'[PktSeq[q]] = got[PktSeq[q]]
      /\ off'[p] <= got'[nextSeq] /\ got'[nextSeq] <= PktLen[nextSeq]
      /\ got[nextSeq] <= got'[nextSeq]
      /\ got'[nextSeq] \in {off'[p], got[nextSeq]}
      /\ off'[p] \in Nat /\ got'[nextSeq] \in Nat
  BY <1>1, <1>2, ExpectedNumbers, Zenon
<1>4. \A q \in Pushers : ppc[q] = "ok" => ppc'[q] = "ok"
  BY OkStays, Zenon DEF StreamInv, KeptInv, LockInv, Handlers
<1>5. /\ \A q \in Pushers : /\ off[q] \in Nat /\ PktSeq[q] \in Nat /\ PktLen[PktSeq[q]] \in Nat
                            /\ got[PktSeq[q]] \in Nat
      /\ nextSeq \in Nat
  BY PacketAssumption, Zenon DEF StreamInv, KeptInv, LockInv, TypeOK, Handlers, Seqs
<1>. SUFFICES ASSUME NEW q \in Pushers
              PROVE  /\ off'[q] <= got'[PktSeq[q]] /\ got'[PktSeq[q]] <= PktLen[PktSeq[q]]
                     /\ off'[q] # got'[PktSeq[q]] =>
                          \E r \in Pushers \ {q} : ppc'[r] = "ok" /\ PktSeq[r] = PktSeq[q]
                     /\ PktSeq[q] < nextSeq' => got'[PktSeq[q]] = PktLen[PktSeq[q]]
  BY Zenon DEF CutInv
<1>6. /\ off[q] <= got[PktSeq[q]] /\ got[PktSeq[q]] <= PktLen[PktSeq[q]]
      /\ off[q] # got[PktSeq[q]] =>
           \E r \in Pushers \ {q} : ppc[r] = "ok" /\ PktSeq[r] = PktSeq[q]
      /\ PktSeq[q] < nextSeq => got[PktSeq[q]] = PktLen[PktSeq[q]]
  BY Zenon DEF StreamInv, CutInv
<1>7. CASE PktSeq[q] = nextSeq
  <2>1. off'[q] <= got'[nextSeq]
    <3>1. CASE q = p
      BY <1>3, <3>1
    <3>2. CASE q # p
      BY <1>3, <1>5, <1>6, <1>7, <3>2
    <3>. QED
      BY <3>1, <3>2
  <2>2. off'[q] # got'[nextSeq] =>
          \E r \in Pushers \ {q} : ppc'[r] = "ok" /\ PktSeq[r] = nextSeq
    <3>1. CASE q = p
      <4>1. off'[p] # got'[nextSeq] => off[p] # got[nextSeq]
        BY <1>1, <1>3, <1>5, <1>6, <3>1
      <4>. QED
        BY <1>4, <1>6, <1>7, <3>1, <4>1, Zenon
    <3>2. CASE q # p
      BY <1>1, <1>4, <3>2, Zenon
    <3>. QED
      BY <3>1, <3>2, Zenon
  <2>3. nextSeq < nextSeq' => got'[nextSeq] = PktLen[nextSeq]
    BY <1>1, <1>2, <1>3, <1>5
  <2>. QED
    BY <1>3, <1>7, <2>1, <2>2, <2>3, Zenon
<1>8. CASE PktSeq[q] # nextSeq
  <2>1. q # p /\ off'[q] = off[q] /\ got'[PktSeq[q]] = got[PktSeq[q]]
    BY <1>1, <1>3, <1>8, Zenon
  <2>2. PktSeq[q] < nextSeq' => PktSeq[q] < nextSeq
    BY <1>2, <1>5, <1>8
  <2>. QED
    BY <1>4, <1>6, <2>1, <2>2, Zenon
<1>. QED
  BY <1>7, <1>8, Zenon

\* Every step keeps the accepted packets where Read will find them.
LEMMA StreamStep == ~Mixed /\ StreamInv /\ [Next]_vars => StreamInv'
<1>. SUFFICES ASSUME ~Mixed, StreamInv, [Next]_vars PROVE StreamInv'
  BY Zenon
<1>0. KeptInv /\ KeptInv' /\ LockInv /\ TypeOK
  BY KeptStep, Zenon DEF StreamInv, KeptInv, LockInv
<1>a. /\ heap \subseteq Pushers /\ \A p \in Pushers : ppc[p] = "ok" => ppc'[p] = "ok"
      /\ Pushers \cap Streamers = {} /\ Pushers \subseteq Handlers
  BY <1>0, OkStays, HandlerAssumption, Zenon DEF KeptInv, Handlers
<1>b. ASSUME pushed # <<>>, pushed' = Tail(pushed)
      PROVE  Queued = {Head(pushed)} \cup Queued'
  <2>1. Queued' = {Tail(pushed)[i] : i \in 1 .. Len(Tail(pushed))}
    BY <1>b DEF Queued
  <2>2. Queued = {pushed[i] : i \in 1 .. Len(pushed)}
    BY DEF Queued
  <2>3. pushed \in Seq(Handlers)
    BY <1>0, Zenon DEF TypeOK
  <2>. QED
    BY <1>b, <2>1, <2>2, <2>3, TailElements, Zenon
<1>c. pushed' = pushed => Queued' = Queued
  BY Zenon DEF Queued
<1>d. rpc = "recv" => heap = {}
  BY Zenon DEF StreamInv
<1>1. CASE \E p \in heap : Pops(p, PopExpected(p))
  <2>. PICK p \in heap : Pops(p, PopExpected(p))
    BY <1>1, Zenon
  <2>1. /\ p \in Pushers /\ PktSeq[p] = nextSeq /\ heap \ {p} \subseteq heap'
        /\ p \in heap' \/ nextSeq' = nextSeq + 1
    BY ExpectedFacts, Zenon
  <2>2. CutInv'
    BY CutStep, Zenon
  <2>3. rpc' = "idle" /\ rpc = "loop" /\ UNCHANGED <<closed, ppc, pushed>>
    BY Zenon DEF Pops, PopExpected, ReadFrame
  <2>4. p \in heap' \/ got'[PktSeq[p]] = PktLen[PktSeq[p]]
    <3>1. nextSeq \in Nat /\ \A i \in Nat : i < i + 1
      BY <1>0 DEF TypeOK
    <3>. QED
      BY <2>1, <2>2, <3>1, Zenon DEF CutInv
  <2>5. \A q \in Pushers : got[PktSeq[q]] = PktLen[PktSeq[q]] => got'[PktSeq[q]] = PktLen[PktSeq[q]]
    <3>1. PICK n \in 0 .. PktLen[PktSeq[p]] - off[p] :
            /\ off' = [off EXCEPT ![p] = @ + n]
            /\ got' = [got EXCEPT ![PktSeq[p]] = IF off[p] + n > @ THEN off[p] + n ELSE @]
      BY <2>1, ExpectedFacts, Zenon
    <3>2. /\ \A q \in Pushers : PktSeq[q] # PktSeq[p] => got'[PktSeq[q]] = got[PktSeq[q]]
          /\ got'[PktSeq[p]] <= PktLen[PktSeq[p]] /\ got[PktSeq[p]] <= got'[PktSeq[p]]
          /\ got'[PktSeq[p]] \in Nat
      BY <2>1, <3>1, ExpectedNumbers, Zenon
    <3>3. PktLen[PktSeq[p]] \in Nat /\ \A i, j \in Nat : i <= j /\ j <= i => i = j
      BY <2>1, PacketAssumption DEF Seqs
    <3>. QED
      BY <3>2, <3>3, Zenon
  <2>6. NoAcceptedPacketLost'
    BY <1>c, <2>1, <2>3, <2>4, <2>5, Zenon DEF StreamInv, NoAcceptedPacketLost
  <2>. QED
    BY <1>0, <2>2, <2>3, <2>6 DEF StreamInv
<1>2. CASE ~\E p \in heap : Pops(p, PopExpected(p))
  <2>1. UNCHANGED <<off, nextSeq, got>>
    BY <1>2, OnlyExpectedDelivers, Zenon
  <2>2. CutInv'
    BY <1>a, <2>1, Zenon DEF StreamInv, CutInv
  <2> DEFINE Held == \A p \in Pushers : ppc'[p] = "ok" => ppc[p] = "ok" \/ p \in Queued'
             Kept == \A p \in Pushers : p \in Queued \cup heap =>
                        p \in Queued' \cup heap' \/ PktSeq[p] < nextSeq \/ closed \/ rpc' = "tooLarge"
             Waits == rpc' = "recv" => heap' = {}
             Ends == (closed => closed') /\ (rpc = "tooLarge" => rpc' = "tooLarge")
  <2>3. Held /\ Kept /\ Waits /\ Ends
    <3>1. CASE \E p \in Handlers : PushEnter(p)
      <4>1. /\ UNCHANGED <<pushed, heap, closed, rpc>>
            /\ \A p \in Pushers : ppc'[p] = "ok" => ppc[p] = "ok"
        BY <1>0, <1>a, <3>1 DEF PushEnter, PushFrame, heapVars, TypeOK
      <4>. QED
        BY <1>c, <1>d, <4>1, Zenon
    <3>2. CASE \E p \in Handlers : PushSend(p)
      <4>. PICK p \in Handlers : PushSend(p)
        BY <3>2, Zenon
      <4>1. Queued' = Queued \cup {p}
        <5>1. Queued' = {Append(pushed, p)[i] : i \in 1 .. Len(Append(pushed, p))}
          BY SMTT(30) DEF PushSend, Queued
        <5>2. Queued = {pushed[i] : i \in 1 .. Len(pushed)}
          BY Zenon DEF Queued
        <5>3. pushed \in Seq(Handlers)
          BY <1>0, Zenon DEF TypeOK
        <5>. QED
          BY <5>1, <5>2, <5>3, AppendElements, SMTT(30)
      <4>2. UNCHANGED <<heap, closed, rpc>> /\ ppc' = [ppc EXCEPT ![p] = "ok"]
        BY Zenon DEF PushSend, PushFrame, heapVars
      <4>3. \A q \in Pushers : q # p => ppc'[q] = ppc[q]
        BY <1>0, <1>a, <4>2 DEF TypeOK
      <4>. QED
        BY <1>d, <4>1, <4>2, <4>3, Zenon
    <3>3. CASE \E c \in Closers : CloseDrain(c)
      <4>1. closed
        BY <1>0, <3>3 DEF CloseDrain, LockInv
      <4>2. UNCHANGED <<heap, closed, rpc, ppc>>
        BY <3>3, Zenon DEF CloseDrain, CloseFrame, heapVars
      <4>. QED
        BY <1>d, <4>1, <4>2, Zenon
    <3>4. CASE \E c \in Closers : CloseBegin(c) \/ CloseEnter(c) \/ CloseStore(c)
                                  \/ CloseChannel(c) \/ CloseReader(c)
      <4>1. UNCHANGED <<heap, rpc, ppc, pushed>>
        BY <3>4, Zenon DEF CloseBegin, CloseEnter, CloseStore, CloseChannel, CloseReader,
           CloseFrame, queueVars, heapVars
      <4>2. closed => closed'
        BY <3>4, Zenon DEF CloseBegin, CloseEnter, CloseStore, CloseChannel, CloseReader, queueVars
      <4>. QED
        BY <1>c, <1>d, <4>1, <4>2, Zenon
    <3>5. CASE ReadRecv
      <4>1. /\ heap = {} /\ pushed # <<>> /\ pushed' = Tail(pushed)
            /\ Head(pushed) \in Streamers \/ Head(pushed) \in heap'
            /\ rpc' \in {"store", "loop"} /\ rpc = "recv" /\ UNCHANGED <<closed, ppc>>
        BY <3>5, Zenon DEF ReadRecv, ReadFrame, StreamInv
      <4>2. rpc' # "recv" /\ rpc # "tooLarge"
        BY <4>1
      <4>. QED
        BY <1>a, <1>b, <4>1, <4>2, Zenon
    <3>6. CASE ReadRecv2
      <4>1. /\ heap' = heap \cup {Head(pushed)} /\ pushed # <<>> /\ pushed' = Tail(pushed)
            /\ rpc' = "loop" /\ rpc = "recv2" /\ UNCHANGED <<closed, ppc>>
        BY <3>6, Zenon DEF ReadRecv2, ReadFrame
      <4>2. rpc' # "recv" /\ rpc # "tooLarge"
        BY <4>1
      <4>. QED
        BY <1>b, <4>1, <4>2, Zenon
    <3>7. CASE ReadBegin \/ ReadCheckClosed \/ ReadStore \/ ReadEOF \/ ReaderStops
      <4>1. UNCHANGED <<heap, pushed, closed, ppc>> /\ rpc # "tooLarge"
        BY <3>7 DEF ReadBegin, ReadCheckClosed, ReadStore, ReadEOF, ReaderStops, ReadFrame,
           heapVars
      <4>2. rpc' = "recv" => heap = {}
        BY <3>7 DEF ReadBegin, ReadCheckClosed, ReadStore, ReadEOF, ReaderStops
      <4>. QED
        BY <1>c, <4>1, <4>2, Zenon
    <3>8. CASE \E p \in heap : Pops(p, PopStale(p))
      <4>. PICK p \in heap : Pops(p, PopStale(p))
        BY <3>8, Zenon
      <4>1. /\ heap' = heap \ {p} /\ SeqOf(p) < nextSeq /\ rpc = "loop"
            /\ rpc' \in {"idle", "loop"} /\ UNCHANGED <<pushed, closed, ppc>>
        BY Zenon DEF Pops, PopStale, ReadFrame
      <4>2. rpc' # "recv" /\ rpc # "tooLarge" /\ PktSeq[p] < nextSeq
        BY <1>a, <4>1 DEF SeqOf
      <4>. QED
        BY <1>c, <4>1, <4>2, Zenon
    <3>9. CASE \E p \in heap : Pops(p, PopEarly(p))
      <4>. PICK p \in heap : Pops(p, PopEarly(p))
        BY <3>9, Zenon
      <4>1. /\ rpc' = "tooLarge" \/ (rpc' = "recv2" /\ heap' = heap)
            /\ rpc = "loop" /\ UNCHANGED <<pushed, closed, ppc>>
        BY Zenon DEF Pops, PopEarly, ReadFrame
      <4>2. rpc' # "recv" /\ rpc # "tooLarge"
        BY <4>1
      <4>. QED
        BY <1>c, <4>1, <4>2, Zenon
    <3>10. CASE UNCHANGED vars
      <4>1. UNCHANGED <<heap, pushed, closed, ppc, rpc>>
        BY <3>10, Zenon DEF vars, queueVars, heapVars
      <4>. QED
        BY <1>c, <1>d, <4>1, Zenon
    <3> HIDE DEF Held, Kept, Waits, Ends
    <3>. QED
      BY <1>2, <3>1, <3>2, <3>3, <3>4, <3>5, <3>6, <3>7, <3>8, <3>9, <3>10, Zenon
         DEF Next, Push, Close, Read, ReadLoop, Pops
  <2>4. NoAcceptedPacketLost'
    BY <1>a, <2>1, <2>3, Zenon DEF StreamInv, CutInv, NoAcceptedPacketLost
  <2>. QED
    BY <1>0, <2>2, <2>3, <2>4, Zenon DEF StreamInv
<1>. QED
  BY <1>1, <1>2, Zenon

\* The initial states satisfy the invariant.
LEMMA StreamInit == Init => StreamInv
<1>. SUFFICES ASSUME Init PROVE StreamInv
  OBVIOUS
<1>1. CutInv
  <2>1. \A p \in Pushers : off[p] = 0 /\ got[PktSeq[p]] = 0 /\ PktSeq[p] \in Nat
                           /\ PktLen[PktSeq[p]] \in Nat
    BY PacketAssumption DEF Init, Seqs, Handlers
  <2>2. \A x \in Nat : 0 <= x /\ ~(x < 0)
    OBVIOUS
  <2>. QED
    BY <2>1, <2>2, Zenon DEF Init, CutInv
<1>. QED
  BY <1>1, KeptInit DEF Init, StreamInv, NoAcceptedPacketLost, Handlers

\* In a session whose handlers keep to one mode, no packet whose POST was answered
\* with 200 is lost before the queue is closed or the connection torn down,
\* whether its number was sent once or several times.
THEOREM NothingLost ==
  ASSUME ~Mixed
  PROVE  Spec => []NoAcceptedPacketLost
<1>1. StreamInv => NoAcceptedPacketLost
  BY DEF StreamInv
<1>2. StreamInv /\ [Next]_vars => StreamInv'
  BY StreamStep
<1>. QED
  BY <1>1, <1>2, StreamInit, PTL DEF Spec

\* In a session whose handlers keep to one mode, the reader gets the accepted
\* bytes in the order of the sequence numbers, without a gap, and without a
\* repetition unless a number was accepted twice: the queue implements
\* OrderedStream.
THEOREM InOrder ==
  ASSUME ~Mixed
  PROVE  Spec => ImplementsOrderedStream
<1>1. Init => Stream!Init
  <2>. SUFFICES ASSUME Init PROVE Stream!Init
    OBVIOUS
  <2>1. \A p \in Pushers : ppc[p] # "ok"
    BY DEF Init, Handlers
  <2>2. Accepted = {} /\ Repeated = {}
    BY <2>1, Zenon DEF Accepted, Repeated
  <2>. QED
    BY <2>2 DEF Init, Stream!Init
<1>2. StreamInv /\ [Next]_vars => [Stream!Next]_(Stream!vars)
  <2>. SUFFICES ASSUME StreamInv, [Next]_vars PROVE [Stream!Next]_(Stream!vars)
    OBVIOUS
  <2>0. TypeOK /\ Pushers \subseteq Handlers
    BY Zenon DEF StreamInv, KeptInv, LockInv, Handlers
  <2>1. ASSUME \A q \in Pushers : ppc'[q] = "ok" <=> ppc[q] = "ok"
        PROVE  UNCHANGED <<Accepted, Repeated>>
    <3>1. Accepted' = Accepted
      BY <2>1, Zenon DEF Accepted
    <3>2. Repeated' = Repeated
      BY <2>1, Zenon DEF Repeated
    <3>. QED
      BY <3>1, <3>2
  <2>2. CASE UNCHANGED <<ppc, nextSeq, got, out>>
    BY <2>1, <2>2 DEF Stream!vars
  <2>3. CASE \E p \in Handlers : PushEnter(p)
    <3>1. \A q \in Pushers : ppc'[q] = "ok" <=> ppc[q] = "ok"
      BY <2>0, <2>3 DEF PushEnter, TypeOK
    <3>. QED
      BY <2>1, <2>3, <3>1 DEF PushEnter, PushFrame, heapVars, Stream!vars
  <2>4. CASE \E p \in Handlers : PushSend(p)
    <3>. PICK p \in Handlers : PushSend(p)
      BY <2>4
    <3>0. ppc[p] # "ok" /\ UNCHANGED <<nextSeq, got, out>>
      BY DEF PushSend, PushFrame, heapVars
    <3>1. \A q \in Pushers : ppc'[q] = "ok" <=> ppc[q] = "ok" \/ q = p
      BY <2>0 DEF PushSend, TypeOK
    <3>2. CASE p \in Pushers
      <4>1. Accepted' = Accepted \cup {PktSeq[p]} /\ PktSeq[p] \in Seqs
        BY <3>1, <3>2 DEF Accepted, Seqs
      <4>2. Repeated' = Repeated \cup (Accepted \cap {PktSeq[p]})
        <5>1. ASSUME NEW s \in Repeated' PROVE s \in Repeated \cup (Accepted \cap {PktSeq[p]})
          BY <3>1, <5>1, SMTT(30) DEF Accepted, Repeated
        <5>2. ASSUME NEW s \in Repeated PROVE s \in Repeated'
          BY <3>1, <5>2, SMTT(30) DEF Repeated
        <5>3. ASSUME PktSeq[p] \in Accepted PROVE PktSeq[p] \in Repeated'
          BY <3>0, <3>1, <3>2, <5>3, SMTT(30) DEF Accepted, Repeated
        <5>. QED
          BY <5>1, <5>2, <5>3, Zenon
      <4>. QED
        BY <3>0, <4>1, <4>2, Zenon DEF Stream!Next, Stream!Accept
    <3>3. CASE p \notin Pushers
      BY <2>1, <3>0, <3>1, <3>3, Zenon DEF Stream!vars
    <3>. QED
      BY <3>2, <3>3
  <2>5. CASE \E p \in heap : Pops(p, PopExpected(p))
    <3>. PICK p \in heap : Pops(p, PopExpected(p))
      BY <2>5
    <3>1. p \in Pushers /\ ppc[p] = "ok" /\ PktSeq[p] = nextSeq /\ nextSeq \in Seqs
      BY ExpectedFacts, Zenon
    <3>2. PICK n \in 0 .. PktLen[nextSeq] - off[p] :
            /\ out' = Append(out, <<nextSeq, off[p], n>>)
            /\ got' = [got EXCEPT ![nextSeq] = IF off[p] + n > @ THEN off[p] + n ELSE @]
            /\ IF off[p] + n < PktLen[nextSeq]
                 THEN nextSeq' = nextSeq
                 ELSE nextSeq' = nextSeq + 1
      BY ExpectedFacts, Zenon
    <3>3. nextSeq \in Accepted
      BY <3>1, Zenon DEF Accepted
    <3>4. UNCHANGED <<Accepted, Repeated>>
      BY <2>1 DEF Pops, ReadFrame
    <3>5. PktLen[nextSeq] \in Nat /\ got[nextSeq] \in Nat /\ off[p] \in Nat
      BY <2>0, <3>1, PacketAssumption, Zenon DEF TypeOK
    <3>6. nextSeq' = IF off[p] + n = PktLen[nextSeq] THEN nextSeq + 1 ELSE nextSeq
      <4>1. \A a, b \in Nat : \A m \in 0 .. a - b : b + m < a <=> b + m # a
        OBVIOUS
      <4>2. off[p] + n < PktLen[nextSeq] <=> off[p] + n # PktLen[nextSeq]
        BY <3>5, <4>1, Zenon
      <4>. QED
        BY <3>2, <4>2, Zenon
    <3>7. off[p] \in 0 .. got[nextSeq] /\ (off[p] < got[nextSeq] => nextSeq \in Repeated)
      <4>1. /\ off[p] <= got[nextSeq]
            /\ off[p] # got[nextSeq] =>
                 \E q \in Pushers \ {p} : ppc[q] = "ok" /\ PktSeq[q] = PktSeq[p]
        BY <3>1, Zenon DEF StreamInv, CutInv
      <4>2. off[p] # got[nextSeq] => nextSeq \in Repeated
        BY <3>1, <4>1, Zenon DEF Repeated
      <4>. QED
        BY <3>5, <4>1, <4>2
    <3>8. Stream!Deliver
      BY <3>2, <3>3, <3>4, <3>6, <3>7, Zenon DEF Stream!Deliver
    <3>. QED
      BY <3>8 DEF Stream!Next
  <2>6. CASE \E p \in heap : Pops(p, PopStale(p) \/ PopEarly(p))
    BY <2>2, <2>6 DEF Pops, PopStale, PopEarly, ReadFrame
  <2>7. CASE \E c \in Closers : CloseBegin(c) \/ Close(c)
    BY <2>2, <2>7 DEF CloseBegin, Close, CloseEnter, CloseDrain, CloseStore, CloseChannel,
       CloseReader, CloseFrame, heapVars
  <2>8. CASE \/ ReadBegin \/ ReadCheckClosed \/ ReadRecv \/ ReadStore \/ ReadEOF \/ ReadRecv2
             \/ ReaderStops \/ UNCHANGED vars
    BY <2>2, <2>8 DEF ReadBegin, ReadCheckClosed, ReadRecv, ReadStore, ReadEOF, ReadRecv2,
       ReaderStops, ReadFrame, heapVars, vars
  <2>. QED
    BY <2>3, <2>4, <2>5, <2>6, <2>7, <2>8 DEF Next, Push, Read, ReadLoop, Pops
<1>3. StreamInv /\ [Next]_vars => StreamInv'
  BY StreamStep
<1>. QED
  BY <1>1, <1>2, <1>3, StreamInit, PTL DEF Spec, ImplementsOrderedStream, Stream!Spec
=============================================================================

------------------------- MODULE XhttpServer_proofs -------------------------
(***************************************************************************)
(* Proofs about the server of the XHTTP transport: its sessions, for any   *)
(* number of requests, and the framing of its download, for any stream.    *)
(*                                                                         *)
(* The framing first needs what a uvarint is for every number, then what   *)
(* records on a wire are (Layout) and where a reader is among them         *)
(* (Reading).  StreamInv is the invariant that they make up; one lemma per *)
(* action shows that it is kept.                                           *)
(***************************************************************************)
EXTENDS XhttpSession, DownFramer, SequenceTheorems, WellFoundedInduction, TLAPS

\* A handler past upsertSession has a created session, and so has a map
\* entry.
HasSession ==
  /\ \A h \in Handlers : hpc[h] \notin {"start", "slow"} => hs[h] \in created
  /\ \A g \in Gets : g \in reading \/ route[g] # "none" => hs[g] \in created
  /\ current # None => current \in created
  /\ deleted \subseteq created

\* The types, with what a handler knows.
TypeInv == TypeOK /\ HasSession

\* What DeletedIsClosed needs: every session, removed or not, is closed or
\* has a goroutine that will close it.
Watched ==
  \A s \in created :
    \/ s \in closed
    \/ reaper[s] \in {"wait", "delete", "close"}
    \/ \E g \in Gets : hs[g] = s /\ hpc[g] \in {"connect", "serve", "close"}

\* Every step keeps the types, the queues and the place of a handler past
\* upsertSession (server.go).
LEMMA TypeStep ==
  ASSUME TypeInv, [Next]_vars
  PROVE  TypeInv'
<1> USE NoneAssumption, HandlerAssumption, PacketAssumption
    DEF TypeInv, TypeOK, HasSession, Handlers, mapVars, queueVars, handlerVars, routeVars
<1>1. ASSUME NEW h \in Handlers, UpsertFast(h) PROVE TypeInv'
  <2>1. CASE current # None
    BY <1>1, <2>1 DEF UpsertFast, Found
  <2>2. CASE current = None
    BY <1>1, <2>2 DEF UpsertFast
  <2>3. QED
    BY <2>1, <2>2
<1>2. ASSUME NEW h \in Handlers, UpsertSlow(h) PROVE TypeInv'
  <2>1. CASE current # None
    BY <1>2, <2>1 DEF UpsertSlow, Found
  <2>2. CASE current = None
    <3>1. PICK s \in Sessions : Create(h, s)
      BY <1>2, <2>2 DEF UpsertSlow
    <3>2. TypeOK'
      BY <1>2, <3>1 DEF UpsertSlow, Create, Found
    <3>3. HasSession'
      BY <1>2, <3>1 DEF UpsertSlow, Create, Found
    <3>4. QED
      BY <3>2, <3>3
  <2>3. QED
    BY <2>1, <2>2
<1>3. ASSUME NEW p \in Posts, Push(p) PROVE TypeInv'
  <2>1. CASE hs[p] \in closed
    BY <1>3, <2>1 DEF Push
  <2>2. CASE hs[p] \notin closed
    BY <1>3, <2>2 DEF Push
  <2>3. QED
    BY <2>1, <2>2
<1>4. ASSUME NEW p \in Posts, Send(p) PROVE TypeInv'
  <2>1. hs[p] \in Sessions /\ chan[hs[p]] + 1 \in 0..MaxPackets
    BY <1>4 DEF Send
  <2>2. QED
    BY <1>4, <2>1 DEF Send
<1>5. ASSUME NEW p \in Posts, PostRejected(p) PROVE TypeInv'
  BY <1>5 DEF PostRejected
<1>6. ASSUME NEW g \in Gets, Connect(g) PROVE TypeInv'
  <2>1. hs[g] \in Sessions /\ hs[g] \in created
    BY <1>6 DEF Connect
  <2>2. TypeOK'
    BY <1>6, <2>1 DEF Connect
  <2>3. HasSession'
    BY <1>6, <2>1 DEF Connect
  <2>4. QED
    BY <2>2, <2>3
<1>7. ASSUME NEW g \in Gets, RouteReads(g) PROVE TypeInv'
  <2>1. hs[g] \in Sessions /\ chan[hs[g]] - 1 \in 0..MaxPackets
    BY <1>7 DEF RouteReads
  <2>2. QED
    BY <1>7, <2>1 DEF RouteReads
<1>8. ASSUME NEW g \in Gets, RouteEnds(g) PROVE TypeInv'
  <2>1. reading' \subseteq reading
    BY <1>8 DEF RouteEnds
  <2>2. QED
    BY <1>8, <2>1 DEF RouteEnds
<1>9. ASSUME NEW g \in Gets, RouteCloses(g) PROVE TypeInv'
  BY <1>9 DEF RouteCloses, CloseQueue
<1>10. ASSUME NEW g \in Gets, GetEnds(g) PROVE TypeInv'
  BY <1>10 DEF GetEnds
<1>11. ASSUME NEW g \in Gets, GetCloses(g) PROVE TypeInv'
  BY <1>11 DEF GetCloses, CloseQueue
<1>12. ASSUME NEW g \in Gets, GetDeletes(g) PROVE TypeInv'
  BY <1>12 DEF GetDeletes, Delete
<1>13. ASSUME NEW s \in Sessions, ReaperSteps(s) PROVE TypeInv'
  <2>1. CASE ReapFires(s)
    BY <2>1 DEF ReapFires
  <2>2. CASE ReapDeletes(s)
    BY <2>2 DEF ReapDeletes, Delete
  <2>3. CASE ReapCloses(s)
    BY <2>3 DEF ReapCloses, CloseQueue
  <2>4. QED
    BY <1>13, <2>1, <2>2, <2>3 DEF ReaperSteps
<1>14. CASE UNCHANGED vars
  BY <1>14 DEF vars
<1>15. QED
  BY <1>1, <1>2, <1>3, <1>4, <1>5, <1>6, <1>7, <1>8, <1>9, <1>10, <1>11, <1>12, <1>13, <1>14, Zenon
     DEF Next, HandlerSteps, RouteSteps

\* Every step keeps at most one live session under an id: upsertSession looks
\* and stores under one lock, and only the reaper or the GET handler deletes.
LEMMA OneSessionStep ==
  ASSUME TypeInv, OneSession, [Next]_vars
  PROVE  OneSession'
<1> USE DEF OneSession, mapVars
<1>1. ASSUME NEW h \in Handlers, UpsertSlow(h) PROVE OneSession'
  <2>1. CASE current # None
    BY <1>1, <2>1 DEF UpsertSlow
  <2>2. CASE current = None
    BY <1>1, <2>2, NoneAssumption DEF UpsertSlow, Create, TypeInv, TypeOK
  <2>3. QED
    BY <2>1, <2>2
<1>2. ASSUME NEW g \in Gets, GetDeletes(g) PROVE OneSession'
  BY <1>2, NoneAssumption DEF GetDeletes, Delete, TypeInv, TypeOK
<1>3. ASSUME NEW s \in Sessions, ReaperSteps(s) PROVE OneSession'
  BY <1>3, NoneAssumption DEF ReaperSteps, ReapFires, ReapDeletes, ReapCloses, Delete, TypeInv,
     TypeOK
<1>4. ASSUME NEW h \in Handlers,
             \/ UpsertFast(h) \/ Push(h) \/ Send(h) \/ PostRejected(h)
             \/ Connect(h) \/ GetEnds(h) \/ GetCloses(h)
      PROVE  OneSession'
  BY <1>4 DEF UpsertFast, Push, Send, PostRejected, Connect, GetEnds, GetCloses
<1>5. ASSUME NEW g \in Gets, RouteSteps(g) \/ RouteEnds(g) PROVE OneSession'
  BY <1>5 DEF RouteSteps, RouteReads, RouteCloses, RouteEnds
<1>6. CASE UNCHANGED vars
  BY <1>6 DEF vars
<1>7. QED
  BY <1>1, <1>2, <1>3, <1>4, <1>5, <1>6 DEF Next, HandlerSteps, Handlers

\* Every step keeps a session that left the map closed, or leaves a reaper or
\* a GET handler that will close it.
LEMMA WatchedStep ==
  ASSUME TypeInv, Watched, [Next]_vars
  PROVE  Watched'
<1> USE HandlerAssumption
    DEF TypeInv, TypeOK, HasSession, Watched, Handlers, mapVars, queueVars, handlerVars, routeVars
<1>1. ASSUME NEW h \in Handlers, UpsertFast(h) PROVE Watched'
  BY <1>1 DEF UpsertFast, Found
<1>2. ASSUME NEW h \in Handlers, UpsertSlow(h) PROVE Watched'
  <2>1. CASE current # None
    BY <1>2, <2>1 DEF UpsertSlow, Found
  <2>2. CASE current = None
    <3>1. PICK s \in Sessions : Create(h, s)
      BY <1>2, <2>2 DEF UpsertSlow
    <3>2. QED
      BY <1>2, <3>1 DEF UpsertSlow, Create, Found
  <2>3. QED
    BY <2>1, <2>2
<1>3. ASSUME NEW p \in Posts, Push(p) \/ Send(p) \/ PostRejected(p) PROVE Watched'
  <2>1. UNCHANGED <<created, closed, reaper, hs>>
    BY <1>3 DEF Push, Send, PostRejected
  <2>2. \A g \in Gets : hpc'[g] = hpc[g]
    BY <1>3 DEF Push, Send, PostRejected
  <2>3. QED
    BY <2>1, <2>2
<1>4. ASSUME NEW g \in Gets, Connect(g) PROVE Watched'
  <2> SUFFICES ASSUME NEW s \in created
               PROVE  \/ s \in closed
                      \/ reaper'[s] \in {"wait", "delete", "close"}
                      \/ \E x \in Gets : hs[x] = s /\ hpc'[x] \in {"connect", "serve", "close"}
    BY <1>4 DEF Connect
  <2>1. CASE s = hs[g]
    BY <1>4, <2>1 DEF Connect
  <2>2. CASE s # hs[g]
    BY <1>4, <2>2 DEF Connect
  <2>3. QED
    BY <2>1, <2>2
<1>5. ASSUME NEW g \in Gets, RouteSteps(g) \/ RouteEnds(g) PROVE Watched'
  BY <1>5 DEF RouteSteps, RouteReads, RouteCloses, RouteEnds, CloseQueue
<1>6. ASSUME NEW g \in Gets, GetEnds(g) PROVE Watched'
  BY <1>6 DEF GetEnds
<1>7. ASSUME NEW g \in Gets, GetCloses(g) PROVE Watched'
  <2>1. closed' = closed \cup {hs[g]} /\ hpc' = [hpc EXCEPT ![g] = "delete"]
    BY <1>7 DEF GetCloses, CloseQueue
  <2>2. UNCHANGED <<created, reaper, hs>>
    BY <1>7 DEF GetCloses
  <2>3. QED
    BY <2>1, <2>2
<1>8. ASSUME NEW g \in Gets, GetDeletes(g) PROVE Watched'
  BY <1>8 DEF GetDeletes
<1>9. ASSUME NEW s \in Sessions, ReaperSteps(s) PROVE Watched'
  BY <1>9 DEF ReaperSteps, ReapFires, ReapDeletes, ReapCloses, CloseQueue
<1>10. CASE UNCHANGED vars
  BY <1>10 DEF vars
<1>11. QED
  BY <1>1, <1>2, <1>3, <1>4, <1>5, <1>6, <1>7, <1>8, <1>9, <1>10 DEF Next, HandlerSteps

\* What the handlers know of their sessions holds at every step.
LEMMA TypeInvariant == Spec => []TypeInv
<1>1. Init => TypeInv
  BY NoneAssumption, PacketAssumption DEF Init, TypeInv, TypeOK, HasSession, Handlers
<1>2. TypeInv /\ [Next]_vars => TypeInv'
  BY TypeStep
<1>3. QED
  BY <1>1, <1>2, PTL DEF Spec

\* The state is always well formed; no Push overfills the channel.
THEOREM TypeCorrect == Spec => []TypeOK
<1>1. TypeInv => TypeOK
  BY DEF TypeInv
<1>2. QED
  BY <1>1, TypeInvariant, PTL

\* Requests of one session id never get two sessions at once, however they
\* interleave with each other and with removals.
THEOREM SharedSession == Spec => []OneSession
<1>1. Init => OneSession
  BY DEF Init, OneSession
<1>2. TypeInv /\ OneSession /\ [Next]_vars => OneSession'
  BY OneSessionStep
<1>3. QED
  BY <1>1, <1>2, TypeInvariant, PTL DEF Spec

\* A session that left the map has its queue closed, or its reaper or its
\* GET handler is on the way to close it.
THEOREM DeletedSessionsClose == Spec => []DeletedIsClosed
<1>1. Init => Watched
  BY DEF Init, Watched
<1>2. TypeInv /\ Watched /\ [Next]_vars => Watched'
  BY WatchedStep
<1>3. TypeInv /\ Watched => DeletedIsClosed
  BY DEF TypeInv, HasSession, Watched, DeletedIsClosed
<1>4. QED
  BY <1>1, <1>2, <1>3, TypeInvariant, PTL DEF Spec

-----------------------------------------------------------------------------
(* The keepalives of a framed download *)

\* The least of two numbers: min(len(p), maxFrameRecord), and what a raw Read
\* returns.
LEMMA MinOfTwo ==
  ASSUME NEW a \in Int, NEW b \in Int
  PROVE  Min({a, b}) \in {a, b} /\ Min({a, b}) <= a /\ Min({a, b}) <= b
<1>1. \E x \in {a, b} : \A y \in {a, b} : x <= y
  OBVIOUS
<1>. QED  BY <1>1 DEF Min

\* The least of three numbers: what one Read takes of a record (framer.go).
LEMMA MinOfThree ==
  ASSUME NEW a \in Int, NEW b \in Int, NEW c \in Int
  PROVE  LET m == Min({a, b, c}) IN m \in {a, b, c} /\ m <= a /\ m <= b /\ m <= c
<1>1. \E x \in {a, b, c} : \A y \in {a, b, c} : x <= y
  <2>1. CASE a <= b /\ a <= c  BY <2>1
  <2>2. CASE b <= a /\ b <= c  BY <2>2
  <2>3. CASE c <= a /\ c <= b  BY <2>3
  <2>. QED  BY <2>1, <2>2, <2>3
<1>. QED  BY <1>1 DEF Min

-----------------------------------------------------------------------------
\* scStreamDownServerSecs has an upper end.
LEMMA LongestIsLongest ==
  Longest \in Nat /\ Longest > 0 /\ \A i \in Intervals : i <= Longest
<1>1. \E x \in Intervals : \A y \in Intervals : x >= y
  BY FrameAssumption
<1>2. Longest \in Intervals /\ \A y \in Intervals : Longest >= y
  BY <1>1 DEF Longest, Max
<1>. QED  BY <1>2, FrameAssumption

\* What bounds the silence.  The time already quiet and the time the timer
\* still has add up to less than two intervals: a timer that fires without
\* padding was set less than an interval after the last data.
SilenceInv ==
  /\ interval \in Intervals
  /\ timer \in Nat /\ timer <= interval
  /\ dataAge \in Nat /\ quiet \in Nat
  /\ quiet <= dataAge
  /\ quiet + timer < 2 * Longest

\* The keepalive goroutine, which a zero interval would end, keeps SilenceInv.
LEMMA SilenceKeeps ==
  ASSUME 0 \notin Intervals, SilenceInv, [FrameNext]_frameVars
  PROVE  SilenceInv'
<1>. DEFINE L2 == 2 * Longest
<1>1. Longest \in Nat /\ Longest > 0 /\ L2 \in Nat /\ L2 = Longest + Longest
  BY LongestIsLongest
<1>. HIDE DEF L2
<1>2. /\ interval \in Intervals /\ interval \in Nat /\ interval <= Longest
      /\ timer \in Nat /\ timer <= interval /\ dataAge \in Nat /\ quiet \in Nat
      /\ quiet <= dataAge /\ quiet + timer < L2
  BY LongestIsLongest, FrameAssumption DEF SilenceInv, L2
<1>3. ASSUME interval' \in Intervals, timer' \in Nat, timer' <= interval',
             dataAge' \in Nat, quiet' \in Nat, quiet' <= dataAge', quiet' + timer' < L2
      PROVE  SilenceInv'
  BY <1>3 DEF SilenceInv, L2
<1>4. \A q, t \in Nat : q < Longest /\ t <= Longest => q + t < L2
  BY <1>1
<1>. DEFINE Quiet == timer' = timer /\ interval' = interval /\ dataAge' \in {0, dataAge} /\ quiet' = 0
            Still == UNCHANGED timeVars
<1>5. CASE Still
  BY <1>5 DEF Still, SilenceInv, timeVars
<1>6. CASE Quiet
  BY <1>6, <1>1, <1>2, <1>3 DEF Quiet
<1>7. ASSUME NEW n \in PadLens, WritePadding(n)
      PROVE  SilenceInv'
  <2>1. interval' \in Intervals /\ timer' = interval'
    BY <1>7, FrameAssumption DEF WritePadding, PadAfter, Rearm, Armed
  <2>2. timer' \in Nat /\ timer' <= interval' /\ timer' <= Longest
    BY <2>1, LongestIsLongest, FrameAssumption
  <2>3. dataAge' = dataAge
    BY <1>7 DEF WritePadding, PadAfter
  <2>4. CASE dataAge >= interval
    <3>1. quiet' = 0
      BY <1>7, <2>4 DEF WritePadding, PadAfter, WriteOut
    <3>2. dataAge' \in Nat /\ quiet' \in Nat /\ quiet' <= dataAge'
      BY <1>2, <2>3, <3>1
    <3>3. quiet' < Longest
      BY <1>1, <3>1
    <3>. QED  BY <1>3, <1>4, <2>1, <2>2, <3>2, <3>3, Zenon
  <2>5. CASE ~(dataAge >= interval)
    <3>1. quiet' = quiet
      BY <1>7, <2>5 DEF WritePadding, PadAfter
    <3>2. dataAge' \in Nat /\ quiet' \in Nat /\ quiet' <= dataAge'
      BY <1>2, <2>3, <3>1
    <3>3. quiet' < Longest
      BY <1>1, <1>2, <2>5, <3>1
    <3>. QED  BY <1>3, <1>4, <2>1, <2>2, <3>2, <3>3, Zenon
  <2>. QED  BY <2>4, <2>5
<1>8. ASSUME Pass
      PROVE  SilenceInv'
  <2>1. /\ timer' = timer - 1 /\ timer > 0 /\ interval' = interval
        /\ dataAge' = Min({dataAge + 1, L2})
        /\ quiet' = Min({quiet + 1, L2})
    BY <1>8 DEF Pass, SilenceInv, L2
  <2>2. /\ dataAge' \in {dataAge + 1, L2}
        /\ quiet' \in {quiet + 1, L2}
        /\ quiet' <= quiet + 1 /\ quiet' <= L2
    <3>1. dataAge + 1 \in Int /\ quiet + 1 \in Int /\ L2 \in Int
      BY <1>1, <1>2
    <3>. QED  BY <2>1, <3>1, MinOfTwo, Zenon
  <2>. QED  BY <1>1, <1>2, <1>3, <2>1, <2>2
<1>9. ASSUME NEW n \in 0..MaxWrite, Write(n)
      PROVE  Still \/ Quiet
  BY <1>9, Zenon DEF Write, WriteOut, timeVars
<1>10. ASSUME WriteRecord
      PROVE  Quiet
  BY <1>10 DEF WriteRecord, WriteRecordOf, WriteOut
<1>11. ASSUME WriteFails \/ Close \/ Cut \/ UNCHANGED frameVars
      PROVE  Still
  BY <1>11 DEF WriteFails, Close, Cut, frameVars, serverVars
<1>12. ASSUME ReaderSteps
      PROVE  Still
  BY <1>12 DEF ReaderSteps, Read, ReadHeader, SkipPadding, SkipUntil, ReadPayload, serverVars
<1>. HIDE DEF Still, Quiet
<1>. QED  BY <1>5, <1>6, <1>7, <1>8, <1>9, <1>10, <1>11, <1>12 DEF FrameNext

\* A framed response never falls silent for two keepalive intervals while it
\* is open, however its writes and the timer interleave, unless a drawn
\* interval of zero ends the keepalive goroutine.
THEOREM FramedStreamSpeaks ==
  ASSUME 0 \notin Intervals
  PROVE  FrameSpec => []SilenceBounded
<1>1. FrameInit => SilenceInv
  BY LongestIsLongest, FrameAssumption DEF FrameInit, SilenceInv, Armed
<1>2. SilenceInv /\ [FrameNext]_frameVars => SilenceInv'
  BY SilenceKeeps
<1>3. SilenceInv => SilenceBounded
  BY LongestIsLongest, FrameAssumption DEF SilenceInv, SilenceBounded
<1>. QED  BY <1>1, <1>2, <1>3, PTL DEF FrameSpec

-----------------------------------------------------------------------------
(* The framed download: the wire and its reader *)

\* A set of numbers has a least one; the proofs about Uvarint go by a least
\* counterexample.
LEMMA NatMin ==
  ASSUME NEW T \in SUBSET Nat, T # {}
  PROVE  \E x \in T : \A y \in T : x <= y
<1>. DEFINE R == {ss \in Nat \X Nat : ss[1] < ss[2]}
<1>1. IsWellFoundedOn(R, Nat)
  BY NatLessThanWellFounded, Zenon DEF OpToRel
<1>2. \A x, y \in Nat : <<y, x>> \in R <=> y < x
  OBVIOUS
<1>. HIDE DEF R
<1>3. \E x \in T : \A y \in T : ~(<<y, x>> \in R)
  BY <1>1, WFMin, Zenon
<1>4. PICK x \in T : \A y \in T : ~(<<y, x>> \in R)
  BY <1>3
<1>5. \A y \in T : ~(y < x)
  BY <1>2, <1>4, Zenon
<1>. QED  BY <1>5

\* What is left of a number after one byte of it.
LEMMA DivMod ==
  ASSUME NEW b \in Nat \ {0, 1}, NEW v \in Nat
  PROVE  v \div b \in Nat /\ v % b \in 0..b-1 /\ v = b * (v \div b) + (v % b)
OBVIOUS

\* PutUvarint goes on with a smaller number, so it ends.
LEMMA RestIsLess ==
  ASSUME NEW v \in Nat, v >= Base
  PROVE  v \div Base \in Nat /\ v \div Base < v
<1>1. ASSUME NEW b \in Nat \ {0, 1}, v >= b
      PROVE  v \div b \in Nat /\ v \div b < v
  BY <1>1
<1>. QED  BY <1>1, FrameAssumption

Bytes == 0 .. 2 * Base - 1

\* One round of PutUvarint, with g for the smaller numbers.
UvarintStep(g, v) ==
  IF v < Base THEN <<v>> ELSE <<Base + (v % Base)>> \o g[v \div Base]

\* g agrees with PutUvarint up to n.
UvarintUpTo(g, n) ==
  /\ g \in [0..n -> Seq(Bytes)]
  /\ \A v \in 0..n : g[v] = UvarintStep(g, v)

\* One round of PutUvarint puts a byte before the bytes of a smaller number.
LEMMA UvarintStepType ==
  ASSUME NEW v \in Nat, NEW g, v >= Base => g[v \div Base] \in Seq(Bytes)
  PROVE  UvarintStep(g, v) \in Seq(Bytes)
<1>. Base \in Nat \ {0, 1}
  BY FrameAssumption
<1>1. CASE v < Base
  <2>1. v \in Bytes
    BY <1>1 DEF Bytes
  <2>. QED  BY <1>1, <2>1 DEF UvarintStep
<1>2. CASE ~(v < Base)
  <2>1. g[v \div Base] \in Seq(Bytes)
    BY <1>2
  <2>2. Base + (v % Base) \in Bytes
    <3>1. v % Base \in 0..Base-1
      BY DivMod
    <3>. QED  BY <3>1 DEF Bytes
  <2>3. <<Base + (v % Base)>> \in Seq(Bytes)
    BY <2>2
  <2>. QED  BY <1>2, <2>1, <2>3 DEF UvarintStep
<1>. QED  BY <1>1, <1>2

\* The bytes of all numbers up to n, each made from those of a smaller one.
LEMMA UvarintExists ==
  ASSUME NEW n \in Nat
  PROVE  \E g : UvarintUpTo(g, n)
<1>. Base \in Nat \ {0, 1}
  BY FrameAssumption
<1>. DEFINE T == {m \in Nat : ~ \E g : UvarintUpTo(g, m)}
<1>1. SUFFICES ASSUME T # {} PROVE FALSE
  OBVIOUS
<1>2. PICK m \in T : \A k \in T : m <= k
  <2>. T \in SUBSET Nat
    OBVIOUS
  <2>. HIDE DEF T
  <2>. QED  BY <1>1, NatMin
<1>3. m \in Nat /\ ~ \E g : UvarintUpTo(g, m)
  OBVIOUS
<1>4. CASE m = 0
  <2>. DEFINE h == [x \in 0..0 |-> UvarintStep(<<>>, 0)]
  <2>1. UvarintStep(<<>>, 0) \in Seq(Bytes)
    BY UvarintStepType
  <2>2. \A v \in 0..0 : h[v] = UvarintStep(h, v)
    BY DEF UvarintStep
  <2>. QED  BY <1>3, <1>4, <2>1, <2>2 DEF UvarintUpTo
<1>5. CASE m > 0
  <2>1. m - 1 \in Nat /\ ~(m - 1 \in T)
    BY <1>2, <1>3, <1>5
  <2>2. PICK g : UvarintUpTo(g, m - 1)
    BY <2>1
  <2>. DEFINE h == [x \in 0..m |-> IF x = m THEN UvarintStep(g, m) ELSE g[x]]
  <2>3. \A v \in 0..m : v >= Base => v \div Base \in 0..m-1 /\ v \div Base < v
    <3>. TAKE v \in 0..m
    <3>1. v \in Nat
      BY <1>3
    <3>. QED  BY <1>3, <3>1, RestIsLess
  <2>4. UvarintStep(g, m) \in Seq(Bytes)
    <3>1. m >= Base => g[m \div Base] \in Seq(Bytes)
      <4>1. m \in 0..m
        BY <1>3
      <4>. QED  BY <2>2, <2>3, <4>1, Zenon DEF UvarintUpTo
    <3>. QED  BY <1>3, <3>1, UvarintStepType
  <2>5. h \in [0..m -> Seq(Bytes)]
    BY <1>3, <2>2, <2>4 DEF UvarintUpTo
  <2>6. \A x \in 0..m-1 : h[x] = g[x]
    BY <1>3
  <2>7. h[m] = UvarintStep(g, m)
    BY <1>3
  <2>. HIDE DEF h
  <2>8. \A v \in 0..m : UvarintStep(h, v) = UvarintStep(g, v)
    BY <2>3, <2>6 DEF UvarintStep
  <2>9. \A v \in 0..m : h[v] = UvarintStep(h, v)
    <3>. TAKE v \in 0..m
    <3>1. CASE v = m
      BY <2>7, <2>8, <3>1
    <3>2. CASE v # m
      <4>1. v \in 0..m-1
        BY <1>3, <3>2
      <4>. QED  BY <2>2, <2>6, <2>8, <4>1 DEF UvarintUpTo
    <3>. QED  BY <3>1, <3>2
  <2>. QED  BY <1>3, <2>5, <2>9, SMTT(40) DEF UvarintUpTo
<1>. QED  BY <1>3, <1>4, <1>5

\* There is one way to write the numbers up to n.
LEMMA UvarintUnique ==
  ASSUME NEW n \in Nat, NEW m \in Nat, NEW g, NEW h, n <= m,
         UvarintUpTo(g, n), UvarintUpTo(h, m)
  PROVE  g[n] = h[n]
<1>. Base \in Nat \ {0, 1}
  BY FrameAssumption
<1>. DEFINE T == {v \in 0..n : g[v] # h[v]}
<1>1. SUFFICES ASSUME T # {} PROVE FALSE
  OBVIOUS
<1>2. PICK v \in T : \A k \in T : v <= k
  <2>. T \in SUBSET Nat
    OBVIOUS
  <2>. HIDE DEF T
  <2>. QED  BY <1>1, NatMin
<1>3. v \in 0..n /\ v \in 0..m /\ v \in Nat /\ g[v] # h[v]
  OBVIOUS
<1>4. v >= Base => g[v \div Base] = h[v \div Base]
  <2>. SUFFICES ASSUME v >= Base PROVE g[v \div Base] = h[v \div Base]
    OBVIOUS
  <2>1. v \div Base \in 0..n /\ v \div Base < v
    BY <1>3, RestIsLess
  <2>2. ~(v \div Base \in T)
    BY <1>2, <1>3, <2>1
  <2>. QED  BY <2>1, <2>2
<1>5. UvarintStep(g, v) = UvarintStep(h, v)
  BY <1>3, <1>4 DEF UvarintStep
<1>. QED  BY <1>3, <1>5 DEF UvarintUpTo

\* The recursive definition of Uvarint means what it says for every number:
\* binary.PutUvarint.
LEMMA UvarintUnfolds ==
  \A v \in Nat : Uvarint[v] = UvarintStep(Uvarint, v)
<1>. Base \in Nat \ {0, 1}
  BY FrameAssumption
<1>. DEFINE G(n) == CHOOSE g : UvarintUpTo(g, n)
            F == [v \in Nat |-> G(v)[v]]
<1>1. \A n \in Nat : UvarintUpTo(G(n), n)
  BY UvarintExists
<1>. HIDE DEF G
<1>2. \A v \in Nat : F[v] = UvarintStep(F, v)
  <2>. TAKE v \in Nat
  <2>1. F[v] = UvarintStep(G(v), v)
    BY <1>1 DEF UvarintUpTo
  <2>2. v >= Base => G(v)[v \div Base] = F[v \div Base]
    <3>. SUFFICES ASSUME v >= Base PROVE G(v)[v \div Base] = F[v \div Base]
      OBVIOUS
    <3>1. v \div Base \in Nat /\ v \div Base <= v
      BY RestIsLess
    <3>2. G(v \div Base)[v \div Base] = G(v)[v \div Base]
      BY <1>1, <3>1, UvarintUnique
    <3>. QED  BY <3>1, <3>2
  <2>. HIDE DEF F
  <2>. QED  BY <2>1, <2>2 DEF UvarintStep
<1>3. F = [v \in Nat |-> UvarintStep(F, v)]
  BY <1>2
<1>. HIDE DEF F
<1>4. \E f : f = [v \in Nat |-> UvarintStep(f, v)]
  BY <1>3
<1>5. Uvarint = CHOOSE f : f = [v \in Nat |-> UvarintStep(f, v)]
  BY DEF Uvarint, UvarintStep
<1>6. Uvarint = [v \in Nat |-> UvarintStep(Uvarint, v)]
  BY <1>4, <1>5
<1>. QED  BY <1>6

\* PutUvarint writes at least one byte, and bytes only.
LEMMA UvarintType ==
  \A v \in Nat : Uvarint[v] \in Seq(Bytes) /\ Len(Uvarint[v]) > 0
<1>. Base \in Nat \ {0, 1}
  BY FrameAssumption
<1>. DEFINE T == {v \in Nat : ~(Uvarint[v] \in Seq(Bytes))}
<1>1. ASSUME T # {} PROVE FALSE
  <2>1. PICK v \in T : \A k \in T : v <= k
    <3>. T \in SUBSET Nat
      OBVIOUS
    <3>. HIDE DEF T
    <3>. QED  BY <1>1, NatMin
  <2>2. v \in Nat /\ ~(Uvarint[v] \in Seq(Bytes))
    OBVIOUS
  <2>3. v >= Base => Uvarint[v \div Base] \in Seq(Bytes)
    <3>. SUFFICES ASSUME v >= Base PROVE Uvarint[v \div Base] \in Seq(Bytes)
      OBVIOUS
    <3>1. v \div Base \in Nat /\ v \div Base < v
      BY <2>2, RestIsLess, SMTT(40)
    <3>2. ~(v \div Base \in T)
      BY <2>1, <2>2, <3>1
    <3>. QED  BY <3>1, <3>2
  <2>. QED  BY <2>2, <2>3, UvarintStepType, UvarintUnfolds
<1>2. \A v \in Nat : Uvarint[v] \in Seq(Bytes)
  BY <1>1
<1>. TAKE v \in Nat
<1>3. CASE v < Base
  <2>1. Uvarint[v] = <<v>>
    BY <1>3, UvarintUnfolds, Zenon DEF UvarintStep
  <2>2. Len(<<v>>) > 0
    OBVIOUS
  <2>. QED  BY <1>2, <2>1, <2>2, Zenon
<1>4. CASE ~(v < Base)
  <2>1. v \div Base \in Nat
    BY DivMod
  <2>2. Uvarint[v \div Base] \in Seq(Bytes)
    BY <1>2, <2>1
  <2>3. Uvarint[v] = <<Base + (v % Base)>> \o Uvarint[v \div Base]
    BY <1>4, UvarintUnfolds, Zenon DEF UvarintStep
  <2>. QED  BY <1>2, <2>2, <2>3
<1>. QED  BY <1>2, <1>3, <1>4

\* What ReadUvarint still has to read after j bytes of the header h is the
\* uvarint of v.
UvarintTail(h, j, v) ==
  /\ j + Len(Uvarint[v]) = Len(Uvarint[h])
  /\ \A i \in 1..Len(Uvarint[v]) : Uvarint[h][j + i] = Uvarint[v][i]

\* Before its first byte ReadUvarint has the whole number before it.
LEMMA UvarintTailStarts ==
  ASSUME NEW h \in Nat
  PROVE  UvarintTail(h, 0, h)
<1>1. Len(Uvarint[h]) \in Nat
  BY UvarintType
<1>. QED  BY <1>1 DEF UvarintTail

\* The next byte of a header: the last one, or one with the continuation bit.
UvarintNext(h, j, v) ==
  /\ j + 1 \in 1..Len(Uvarint[h])
  /\ v < Base => Uvarint[h][j + 1] = v /\ j + 1 = Len(Uvarint[h])
  /\ ~(v < Base) => /\ Uvarint[h][j + 1] = Base + (v % Base)
                    /\ UvarintTail(h, j + 1, v \div Base)

\* The next byte of a uvarint: without the continuation bit it is the last
\* one, with it the rest of the number follows. ReadUvarint sees which of the
\* two it is.
LEMMA UvarintTailByte ==
  ASSUME NEW h \in Nat, NEW j \in Nat, NEW v \in Nat, UvarintTail(h, j, v)
  PROVE  UvarintNext(h, j, v)
<1>. DEFINE u == Uvarint[v]
<1>1. u \in Seq(Bytes) /\ Len(u) \in Nat /\ Len(u) > 0 /\ Len(Uvarint[h]) \in Nat
  BY UvarintType
<1>2. j + Len(u) = Len(Uvarint[h]) /\ \A i \in 1..Len(u) : Uvarint[h][j + i] = u[i]
  BY DEF UvarintTail
<1>3. Uvarint[h][j + 1] = u[1]
  BY <1>1, <1>2
<1>4. CASE v < Base
  <2>1. u = <<v>>
    BY <1>4, UvarintUnfolds, Zenon DEF UvarintStep
  <2>2. u[1] = v /\ Len(u) = 1
    BY <2>1
  <2>. HIDE DEF u
  <2>3. j + 1 \in 1..Len(Uvarint[h]) /\ j + 1 = Len(Uvarint[h])
    BY <1>1, <1>2, <2>2
  <2>. QED  BY <1>3, <1>4, <2>2, <2>3, Zenon DEF UvarintNext
<1>5. CASE ~(v < Base)
  <2>. DEFINE q == v \div Base
              t == Uvarint[q]
  <2>1. q \in Nat
    BY <1>5, RestIsLess, FrameAssumption
  <2>2. u = <<Base + (v % Base)>> \o t
    BY <1>5, UvarintUnfolds, Zenon DEF UvarintStep
  <2>3. t \in Seq(Bytes) /\ Len(t) \in Nat
    BY <2>1, UvarintType
  <2>. HIDE DEF u, t
  <2>4. /\ u[1] = Base + (v % Base) /\ Len(u) = 1 + Len(t)
        /\ \A i \in 1..Len(t) : u[1 + i] = t[i]
    BY <2>2, <2>3
  <2>5. \A i \in 1..Len(t) : Uvarint[h][(j + 1) + i] = t[i]
    <3>. TAKE i \in 1..Len(t)
    <3>1. 1 + i \in 1..Len(u) /\ j + (1 + i) = (j + 1) + i
      BY <2>3, <2>4
    <3>2. Uvarint[h][j + (1 + i)] = u[1 + i]
      BY <1>2, <3>1
    <3>. QED  BY <2>4, <3>1, <3>2
  <2>6. (j + 1) + Len(t) = Len(Uvarint[h])
    BY <1>1, <1>2, <2>3, <2>4
  <2>7. UvarintTail(h, j + 1, q)
    BY <2>5, <2>6, Zenon DEF UvarintTail, t
  <2>8. j + 1 \in 1..Len(Uvarint[h])
    BY <1>1, <1>2
  <2>. QED  BY <1>3, <1>5, <2>4, <2>7, <2>8, Zenon DEF UvarintNext, q
<1>. QED  BY <1>4, <1>5

-----------------------------------------------------------------------------
(* The records on the wire *)

\* Byte k of the proxied stream, counted from zero.
ByteAt(k) == k % (2 * Base)

\* Where the record ends that starts at e with the header h, and how much of
\* the proxied stream it carries.
After(e, h) == e + Len(Uvarint[h]) + (h \div 2)

Carried(h) == IF h % 2 = Data THEN h \div 2 ELSE 0

\* The record with the header h is at e on the wire w, as far as w goes; E are
\* the ends of records, off the offset in the proxied stream at each of them.
RecordAt(w, E, last, off, h, e) ==
  /\ h \div 2 <= MaxRecord
  /\ After(e, h) \in E /\ After(e, h) <= last
  /\ off[After(e, h)] = off[e] + Carried(h)
  /\ \A i \in 1..Len(Uvarint[h]) : e + i <= Len(w) => w[e + i] = Uvarint[h][i]
  /\ h % 2 = Data =>
       \A i \in 1..(h \div 2) : LET k == e + Len(Uvarint[h]) + i
                                IN  k <= Len(w) => w[k] = ByteAt(off[e] + i - 1)

\* The server wrote whole records up to last, and w is what is left of them.
Layout(w, E, s, last, off, hdr) ==
  /\ last \in E /\ E \subseteq 0..last /\ Len(w) <= last
  /\ off[last] = s /\ \A e \in E : off[e] <= s
  /\ \A e \in E \ {last} : RecordAt(w, E, last, off, hdr[e], e)

\* A piece of k bytes of the wire.
LEMMA Piece ==
  ASSUME NEW w \in Seq(Bytes), NEW p \in Nat, NEW k \in Nat, p + k <= Len(w)
  PROVE  /\ SubSeq(w, p + 1, p + k) \in Seq(Bytes)
         /\ Len(SubSeq(w, p + 1, p + k)) = k
         /\ \A i \in 1..k : SubSeq(w, p + 1, p + k)[i] = w[p + i]
<1>. DEFINE a == p + 1
            b == p + k
<1>1. Len(w) \in Nat /\ a \in Int /\ b \in Int /\ b - a + 1 = k
  OBVIOUS
<1>2. \A i \in a..b : w[i] \in Bytes
  <2>. TAKE i \in a..b
  <2>1. i \in 1..Len(w)
    BY <1>1
  <2>. QED  BY <2>1
<1>3. \A i \in 1..k : a + i - 1 = p + i
  OBVIOUS
<1>4. (IF a <= b THEN b - a + 1 ELSE 0) = k
  OBVIOUS
<1>. HIDE DEF a, b
<1>5. /\ SubSeq(w, a, b) \in Seq(Bytes)
      /\ Len(SubSeq(w, a, b)) = IF a <= b THEN b - a + 1 ELSE 0
      /\ \A i \in 1 .. b - a + 1 : SubSeq(w, a, b)[i] = w[a + i - 1]
  BY <1>1, <1>2, SubSeqProperties
<1>6. SubSeq(w, a, b) \in Seq(Bytes) /\ Len(SubSeq(w, a, b)) = k
  BY <1>4, <1>5, Zenon
<1>7. \A i \in 1..k : SubSeq(w, a, b)[i] = w[p + i]
  BY <1>1, <1>3, <1>5, Zenon
<1>. QED  BY <1>6, <1>7, Zenon DEF a, b

\* The two parts of a record's length: its header and its payload.
LEMMA UvarintLen ==
  ASSUME NEW h \in Nat
  PROVE  Uvarint[h] \in Seq(Bytes) /\ Len(Uvarint[h]) \in Nat \ {0} /\ h \div 2 \in Nat
<1>1. Uvarint[h] \in Seq(Bytes) /\ Len(Uvarint[h]) > 0
  BY UvarintType
<1>2. h \div 2 \in Nat
  OBVIOUS
<1>. QED  BY <1>1, <1>2

\* The first k bytes of the wire.
LEMMA CutBytes ==
  ASSUME NEW w \in Seq(Bytes), NEW k \in Nat, k <= Len(w)
  PROVE  /\ SubSeq(w, 1, k) \in Seq(Bytes) /\ Len(SubSeq(w, 1, k)) = k
         /\ \A i \in 1..k : SubSeq(w, 1, k)[i] = w[i]
<1>1. 0 + 1 = 1 /\ 0 + k = k /\ \A i \in 1..k : 0 + i = i
  OBVIOUS
<1>2. \A p \in Nat : p + k <= Len(w) =>
        /\ SubSeq(w, p + 1, p + k) \in Seq(Bytes)
        /\ Len(SubSeq(w, p + 1, p + k)) = k
        /\ \A i \in 1..k : SubSeq(w, p + 1, p + k)[i] = w[p + i]
  BY Piece, Zenon
<1>3. 0 \in Nat /\ 0 + k <= Len(w)
  OBVIOUS
<1>4. /\ SubSeq(w, 0 + 1, 0 + k) \in Seq(Bytes)
      /\ Len(SubSeq(w, 0 + 1, 0 + k)) = k
      /\ \A i \in 1..k : SubSeq(w, 0 + 1, 0 + k)[i] = w[0 + i]
  BY <1>2, <1>3
<1>. QED  BY <1>1, <1>4, Zenon

\* Cutting the response leaves the records that are whole, and the start of
\* the one that is not.
LEMMA CutKeepsLayout ==
  ASSUME NEW w \in Seq(Bytes), NEW E, NEW s \in Nat, NEW last \in Nat,
         NEW off \in [Nat -> Nat], NEW hdr \in [Nat -> Nat],
         Layout(w, E, s, last, off, hdr), NEW k \in 0..Len(w)
  PROVE  Layout(SubSeq(w, 1, k), E, s, last, off, hdr)
<1>. DEFINE x == SubSeq(w, 1, k)
<1>1. Len(w) \in Nat /\ k \in Nat /\ k <= Len(w)
  OBVIOUS
<1>2. Len(x) = k /\ \A i \in 1..k : x[i] = w[i]
  BY <1>1, CutBytes, Zenon
<1>. HIDE DEF x
<1>3. ASSUME NEW e \in E \ {last}
      PROVE  RecordAt(x, E, last, off, hdr[e], e)
  <2>. DEFINE h == hdr[e]
              m == Len(Uvarint[h])
              d == h \div 2
  <2>1. RecordAt(w, E, last, off, h, e)
    BY Zenon DEF Layout
  <2>2. e \in Nat
    BY DEF Layout
  <2>3. h \in Nat /\ m \in Nat /\ d \in Nat
    BY <2>2, UvarintLen, Zenon
  <2>. HIDE DEF h, m, d
  <2>4. ASSUME NEW i \in 1..m, e + i <= Len(x)
        PROVE  x[e + i] = Uvarint[h][i]
    <3>1. e + i \in 1..k /\ e + i <= Len(w)
      <4>1. \A a, c, q, l \in Nat : c # 0 /\ a + c <= q /\ q <= l => a + c \in 1..q /\ a + c <= l
        OBVIOUS
      <4>2. i \in Nat /\ i # 0
        BY <2>3
      <4>3. e + i <= k
        BY <1>2, <2>4, Zenon
      <4>. QED  BY <1>1, <2>2, <4>1, <4>2, <4>3, Zenon
    <3>2. w[e + i] = Uvarint[h][i]
      BY <2>1, <3>1, Zenon DEF RecordAt, m
    <3>. QED  BY <1>2, <3>1, <3>2, Zenon
  <2>5. ASSUME NEW i \in 1..d, h % 2 = Data, e + m + i <= Len(x)
        PROVE  x[e + m + i] = ByteAt(off[e] + i - 1)
    <3>1. e + m + i \in 1..k /\ e + m + i <= Len(w)
      BY <1>1, <1>2, <2>2, <2>3, <2>5
    <3>2. w[e + m + i] = ByteAt(off[e] + i - 1)
      BY <2>1, <2>5, <3>1, Zenon DEF RecordAt, m, d
    <3>. QED  BY <1>2, <3>1, <3>2, Zenon
  <2>6. RecordAt(x, E, last, off, h, e)
    BY <2>1, <2>4, <2>5, Zenon DEF RecordAt, m, d
  <2>. QED  BY <2>6 DEF h
<1>4. Len(x) <= last
  BY <1>1, <1>2 DEF Layout
<1>. QED  BY <1>3, <1>4, Zenon DEF Layout, x

\* One sequence of bytes behind another: appendRecord, and Write on the wire.
LEMMA Joined ==
  ASSUME NEW p \in Seq(Bytes), NEW q \in Seq(Bytes)
  PROVE  /\ p \o q \in Seq(Bytes) /\ Len(p \o q) = Len(p) + Len(q)
         /\ \A i \in 1..Len(p) : (p \o q)[i] = p[i]
         /\ \A i \in 1..Len(q) : (p \o q)[Len(p) + i] = q[i]
OBVIOUS

\* What a record carries of the proxied stream is a length.
LEMMA CarriedType ==
  ASSUME NEW h \in Nat
  PROVE  Carried(h) \in Nat
<1>1. h \div 2 \in Nat /\ 0 \in Nat
  BY UvarintLen
<1>. QED  BY <1>1, Zenon DEF Carried

\* The payload b goes with the header h, and data goes on where the stream is.
RecordOf(h, b, s) ==
  /\ b \in Seq(Bytes) /\ Len(b) = h \div 2 /\ h \div 2 <= MaxRecord
  /\ h % 2 = Data => \A i \in 1..Len(b) : b[i] = ByteAt(s + i - 1)

\* The wire w, last bytes long, and the wire x, z bytes long, that has one more
\* record.
Appended(w, last, h, b, x, z) ==
  /\ w \in Seq(Bytes) /\ last = Len(w)
  /\ x = w \o (Uvarint[h] \o b) /\ z = Len(x)

\* Where the bytes of the wire x are.
OneMore(w, last, h, b, x, z) ==
  /\ last \in Nat /\ z \in Nat /\ last < z
  /\ z = last + Len(Uvarint[h]) + (h \div 2)
  /\ \A i \in 1..last : x[i] = w[i]
  /\ \A i \in 1..Len(Uvarint[h]) : x[last + i] = Uvarint[h][i]
  /\ \A i \in 1..(h \div 2) : x[last + Len(Uvarint[h]) + i] = b[i]

\* The wire with one more record has the old bytes, the header and the
\* payload.
LEMMA AppendedBytes ==
  ASSUME NEW w, NEW last, NEW h \in Nat, NEW b, NEW x, NEW z, NEW s,
         RecordOf(h, b, s), Appended(w, last, h, b, x, z)
  PROVE  OneMore(w, last, h, b, x, z)
<1>. DEFINE u == Uvarint[h]
            m == Len(u)
            d == Len(b)
            y == u \o b
<1>1. u \in Seq(Bytes) /\ m \in Nat \ {0} /\ h \div 2 \in Nat
  BY UvarintLen, Zenon
<1>2. w \in Seq(Bytes) /\ b \in Seq(Bytes) /\ last = Len(w) /\ z = Len(x) /\ d = h \div 2
  BY Zenon DEF RecordOf, Appended
<1>3. last \in Nat
  BY <1>2
<1>. HIDE DEF u
<1>4. y \in Seq(Bytes) /\ Len(y) = m + d
  BY <1>1, <1>2, Joined, Zenon
<1>5. /\ \A i \in 1..m : y[i] = u[i]
      /\ \A i \in 1..d : y[m + i] = b[i]
  BY <1>1, <1>2, Joined, Zenon
<1>6. x = w \o y
  BY Zenon DEF Appended, u
<1>. HIDE DEF y, m, d
<1>7. /\ Len(w \o y) = last + Len(y)
      /\ \A i \in 1..last : (w \o y)[i] = w[i]
      /\ \A i \in 1..Len(y) : (w \o y)[last + i] = y[i]
  BY <1>2, <1>4, Joined, Zenon
<1>8. /\ z = last + Len(y)
      /\ \A i \in 1..last : x[i] = w[i]
      /\ \A i \in 1..Len(y) : x[last + i] = y[i]
  BY <1>2, <1>6, <1>7, Zenon
<1>9. z = last + m + d
  BY <1>1, <1>2, <1>3, <1>4, <1>8
<1>10. z \in Nat /\ last < z
  BY <1>1, <1>2, <1>3, <1>9
<1>11. ASSUME NEW i \in 1..m
       PROVE  x[last + i] = u[i]
  <2>1. i \in 1..Len(y)
    BY <1>1, <1>2, <1>4
  <2>. QED  BY <1>5, <1>8, <2>1, Zenon
<1>12. ASSUME NEW i \in 1..d
       PROVE  x[last + m + i] = b[i]
  <2>1. m + i \in 1..Len(y)
    BY <1>1, <1>2, <1>4
  <2>2. last + (m + i) = last + m + i
    BY <1>1, <1>2, <1>3
  <2>. QED  BY <1>5, <1>8, <2>1, <2>2, Zenon
<1>. QED  BY <1>2, <1>3, <1>8, <1>9, <1>10, <1>11, <1>12, Zenon DEF OneMore, m, u

\* A record that appendRecord puts at the end of the wire: the others stay
\* where they are, and the stream goes on with what it carries.
LEMMA AppendKeepsLayout ==
  ASSUME NEW w, NEW E, NEW s \in Nat, NEW last \in Nat, NEW z \in Nat,
         NEW off \in [Nat -> Nat], NEW hdr \in [Nat -> Nat],
         Layout(w, E, s, last, off, hdr),
         NEW h \in Nat, NEW b, RecordOf(h, b, s),
         NEW x, Appended(w, last, h, b, x, z), NEW t \in Nat, t = s + Carried(h)
  PROVE  Layout(x, E \cup {z}, t, z, [off EXCEPT ![z] = t], [hdr EXCEPT ![last] = h])
<1>. DEFINE u == Uvarint[h]
            m == Len(u)
            d == h \div 2
            E2 == E \cup {z}
            off2 == [off EXCEPT ![z] = t]
            hdr2 == [hdr EXCEPT ![last] = h]
<1>1. m \in Nat \ {0} /\ d \in Nat
  BY UvarintLen, Zenon
<1>2. s <= t
  <2>1. Carried(h) \in Nat
    BY CarriedType, Zenon
  <2>. QED  BY <2>1
<1>. HIDE DEF m, d, u
<1>3. /\ last \in Nat /\ last < z
      /\ z = last + m + d
      /\ \A i \in 1..last : x[i] = w[i]
      /\ \A i \in 1..m : x[last + i] = u[i]
      /\ \A i \in 1..d : x[last + m + i] = b[i]
  <2>1. OneMore(w, last, h, b, x, z)
    BY AppendedBytes, Zenon
  <2>. QED  BY <2>1, Zenon DEF OneMore, m, d, u
<1>4. z = last + m + d /\ last < z
  BY <1>3, Zenon
<1>5. \A i \in 1..last : x[i] = w[i]
  BY <1>3, Zenon
<1>6. \A i \in 1..m : x[last + i] = u[i]
  BY <1>3, Zenon
<1>7. \A i \in 1..d : x[last + m + i] = b[i]
  BY <1>3, Zenon
<1>8. E \subseteq 0..last /\ last \in E /\ off[last] = s
  BY Zenon DEF Layout
<1>9. /\ \A e \in E : off[e] <= s
      /\ \A e \in E \ {last} : RecordAt(w, E, last, off, hdr[e], e)
  BY Zenon DEF Layout
<1>10. z \notin E /\ E2 \ {z} = E
  BY <1>1, <1>4, <1>8
<1>11. /\ \A e \in E : off2[e] = off[e]
      /\ off2[z] = t
  BY <1>1, <1>4, <1>8, <1>10
<1>12. /\ \A e \in E \ {last} : hdr2[e] = hdr[e]
      /\ hdr2[last] = h
  BY <1>1, <1>8
<1>. HIDE DEF off2, hdr2
<1>13. ASSUME NEW e \in E \ {last}
      PROVE  RecordAt(x, E2, z, off2, hdr[e], e)
  <2>. DEFINE g == hdr[e]
              k == Len(Uvarint[g])
              c == g \div 2
              a == After(e, g)
  <2>1. RecordAt(w, E, last, off, g, e)
    BY <1>9, Zenon
  <2>2. e \in Nat
    BY <1>1, <1>8
  <2>3. g \in Nat /\ k \in Nat \ {0} /\ c \in Nat /\ a = e + k + c
    BY <2>2, UvarintLen, Zenon DEF After
  <2>. HIDE DEF g, k, c, a
  <2>4. a \in E /\ a <= last /\ off[a] = off[e] + Carried(g) /\ c <= MaxRecord
    BY <2>1, Zenon DEF RecordAt, a, c
  <2>5. a \in E2 /\ a <= z /\ off2[a] = off2[e] + Carried(g)
    <3>1. a \in E2 /\ off2[a] = off2[e] + Carried(g)
      BY <1>11, <2>4, Zenon
    <3>2. a \in Nat
      BY <1>8, <2>4
    <3>. QED  BY <1>1, <1>4, <2>4, <3>1, <3>2
  <2>6. ASSUME NEW i \in 1..k
        PROVE  x[e + i] = Uvarint[g][i]
    <3>1. e + i \in 1..last /\ e + i <= last
      BY <1>1, <2>2, <2>3, <2>4
    <3>2. e + i <= Len(w)
      BY <3>1, Zenon DEF Appended
    <3>3. w[e + i] = Uvarint[g][i]
      BY <2>1, <2>6, <3>2, Zenon DEF RecordAt, k
    <3>. QED  BY <1>5, <3>1, <3>3, Zenon
  <2>7. ASSUME NEW i \in 1..c, g % 2 = Data
        PROVE  x[e + k + i] = ByteAt(off2[e] + i - 1)
    <3>1. e + k + i \in 1..last /\ e + k + i <= last
      BY <1>1, <2>2, <2>3, <2>4
    <3>2. e + k + i <= Len(w)
      BY <3>1, Zenon DEF Appended
    <3>3. w[e + k + i] = ByteAt(off[e] + i - 1)
      BY <2>1, <2>7, <3>2, Zenon DEF RecordAt, k, c
    <3>. QED  BY <1>5, <1>11, <3>1, <3>3, Zenon
  <2>8. RecordAt(x, E2, z, off2, g, e)
    BY <2>4, <2>5, <2>6, <2>7, Zenon DEF RecordAt, a, c, k
  <2>. QED  BY <2>8 DEF g
<1>14. RecordAt(x, E2, z, off2, h, last)
  <2>1. After(last, h) = z
    BY <1>4 DEF After, m, u, d
  <2>2. z \in E2 /\ z <= z /\ off2[z] = off2[last] + Carried(h)
    BY <1>4, <1>8, <1>11
  <2>3. \A i \in 1..d : h % 2 = Data => x[last + m + i] = ByteAt(off2[last] + i - 1)
    <3>. TAKE i \in 1..d
    <3>. HAVE h % 2 = Data
    <3>1. b[i] = ByteAt(s + i - 1)
      BY Zenon DEF RecordOf, d
    <3>. QED  BY <1>7, <1>8, <1>11, <3>1, Zenon
  <2>4. d <= MaxRecord
    BY Zenon DEF RecordOf, d
  <2>. QED  BY <1>6, <2>1, <2>2, <2>3, <2>4, Zenon DEF RecordAt, m, u, d
<1>15. ASSUME NEW e \in E2 \ {z}
       PROVE  RecordAt(x, E2, z, off2, hdr2[e], e)
  <2>1. CASE e = last
    BY <1>12, <1>14, <2>1
  <2>2. CASE e # last
    <3>1. e \in E \ {last}
      BY <1>10, <2>2
    <3>. QED  BY <1>12, <1>13, <3>1, Zenon
  <2>. QED  BY <2>1, <2>2
<1>16. /\ z \in E2 /\ E2 \subseteq 0..z /\ z <= z
       /\ off2[z] = t /\ \A e \in E2 : off2[e] <= t
  <2>1. E2 \subseteq 0..z
    BY <1>1, <1>4, <1>8
  <2>2. ASSUME NEW e \in E
        PROVE  off2[e] <= t
    <3>1. off[e] \in Nat
      BY <1>1, <1>8
    <3>2. off[e] <= s /\ off2[e] = off[e]
      BY <1>9, <1>11, Zenon
    <3>. QED  BY <1>2, <3>1, <3>2
  <2>3. z <= z /\ t <= t
    BY <1>2, <1>4
  <2>. QED  BY <1>11, <2>1, <2>2, <2>3, Zenon
<1>17. Layout(x, E2, t, z, off2, hdr2)
  <2>1. Len(x) = z
    BY Zenon DEF Appended
  <2>. QED  BY <1>15, <1>16, <2>1, Zenon DEF Layout
<1>. QED  BY <1>17 DEF off2, hdr2

-----------------------------------------------------------------------------
(* Where the reader is *)

\* Inside the header of the record at e, when j bytes of it are read and v is
\* what the rest of it encodes.
HeaderAt(hdr, off, p, a, wt, n, e, j, v) ==
  /\ n = off[e] /\ p = e + j
  /\ UvarintTail(hdr[e], j, v)
  /\ a + wt * v = hdr[e]

\* At the start of a record, or behind some bytes of its header.
InHeader(E, last, off, hdr, p, a, wt, n) ==
  \/ p \in E /\ n = off[p] /\ a = 0 /\ wt = 1
  \/ /\ wt > 1
     /\ \E e \in E \ {last} : \E j, v \in Nat : HeaderAt(hdr, off, p, a, wt, n, e, j, v)

\* Inside the payload of a record, with r bytes of it unread and n bytes
\* delivered.
PayloadAt(E, off, hdr, kind, p, r, n, e) ==
  /\ hdr[e] % 2 = kind /\ r <= hdr[e] \div 2
  /\ p + r = After(e, hdr[e])
  /\ IF kind = Data THEN n + r = off[After(e, hdr[e])] ELSE n = off[After(e, hdr[e])]

\* Inside the payload of some record.
InRecord(E, last, off, hdr, kind, p, r, n) ==
  \E e \in E \ {last} : PayloadAt(E, off, hdr, kind, p, r, n, e)

\* Where the reader is among the records: p bytes taken, in the step st of
\* framedReader with a, wt of a header and r bytes of a record, n delivered.
Reading(E, last, off, hdr, p, st, a, wt, r, n) ==
  /\ st = "idle" /\ r = 0 => p \in E /\ n = off[p]
  /\ st = "idle" /\ r # 0 => InRecord(E, last, off, hdr, Data, p, r, n)
  /\ st = "payload" => r # 0 /\ InRecord(E, last, off, hdr, Data, p, r, n)
  /\ st = "header" => InHeader(E, last, off, hdr, p, a, wt, n)
  /\ st = "skip" => a = 0 /\ wt = 1 /\ InRecord(E, last, off, hdr, Padding, p, r, n)
  /\ st = "eof" => p \in E

\* There is a record whose header has the next byte.
OnRecord(E, last, off, hdr, p, a, wt, n) ==
  \E e \in E \ {last} : \E j, v \in Nat : HeaderAt(hdr, off, p, a, wt, n, e, j, v)

\* binary.ReadUvarint has a record to read from when there is a byte to read.
LEMMA HeaderHasRecord ==
  ASSUME NEW w, NEW E, NEW s, NEW last \in Nat, NEW off, NEW hdr \in [Nat -> Nat],
         Layout(w, E, s, last, off, hdr), NEW p \in Nat, p < Len(w), Len(w) \in Nat,
         NEW a, NEW wt, NEW n, InHeader(E, last, off, hdr, p, a, wt, n)
  PROVE  OnRecord(E, last, off, hdr, p, a, wt, n)
<1>1. CASE p \in E /\ n = off[p] /\ a = 0 /\ wt = 1
  <2>1. Len(w) <= last
    BY Zenon DEF Layout
  <2>2. p # last
    BY <2>1
  <2>3. hdr[p] \in Nat
    OBVIOUS
  <2>4. UvarintTail(hdr[p], 0, hdr[p])
    BY <2>3, UvarintTailStarts, Zenon
  <2>5. a + wt * hdr[p] = hdr[p] /\ p = p + 0 /\ 0 \in Nat
    BY <1>1, <2>3
  <2>6. HeaderAt(hdr, off, p, a, wt, n, p, 0, hdr[p])
    BY <1>1, <2>4, <2>5, Zenon DEF HeaderAt
  <2>. QED  BY <1>1, <2>2, <2>3, <2>5, <2>6, Zenon DEF OnRecord
<1>2. CASE ~(p \in E /\ n = off[p] /\ a = 0 /\ wt = 1)
  BY <1>2, Zenon DEF InHeader, OnRecord
<1>. QED  BY <1>1, <1>2

\* The byte at p + 1 is byte j + 1 of the header at e.
ByteOfHeader(w, hdr, p, e, j) ==
  /\ w[p + 1] = Uvarint[hdr[e]][j + 1]
  /\ e \in Nat /\ hdr[e] \in Nat /\ p + 1 = e + (j + 1)

\* The next byte of a header is the next byte of its uvarint.
LEMMA HeaderByte ==
  ASSUME NEW w, NEW E, NEW s, NEW last \in Nat, NEW off, NEW hdr \in [Nat -> Nat],
         Layout(w, E, s, last, off, hdr), NEW p \in Nat, p + 1 <= Len(w),
         NEW a, NEW wt, NEW n, NEW e \in E \ {last}, NEW j \in Nat, NEW v \in Nat,
         HeaderAt(hdr, off, p, a, wt, n, e, j, v)
  PROVE  ByteOfHeader(w, hdr, p, e, j)
<1>1. e \in Nat
  BY DEF Layout
<1>2. hdr[e] \in Nat
  BY <1>1
<1>3. p = e + j /\ UvarintTail(hdr[e], j, v)
  BY Zenon DEF HeaderAt
<1>4. p + 1 = e + (j + 1)
  BY <1>1, <1>3
<1>5. j + 1 \in 1..Len(Uvarint[hdr[e]])
  BY <1>2, <1>3, UvarintTailByte, Zenon DEF UvarintNext
<1>6. RecordAt(w, E, last, off, hdr[e], e)
  BY Zenon DEF Layout
<1>7. e + (j + 1) <= Len(w)
  BY <1>4, Zenon
<1>8. w[e + (j + 1)] = Uvarint[hdr[e]][j + 1]
  BY <1>5, <1>6, <1>7, ZenonT(40) DEF RecordAt
<1>. QED  BY <1>1, <1>2, <1>4, <1>8, Zenon DEF ByteOfHeader

\* A byte with the continuation bit leaves the reader inside the header.
LEMMA HeaderGoesOn ==
  ASSUME NEW E, NEW last, NEW off, NEW hdr, NEW p \in Nat, NEW a \in Nat, NEW wt \in Nat \ {0},
         NEW n, NEW e \in E \ {last}, NEW j \in Nat, NEW v \in Nat,
         HeaderAt(hdr, off, p, a, wt, n, e, j, v), ~(v < Base),
         hdr[e] \in Nat, p + 1 = e + (j + 1)
  PROVE  InHeader(E, last, off, hdr, p + 1, a + (v % Base) * wt, wt * Base, n)
<1>. DEFINE q == v \div Base
            m == v % Base
<1>1. Base \in Nat \ {0, 1}
  BY FrameAssumption
<1>2. q \in Nat /\ m \in Nat /\ v = Base * q + m
  <2>1. q \in Nat /\ m \in 0..Base-1 /\ v = Base * q + m
    BY <1>1, DivMod, Zenon
  <2>. HIDE DEF q, m
  <2>2. m \in Nat
    BY <1>1, <2>1
  <2>. QED  BY <2>1, <2>2, Zenon
<1>. HIDE DEF q, m
<1>3. UvarintTail(hdr[e], j + 1, q)
  BY UvarintTailByte, Zenon DEF HeaderAt, UvarintNext, q
<1>4. (a + m * wt) + (wt * Base) * q = a + wt * v
  <2>1. \A x, y, z, u \in Nat : (x + y * z) + (z * u) * q = x + z * (u * q + y)
    BY <1>2
  <2>. QED  BY <1>1, <1>2, <2>1
<1>5. wt * Base > 1
  <2>1. \A x, y \in Nat \ {0} : y > 1 => x * y > 1
    OBVIOUS
  <2>. QED  BY <1>1, <2>1
<1>6. j + 1 \in Nat
  OBVIOUS
<1>7. HeaderAt(hdr, off, p + 1, a + m * wt, wt * Base, n, e, j + 1, q)
  BY <1>3, <1>4, Zenon DEF HeaderAt
<1>8. InHeader(E, last, off, hdr, p + 1, a + m * wt, wt * Base, n)
  BY <1>2, <1>5, <1>6, <1>7, Zenon DEF InHeader
<1>. QED  BY <1>8 DEF m

\* A padding record adds nothing to the stream.
LEMMA PlusZero == \A x \in Nat : x + 0 = x
OBVIOUS

\* What Record makes of a header.
Recorded(h) ==
  IF h \div 2 > MaxRecord THEN "large"
  ELSE IF h % 2 = Padding THEN "skip"
  ELSE IF h \div 2 = 0 THEN "header" ELSE "payload"

\* A record is padding or data, and the reader tells which.
LEMMA Kinds ==
  ASSUME NEW h \in Nat, h \div 2 <= MaxRecord
  PROVE  /\ h % 2 = Padding => Carried(h) = 0 /\ Recorded(h) = "skip"
         /\ h % 2 # Padding => /\ h % 2 = Data /\ Carried(h) = h \div 2
                               /\ h \div 2 = 0 => Recorded(h) = "header"
                               /\ h \div 2 # 0 => Recorded(h) = "payload"
         /\ Padding # Data
<1>. DEFINE d == h \div 2
            k == h % 2
<1>1. d \in Nat /\ k \in {0, 1} /\ d <= MaxRecord
  OBVIOUS
<1>. HIDE DEF d, k
<1>2. ~(d > MaxRecord)
  BY <1>1, FrameAssumption
<1>3. k = 1 => Carried(h) = 0 /\ Recorded(h) = "skip"
  <2>1. k = 1 => Carried(h) = 0
    BY DEF Carried, Data, k
  <2>2. k = 1 => Recorded(h) = "skip"
    BY <1>2 DEF Recorded, Padding, d, k
  <2>. QED  BY <2>1, <2>2
<1>4. k = 0 => Carried(h) = d
  BY Zenon DEF Carried, Data, d, k
<1>5. k = 0 /\ d = 0 => Recorded(h) = "header"
  BY <1>2 DEF Recorded, Padding, d, k
<1>6. k = 0 /\ d # 0 => Recorded(h) = "payload"
  BY <1>2 DEF Recorded, Padding, d, k
<1>. QED  BY <1>1, <1>3, <1>4, <1>5, <1>6 DEF Padding, Data, d, k

\* The last byte of a header leaves the reader behind it, at the payload of
\* the record or, when there is none, at the next record.
LEMMA HeaderEnds ==
  ASSUME NEW w, NEW E, NEW s, NEW last \in Nat,
         NEW off \in [Nat -> Nat], NEW hdr \in [Nat -> Nat],
         Layout(w, E, s, last, off, hdr), NEW p \in Nat, NEW n \in Nat, NEW e \in E \ {last},
         n = off[e], NEW h \in Nat, h = hdr[e], p = e + Len(Uvarint[h])
  PROVE  Reading(E, last, off, hdr, p, Recorded(h), 0, 1, h \div 2, n)
<1>. DEFINE d == h \div 2
            z == After(e, h)
<1>1. RecordAt(w, E, last, off, h, e)
  BY Zenon DEF Layout
<1>2. d \in Nat
  BY UvarintLen, Zenon
<1>3. p + d = z
  BY DEF After
<1>4. z \in E /\ off[z] = off[e] + Carried(h) /\ d <= MaxRecord
  BY <1>1, Zenon DEF RecordAt
<1>5. /\ h % 2 = Padding => Carried(h) = 0 /\ Recorded(h) = "skip"
      /\ h % 2 # Padding => /\ h % 2 = Data /\ Carried(h) = d
                            /\ d = 0 => Recorded(h) = "header"
                            /\ d # 0 => Recorded(h) = "payload"
      /\ Padding # Data
  BY <1>4, Kinds, Zenon
<1>. HIDE DEF d, z
<1>6. d <= d
  BY <1>2
<1>7. CASE h % 2 = Padding
  <2>1. off[z] = n
    <3>1. off[z] = n + 0
      BY <1>4, <1>5, <1>7, Zenon
    <3>. QED  BY <3>1, PlusZero, Zenon
  <2>2. PayloadAt(E, off, hdr, Padding, p, d, n, e)
    BY <1>3, <1>5, <1>7, <1>6, <2>1, Zenon DEF PayloadAt, d, z
  <2>3. InRecord(E, last, off, hdr, Padding, p, d, n)
    BY <2>2, Zenon DEF InRecord
  <2>4. Reading(E, last, off, hdr, p, "skip", 0, 1, d, n)
    BY <2>3 DEF Reading
  <2>. QED  BY <1>5, <1>7, <2>4, Zenon DEF d
<1>8. CASE h % 2 # Padding
  <2>1. off[z] = n + d /\ h % 2 = Data
    BY <1>4, <1>5, <1>8, Zenon
  <2>2. CASE d = 0
    <3>1. p = z
      <4>1. p + 0 = z
        BY <1>3, <2>2, Zenon
      <4>. QED  BY <4>1, PlusZero, Zenon
    <3>2. n = off[z]
      <4>1. off[z] = n + 0
        BY <2>1, <2>2, Zenon
      <4>. QED  BY <4>1, PlusZero, Zenon
    <3>3. InHeader(E, last, off, hdr, p, 0, 1, n)
      BY <1>4, <3>1, <3>2, Zenon DEF InHeader
    <3>4. Reading(E, last, off, hdr, p, "header", 0, 1, d, n)
      BY <3>3 DEF Reading
    <3>. QED  BY <1>5, <1>8, <2>2, <3>4, Zenon DEF d
  <2>3. CASE d # 0
    <3>1. PayloadAt(E, off, hdr, Data, p, d, n, e)
      BY <1>3, <1>6, <2>1, Zenon DEF PayloadAt, d, z
    <3>2. InRecord(E, last, off, hdr, Data, p, d, n)
      BY <3>1, Zenon DEF InRecord
    <3>3. Reading(E, last, off, hdr, p, "payload", 0, 1, d, n)
      BY <2>3, <3>2 DEF Reading
    <3>. QED  BY <1>5, <1>8, <2>3, <3>3, Zenon DEF d
  <2>. QED  BY <2>2, <2>3
<1>. QED  BY <1>7, <1>8

\* A layout that agrees on the records before its end leaves the reader where
\* it is.
LEMMA ReadingKeeps ==
  ASSUME NEW E, NEW last, NEW off, NEW hdr, NEW p, NEW st, NEW a, NEW wt, NEW r, NEW n,
         NEW E2, NEW z, NEW off2, NEW hdr2,
         E \subseteq E2, z \notin E,
         \A e \in E : off2[e] = off[e], \A e \in E \ {last} : hdr2[e] = hdr[e],
         \A e \in E \ {last} : After(e, hdr[e]) \in E,
         Reading(E, last, off, hdr, p, st, a, wt, r, n)
  PROVE  Reading(E2, z, off2, hdr2, p, st, a, wt, r, n)
<1>1. ASSUME NEW kind, InRecord(E, last, off, hdr, kind, p, r, n)
      PROVE  InRecord(E2, z, off2, hdr2, kind, p, r, n)
  <2>1. PICK e \in E \ {last} : PayloadAt(E, off, hdr, kind, p, r, n, e)
    BY <1>1, Zenon DEF InRecord
  <2>2. off2[After(e, hdr[e])] = off[After(e, hdr[e])] /\ hdr2[e] = hdr[e]
    BY Zenon
  <2>3. PayloadAt(E2, off2, hdr2, kind, p, r, n, e)
    BY <2>1, <2>2, ZenonT(40) DEF PayloadAt
  <2>. QED  BY <2>3, Zenon DEF InRecord
<1>2. ASSUME InHeader(E, last, off, hdr, p, a, wt, n)
      PROVE  InHeader(E2, z, off2, hdr2, p, a, wt, n)
  <2>1. CASE p \in E /\ n = off[p] /\ a = 0 /\ wt = 1
    BY <2>1, Zenon DEF InHeader
  <2>2. CASE ~(p \in E /\ n = off[p] /\ a = 0 /\ wt = 1)
    <3>1. wt > 1
      BY <1>2, <2>2, Zenon DEF InHeader
    <3>2. PICK e \in E \ {last} : \E j, v \in Nat : HeaderAt(hdr, off, p, a, wt, n, e, j, v)
      BY <1>2, <2>2, Zenon DEF InHeader
    <3>3. PICK j \in Nat, v \in Nat : HeaderAt(hdr, off, p, a, wt, n, e, j, v)
      BY <3>2, Zenon
    <3>4. HeaderAt(hdr2, off2, p, a, wt, n, e, j, v)
      BY <3>3, Zenon DEF HeaderAt
    <3>. QED  BY <3>1, <3>4, Zenon DEF InHeader
  <2>. QED  BY <2>1, <2>2, Zenon
<1>3. p \in E => p \in E2 /\ off2[p] = off[p]
  BY Zenon
<1>. QED  BY <1>1, <1>2, <1>3, Zenon DEF Reading

\* A record appended to the wire changes nothing for the reader.
LEMMA AppendKeepsReading ==
  ASSUME NEW w, NEW E, NEW s \in Nat, NEW last \in Nat, NEW z \in Nat,
         NEW off \in [Nat -> Nat], NEW hdr \in [Nat -> Nat],
         Layout(w, E, s, last, off, hdr),
         NEW h \in Nat, NEW t \in Nat, last < z,
         NEW p, NEW st, NEW a, NEW wt, NEW r, NEW n,
         Reading(E, last, off, hdr, p, st, a, wt, r, n)
  PROVE  Reading(E \cup {z}, z, [off EXCEPT ![z] = t], [hdr EXCEPT ![last] = h],
                 p, st, a, wt, r, n)
<1>. DEFINE off2 == [off EXCEPT ![z] = t]
            hdr2 == [hdr EXCEPT ![last] = h]
<1>1. E \subseteq 0..last
  BY Zenon DEF Layout
<1>2. z \notin E
  BY <1>1
<1>3. \A e \in E : off2[e] = off[e]
  BY <1>1, <1>2
<1>4. \A e \in E \ {last} : hdr2[e] = hdr[e]
  BY <1>1
<1>5. \A e \in E \ {last} : After(e, hdr[e]) \in E
  BY Zenon DEF Layout, RecordAt
<1>. DEFINE E2 == E \cup {z}
<1>6. E \subseteq E2
  BY Zenon
<1>. HIDE DEF off2, hdr2, E2
<1>7. Reading(E2, z, off2, hdr2, p, st, a, wt, r, n)
  BY <1>2, <1>3, <1>4, <1>5, <1>6, ReadingKeeps, SMTT(40)
<1>. QED  BY <1>7 DEF off2, hdr2, E2

-----------------------------------------------------------------------------
(* The invariant *)

\* s is the start of the proxied stream.
InStream(s) == \A i \in 1..Len(s) : s[i] = ByteAt(i - 1)

\* The types that the reader and the wire have.
FrameTypes ==
  /\ sent \in Nat /\ left \in Int /\ wire \in Seq(Bytes)
  /\ pos \in Nat /\ pos <= Len(wire)
  /\ acc \in Nat /\ weight \in Nat \ {0} /\ remaining \in Nat
  /\ out \in Seq(Bytes)

\* A framed response: whole records went out, the last of them with the last
\* byte the server put on the wire, and the reader is where they say.
FramesOK ==
  \E last \in Nat : \E off, hdr \in [Nat -> Nat] :
    /\ Layout(wire, ends, sent, last, off, hdr)
    /\ isOpen => Len(wire) = last
    /\ Reading(ends, last, off, hdr, pos, rpc, acc, weight, remaining, Len(out))

\* A response that is not framed: the wire is the stream.
RawOK ==
  /\ InStream(wire) /\ Len(wire) <= sent
  /\ isOpen => Len(wire) = sent
  /\ Len(out) = pos

\* The bytes of a Write are the next ones of the proxied stream.
LEMMA StreamBytesAre ==
  ASSUME NEW from \in Nat, NEW n \in Nat
  PROVE  /\ StreamBytes(from, n) \in Seq(Bytes) /\ Len(StreamBytes(from, n)) = n
         /\ \A i \in 1..n : StreamBytes(from, n)[i] = ByteAt(from + i - 1)
<1>1. \A i \in 1..n : from + i - 1 \in Nat
  OBVIOUS
<1>2. \A k \in Nat : ByteAt(k) \in Bytes
  <2>1. ASSUME NEW b \in Nat \ {0}, NEW k \in Nat
        PROVE  k % b \in 0..b-1
    OBVIOUS
  <2>2. 2 * Base \in Nat \ {0}
    BY FrameAssumption
  <2>. QED  BY <2>1, <2>2, Zenon DEF ByteAt, Bytes
<1>3. StreamBytes(from, n) = [i \in 1..n |-> ByteAt(from + i - 1)]
  BY DEF StreamBytes, ByteAt
<1>4. \A i \in 1..n : ByteAt(from + i - 1) \in Bytes
  BY <1>1, <1>2, Zenon
<1>. QED  BY <1>3, <1>4

\* The bytes of a padding record.
LEMMA PaddingBytesAre ==
  ASSUME NEW n \in Nat
  PROVE  /\ [i \in 1..n |-> Base + 1] \in Seq(Bytes)
         /\ Len([i \in 1..n |-> Base + 1]) = n
<1>1. Base + 1 \in Bytes
  BY FrameAssumption DEF Bytes
<1>. QED  BY <1>1

\* A record goes out behind the others, on an open response.
LEMMA RecordGoesOut ==
  ASSUME NEW h \in Nat, NEW b, RecordOf(h, b, sent), FrameTypes, FramesOK, isOpen,
         WriteOut(Uvarint[h] \o b), sent' = sent + Carried(h), UNCHANGED readerVars
  PROVE  FramesOK'
<1>1. PICK last \in Nat : \E off, hdr \in [Nat -> Nat] :
        /\ Layout(wire, ends, sent, last, off, hdr)
        /\ isOpen => Len(wire) = last
        /\ Reading(ends, last, off, hdr, pos, rpc, acc, weight, remaining, Len(out))
  BY Zenon DEF FramesOK
<1>2. PICK off \in [Nat -> Nat], hdr \in [Nat -> Nat] :
        /\ Layout(wire, ends, sent, last, off, hdr)
        /\ isOpen => Len(wire) = last
        /\ Reading(ends, last, off, hdr, pos, rpc, acc, weight, remaining, Len(out))
  BY <1>1, Zenon
<1>. DEFINE z == Len(wire')
            off2 == [off EXCEPT ![z] = sent']
            hdr2 == [hdr EXCEPT ![last] = h]
<1>3. wire' = wire \o (Uvarint[h] \o b) /\ ends' = ends \cup {z}
  BY Zenon DEF WriteOut
<1>4. Appended(wire, last, h, b, wire', z)
  BY <1>2, <1>3, Zenon DEF Appended, FrameTypes
<1>. HIDE DEF z
<1>5. OneMore(wire, last, h, b, wire', z)
  BY <1>4, AppendedBytes, Zenon
<1>6. z \in Nat /\ last < z
  BY <1>5, Zenon DEF OneMore
<1>7. sent \in Nat /\ sent' \in Nat
  <2>1. sent \in Nat /\ Carried(h) \in Nat
    BY CarriedType, Zenon DEF FrameTypes
  <2>. QED  BY <2>1
<1>8. Layout(wire', ends \cup {z}, sent', z, off2, hdr2)
  BY <1>2, <1>4, <1>6, <1>7, AppendKeepsLayout, Zenon
<1>9. Reading(ends \cup {z}, z, off2, hdr2, pos, rpc, acc, weight, remaining, Len(out))
  BY <1>2, <1>6, <1>7, AppendKeepsReading, Zenon
<1>10. off2 \in [Nat -> Nat] /\ hdr2 \in [Nat -> Nat]
  BY <1>6, <1>7
<1>11. Reading(ends', z, off2, hdr2, pos', rpc', acc', weight', remaining', Len(out'))
  BY <1>3, <1>9, Zenon DEF readerVars
<1>12. Len(wire') = z
  BY Zenon DEF z
<1>. HIDE DEF off2, hdr2
<1>. QED  BY <1>3, <1>6, <1>8, <1>10, <1>11, <1>12, Zenon DEF FramesOK

\* The invariant of the stream.  A client strips only what is framed; if the
\* two sides agree, what is delivered is a prefix of the stream, because of
\* where the reader is on the wire.
StreamInv ==
  /\ FrameTypes
  /\ strips => framed /\ FramesOK
  /\ ~framed => RawOK
  /\ strips \/ ~framed => InStream(out) /\ Len(out) <= sent
  /\ rpc \in {"header", "skip", "payload"} => strips

\* A step that leaves the wire and the reader alone: a timer, a Close, a
\* Write that takes mu.
LEMMA QuietStep ==
  ASSUME StreamInv, UNCHANGED <<framed, strips, sent, wire, ends, readerVars>>,
         left' \in Int, isOpen' => isOpen
  PROVE  StreamInv'
<1>1. FrameTypes'
  BY Zenon DEF StreamInv, FrameTypes, readerVars
<1>2. ASSUME FramesOK
      PROVE  FramesOK'
  BY <1>2, Zenon DEF FramesOK, readerVars
<1>3. ASSUME RawOK
      PROVE  RawOK'
  BY <1>3, Zenon DEF RawOK, InStream, readerVars
<1>4. ASSUME InStream(out), Len(out) <= sent
      PROVE  InStream(out)' /\ Len(out') <= sent'
  BY <1>4, Zenon DEF InStream, readerVars
<1>. QED  BY <1>1, <1>2, <1>3, <1>4, Zenon DEF StreamInv, readerVars

\* Bytes at the end of the wire leave the reader's position on it.
LEMMA WireGrows ==
  ASSUME NEW w \in Seq(Bytes), NEW y \in Seq(Bytes), NEW p \in Nat, p <= Len(w)
  PROVE  w \o y \in Seq(Bytes) /\ p <= Len(w \o y)
<1>1. w \o y \in Seq(Bytes) /\ Len(w \o y) = Len(w) + Len(y)
  BY Joined, Zenon
<1>2. Len(w) \in Nat /\ Len(y) \in Nat
  OBVIOUS
<1>. QED  BY <1>1, <1>2

\* A longer stream covers what a shorter one covers.
LEMMA SentGrows ==
  ASSUME NEW n \in Nat, NEW s \in Nat, NEW k \in Nat
  PROVE  s + k \in Nat /\ (n <= s => n <= s + k)
OBVIOUS

\* A record goes out: data from Write or padding from the keepalive
\* goroutine.
LEMMA RecordStep ==
  ASSUME NEW h \in Nat, NEW b, RecordOf(h, b, sent), StreamInv, framed, isOpen,
         WriteOut(Uvarint[h] \o b), sent' = sent + Carried(h), left' \in Int,
         UNCHANGED <<framed, strips, readerVars>>
  PROVE  StreamInv'
<1>. DEFINE y == Uvarint[h] \o b
<1>1. /\ sent \in Nat /\ wire \in Seq(Bytes) /\ pos \in Nat /\ pos <= Len(wire)
      /\ out \in Seq(Bytes) /\ FrameTypes
  BY Zenon DEF StreamInv, FrameTypes
<1>2. Carried(h) \in Nat /\ Len(out) \in Nat
  BY <1>1, CarriedType
<1>3. y \in Seq(Bytes)
  BY Joined, UvarintLen, Zenon DEF RecordOf
<1>4. wire' = wire \o y
  BY Zenon DEF WriteOut
<1>. HIDE DEF y
<1>5. wire' \in Seq(Bytes) /\ pos <= Len(wire')
  BY <1>1, <1>3, <1>4, WireGrows, Zenon
<1>6. sent' \in Nat /\ (Len(out) <= sent => Len(out) <= sent')
  BY <1>1, <1>2, SentGrows, Zenon
<1>7. FrameTypes'
  BY <1>1, <1>5, <1>6, Zenon DEF FrameTypes, readerVars
<1>8. strips => FramesOK'
  BY <1>1, RecordGoesOut, Zenon DEF StreamInv
<1>9. InStream(out)' <=> InStream(out)
  BY Zenon DEF InStream, readerVars
<1>10. out' = out /\ rpc' = rpc
  BY Zenon DEF readerVars
<1>. QED  BY <1>6, <1>7, <1>8, <1>9, <1>10, Zenon DEF StreamInv

\* A Write on a response that is not framed continues the stream on the wire.
LEMMA StreamGrows ==
  ASSUME NEW w \in Seq(Bytes), NEW s \in Nat, NEW n \in Nat, InStream(w), Len(w) = s
  PROVE  InStream(w \o StreamBytes(s, n)) /\ Len(w \o StreamBytes(s, n)) = s + n
<1>. DEFINE y == StreamBytes(s, n)
            x == w \o y
<1>1. y \in Seq(Bytes) /\ Len(y) = n /\ \A i \in 1..n : y[i] = ByteAt(s + i - 1)
  BY StreamBytesAre, Zenon
<1>. HIDE DEF y
<1>2. /\ Len(x) = s + n
      /\ \A i \in 1..s : x[i] = w[i]
      /\ \A i \in 1..n : x[s + i] = y[i]
  <2>1. /\ Len(w \o y) = Len(w) + Len(y)
        /\ \A i \in 1..Len(w) : (w \o y)[i] = w[i]
        /\ \A i \in 1..Len(y) : (w \o y)[Len(w) + i] = y[i]
    BY <1>1, Joined, Zenon
  <2>2. Len(w) = s /\ Len(y) = n
    BY <1>1, Zenon
  <2>. QED  BY <2>1, <2>2
<1>. HIDE DEF x
<1>3. ASSUME NEW i \in 1..(s + n)
      PROVE  x[i] = ByteAt(i - 1)
  <2>1. CASE i \in 1..s
    BY <1>2, <2>1, Zenon DEF InStream
  <2>2. CASE i \notin 1..s
    <3>1. i - s \in 1..n /\ s + (i - s) = i /\ s + (i - s) - 1 = i - 1
      BY <2>2
    <3>2. x[s + (i - s)] = ByteAt(s + (i - s) - 1)
      BY <1>1, <1>2, <3>1, Zenon
    <3>. QED  BY <3>1, <3>2, Zenon
  <2>. QED  BY <2>1, <2>2, Zenon
<1>4. InStream(x)
  BY <1>2, <1>3, Zenon DEF InStream
<1>. QED  BY <1>2, <1>4, Zenon DEF x, y

\* The step of such a Write.
LEMMA RawStep ==
  ASSUME NEW n \in Nat, StreamInv, ~framed, isOpen, WriteOut(StreamBytes(sent, n)),
         sent' = sent + n, left' \in Int, UNCHANGED <<framed, strips, readerVars>>
  PROVE  StreamInv'
<1>1. /\ sent \in Nat /\ wire \in Seq(Bytes) /\ pos \in Nat /\ pos <= Len(wire)
      /\ out \in Seq(Bytes) /\ FrameTypes /\ RawOK /\ InStream(out) /\ Len(out) <= sent
  BY Zenon DEF StreamInv, FrameTypes
<1>2. StreamBytes(sent, n) \in Seq(Bytes)
  BY <1>1, StreamBytesAre, Zenon
<1>3. wire' = wire \o StreamBytes(sent, n) /\ isOpen' = isOpen
  BY Zenon DEF WriteOut
<1>4. wire' \in Seq(Bytes) /\ pos <= Len(wire')
  BY <1>1, <1>2, <1>3, WireGrows, Zenon
<1>5. sent' \in Nat /\ Len(out) <= sent' /\ sent' <= sent'
  <2>1. Len(out) \in Nat
    BY <1>1
  <2>2. sent' \in Nat /\ Len(out) <= sent'
    BY <1>1, <2>1, SentGrows, Zenon
  <2>. QED  BY <2>2
<1>6. FrameTypes'
  BY <1>1, <1>4, <1>5, Zenon DEF FrameTypes, readerVars
<1>7. InStream(wire') /\ Len(wire') = sent'
  <2>1. InStream(wire) /\ Len(wire) = sent
    BY <1>1, Zenon DEF RawOK
  <2>2. /\ InStream(wire \o StreamBytes(sent, n))
        /\ Len(wire \o StreamBytes(sent, n)) = sent + n
    BY <1>1, <2>1, StreamGrows, Zenon
  <2>. QED  BY <1>3, <2>2, Zenon
<1>8. RawOK'
  BY <1>1, <1>5, <1>7, Zenon DEF RawOK, InStream, readerVars
<1>9. out' = out /\ InStream(out)' /\ rpc' = rpc
  BY <1>1, Zenon DEF InStream, readerVars
<1>. QED  BY <1>5, <1>6, <1>8, <1>9, Zenon DEF StreamInv

\* The response is cut at any byte, inside a header or a payload too.
LEMMA CutStep ==
  ASSUME StreamInv, Cut
  PROVE  StreamInv'
<1>1. PICK k \in pos .. Len(wire) : wire' = SubSeq(wire, 1, k)
  BY Zenon DEF Cut
<1>2. /\ sent \in Nat /\ wire \in Seq(Bytes) /\ pos \in Nat /\ pos <= Len(wire) /\ FrameTypes
  BY Zenon DEF StreamInv, FrameTypes
<1>3. k \in Nat /\ k \in 0..Len(wire) /\ pos <= k /\ Len(wire) \in Nat /\ k <= Len(wire)
  BY <1>2
<1>4. /\ wire' \in Seq(Bytes) /\ Len(wire') = k
      /\ \A i \in 1..k : wire'[i] = wire[i]
  BY <1>1, <1>2, <1>3, CutBytes, Zenon
<1>5. FrameTypes'
  BY <1>2, <1>3, <1>4, Zenon DEF FrameTypes, readerVars, Cut
<1>6. ASSUME FramesOK
      PROVE  FramesOK'
  <2>1. PICK last \in Nat, off \in [Nat -> Nat], hdr \in [Nat -> Nat] :
          /\ Layout(wire, ends, sent, last, off, hdr)
          /\ Reading(ends, last, off, hdr, pos, rpc, acc, weight, remaining, Len(out))
    BY <1>6, Zenon DEF FramesOK
  <2>2. Layout(wire', ends, sent, last, off, hdr)
    BY <1>1, <1>2, <1>3, <2>1, CutKeepsLayout, Zenon
  <2>3. ~isOpen' /\ UNCHANGED <<ends, sent, readerVars>>
    BY Zenon DEF Cut
  <2>. QED  BY <2>1, <2>2, <2>3, Zenon DEF FramesOK, readerVars
<1>7. ASSUME RawOK
      PROVE  RawOK'
  <2>1. InStream(wire) /\ Len(wire) <= sent
    BY <1>7, Zenon DEF RawOK
  <2>2. InStream(wire')
    <3>1. \A i \in 1..k : i \in 1..Len(wire)
      BY <1>3
    <3>. QED  BY <1>4, <2>1, <3>1, Zenon DEF InStream
  <2>3. Len(wire') <= sent
    BY <1>2, <1>3, <1>4, <2>1
  <2>. QED  BY <1>7, <2>2, <2>3, Zenon DEF RawOK, InStream, Cut, readerVars
<1>8. UNCHANGED <<framed, strips, out, sent, rpc>> /\ InStream(out)' = InStream(out)
  BY Zenon DEF Cut, readerVars, InStream
<1>. QED  BY <1>5, <1>6, <1>7, <1>8, Zenon DEF StreamInv

\* The reader takes k bytes of a payload; data is delivered, padding is
\* dropped.
LEMMA PayloadMoves ==
  ASSUME NEW E, NEW last, NEW off, NEW hdr, NEW kind, NEW p \in Nat, NEW r \in Nat, NEW n \in Nat,
         NEW k \in Nat, k <= r, hdr \in [Nat -> Nat], E \subseteq Nat,
         InRecord(E, last, off, hdr, kind, p, r, n)
  PROVE  InRecord(E, last, off, hdr, kind, p + k, r - k, IF kind = Data THEN n + k ELSE n)
<1>1. PICK e \in E \ {last} : PayloadAt(E, off, hdr, kind, p, r, n, e)
  BY Zenon DEF InRecord
<1>. DEFINE h == hdr[e]
            d == h \div 2
            z == After(e, h)
<1>2. d \in Nat
  <2>1. h \in Nat
    OBVIOUS
  <2>. QED  BY <2>1, UvarintLen, Zenon
<1>3. /\ h % 2 = kind /\ r <= d /\ p + r = z
      /\ IF kind = Data THEN n + r = off[z] ELSE n = off[z]
  BY <1>1, Zenon DEF PayloadAt
<1>. HIDE DEF d, h, z
<1>4. r - k <= d
  BY <1>2, <1>3
<1>5. (p + k) + (r - k) = p + r
  OBVIOUS
<1>6. (n + k) + (r - k) = n + r
  OBVIOUS
<1>7. PayloadAt(E, off, hdr, kind, p + k, r - k, IF kind = Data THEN n + k ELSE n, e)
  BY <1>3, <1>4, <1>5, <1>6, Zenon DEF PayloadAt, d, h, z
<1>. QED  BY <1>7, Zenon DEF InRecord

\* At the end of a record, with what the records up to it carry delivered.
AtRecord(E, off, p, n) == p \in E /\ n = off[p]

\* Behind a payload is the next record.
LEMMA PayloadDone ==
  ASSUME NEW w, NEW E, NEW s, NEW last \in Nat, NEW off, NEW hdr,
         Layout(w, E, s, last, off, hdr), NEW kind, NEW p \in Nat, NEW n \in Nat,
         InRecord(E, last, off, hdr, kind, p, 0, n)
  PROVE  AtRecord(E, off, p, n)
<1>1. PICK e \in E \ {last} : PayloadAt(E, off, hdr, kind, p, 0, n, e)
  BY Zenon DEF InRecord
<1>2. After(e, hdr[e]) \in E
  BY Zenon DEF Layout, RecordAt
<1>3. p + 0 = p /\ n + 0 = n
  OBVIOUS
<1>. QED  BY <1>1, <1>2, <1>3, Zenon DEF PayloadAt, AtRecord

\* The next r bytes behind p are bytes of the proxied stream from its byte n.
PayloadIs(w, s, p, r, n) ==
  /\ n + r <= s
  /\ \A i \in 1..r : p + i <= Len(w) => w[p + i] = ByteAt(n + i - 1)

\* The payload of a data record holds the bytes of the stream that come next.
LEMMA PayloadBytes ==
  ASSUME NEW w, NEW E, NEW s \in Nat, NEW last \in Nat,
         NEW off \in [Nat -> Nat], NEW hdr \in [Nat -> Nat],
         Layout(w, E, s, last, off, hdr), NEW p \in Nat, NEW r \in Nat, NEW n \in Nat,
         InRecord(E, last, off, hdr, Data, p, r, n)
  PROVE  PayloadIs(w, s, p, r, n)
<1>1. PICK e \in E \ {last} : PayloadAt(E, off, hdr, Data, p, r, n, e)
  BY Zenon DEF InRecord
<1>. DEFINE h == hdr[e]
            m == Len(Uvarint[h])
            d == h \div 2
            z == After(e, h)
            o == off[e]
<1>2. E \subseteq 0..last
  BY Zenon DEF Layout
<1>3. e \in Nat
  BY <1>2
<1>4. h \in Nat /\ o \in Nat
  BY <1>3
<1>5. m \in Nat /\ d \in Nat
  <2>1. m \in Nat \ {0} /\ d \in Nat
    BY <1>4, UvarintLen, Zenon
  <2>. HIDE DEF m, d
  <2>. QED  BY <2>1
<1>6. h % 2 = Data /\ r <= d /\ p + r = z /\ n + r = off[z]
  BY <1>1, Zenon DEF PayloadAt
<1>7. RecordAt(w, E, last, off, h, e)
  BY Zenon DEF Layout
<1>8. z \in E /\ off[z] = o + d
  BY <1>6, <1>7, Zenon DEF RecordAt, Carried
<1>9. z = e + m + d
  BY DEF After
<1>. HIDE DEF h, m, d, z, o
<1>10. n + r <= s
  BY <1>6, <1>8, Zenon DEF Layout
<1>11. ASSUME NEW i \in 1..r, p + i <= Len(w)
       PROVE  w[p + i] = ByteAt(n + i - 1)
  <2>. DEFINE c == (d - r) + i
  <2>1. c \in 1..d
    BY <1>5, <1>6
  <2>2. p + i = e + m + c
    BY <1>3, <1>5, <1>6, <1>9
  <2>3. n + i - 1 = o + c - 1
    <3>1. n + r = o + d
      BY <1>6, <1>8, Zenon
    <3>. QED  BY <1>4, <1>5, <3>1
  <2>. HIDE DEF c
  <2>4. e + m + c <= Len(w)
    BY <1>11, <2>2, Zenon
  <2>5. w[e + m + c] = ByteAt(o + c - 1)
    BY <1>6, <1>7, <2>1, <2>4, Zenon DEF RecordAt, m, d, o
  <2>. QED  BY <2>2, <2>3, <2>5, Zenon
<1>. QED  BY <1>10, <1>11, Zenon DEF PayloadIs

\* Read returns k bytes of the body: if they are the next ones of the stream,
\* the application has a longer prefix of it.
LEMMA DeliveredBytes ==
  ASSUME NEW o \in Seq(Bytes), NEW w \in Seq(Bytes), NEW p \in Nat, NEW k \in Nat, p + k <= Len(w)
  PROVE  LET x == o \o SubSeq(w, p + 1, p + k)
         IN  /\ x \in Seq(Bytes) /\ Len(x) = Len(o) + k
             /\ InStream(o) /\ (\A i \in 1..k : w[p + i] = ByteAt(Len(o) + i - 1))
                  => InStream(x)
<1>. DEFINE y == SubSeq(w, p + 1, p + k)
            x == o \o y
            m == Len(o)
<1>1. y \in Seq(Bytes) /\ Len(y) = k /\ \A i \in 1..k : y[i] = w[p + i]
  BY Piece, Zenon
<1>2. m \in Nat
  OBVIOUS
<1>. HIDE DEF y
<1>3. /\ x \in Seq(Bytes) /\ Len(x) = m + Len(y)
      /\ \A i \in 1..m : x[i] = o[i]
      /\ \A i \in 1..Len(y) : x[m + i] = y[i]
  BY <1>1, Joined, Zenon
<1>. HIDE DEF x, m
<1>4. ASSUME InStream(o), \A i \in 1..k : w[p + i] = ByteAt(m + i - 1)
      PROVE  InStream(x)
  <2>1. ASSUME NEW i \in 1..(m + k)
        PROVE  x[i] = ByteAt(i - 1)
    <3>1. CASE i \in 1..m
      BY <1>3, <1>4, <3>1, Zenon DEF InStream, m
    <3>2. CASE i \notin 1..m
      <4>1. i - m \in 1..k /\ m + (i - m) = i /\ m + (i - m) - 1 = i - 1
        BY <1>2, <3>2
      <4>2. x[m + (i - m)] = ByteAt(m + (i - m) - 1)
        BY <1>1, <1>3, <1>4, <4>1, Zenon
      <4>. QED  BY <4>1, <4>2, Zenon
    <3>. QED  BY <3>1, <3>2, Zenon
  <2>2. Len(x) = m + k
    BY <1>1, <1>3, Zenon
  <2>. QED  BY <2>1, <2>2, Zenon DEF InStream
<1>5. Len(x) = m + k
  BY <1>1, <1>3, Zenon
<1>. QED  BY <1>3, <1>4, <1>5, Zenon DEF x, y, m

\* What ReadUvarint makes of a byte without and of one with the continuation
\* bit.
LEMMA ByteValues ==
  ASSUME NEW v \in Nat, NEW a \in Nat, NEW wt \in Nat \ {0}
  PROVE  /\ v < Base => a + v * wt = a + wt * v
         /\ ~(v < Base) => ~(Base + (v % Base) < Base) /\ (Base + (v % Base)) - Base = v % Base
         /\ v % Base \in Nat /\ a + (v % Base) * wt \in Nat /\ wt * Base \in Nat \ {0}
<1>1. Base \in Nat \ {0, 1}
  BY FrameAssumption
<1>2. v % Base \in 0..Base-1
  BY <1>1, DivMod, Zenon
<1>. DEFINE m == v % Base
<1>3. m \in Nat
  BY <1>1, <1>2
<1>. HIDE DEF m
<1>4. ~(Base + m < Base) /\ (Base + m) - Base = m
  BY <1>1, <1>3
<1>5. \A x, y \in Nat : x * y \in Nat /\ x * y = y * x
  OBVIOUS
<1>6. m * wt \in Nat
  BY <1>3, <1>5
<1>7. a + m * wt \in Nat
  BY <1>6
<1>8. \A x, y \in Nat \ {0} : x * y \in Nat \ {0}
  OBVIOUS
<1>9. wt * Base \in Nat \ {0}
  BY <1>1, <1>8
<1>10. v * wt = wt * v
  BY <1>5
<1>. QED  BY <1>3, <1>4, <1>7, <1>9, <1>10, Zenon DEF m

\* ReadUvarint takes a byte: the last one of a header leaves the reader at
\* the record's payload, with the length and kind that the server wrote;
\* another one leaves it inside the header.
LEMMA ByteRead ==
  ASSUME NEW w, NEW E, NEW s \in Nat, NEW last \in Nat,
         NEW off \in [Nat -> Nat], NEW hdr \in [Nat -> Nat],
         Layout(w, E, s, last, off, hdr), NEW p \in Nat, p < Len(w), p + 1 <= Len(w), Len(w) \in Nat,
         NEW a \in Nat, NEW wt \in Nat \ {0}, NEW n \in Nat,
         InHeader(E, last, off, hdr, p, a, wt, n)
  PROVE  LET b == w[p + 1]
         IN  /\ b < Base =>
                  /\ a + b * wt \in Nat
                  /\ Reading(E, last, off, hdr, p + 1, Recorded(a + b * wt), 0, 1,
                             (a + b * wt) \div 2, n)
             /\ ~(b < Base) =>
                  /\ a + (b - Base) * wt \in Nat /\ wt * Base \in Nat \ {0}
                  /\ InHeader(E, last, off, hdr, p + 1, a + (b - Base) * wt, wt * Base, n)
<1>1. PICK e \in E \ {last} : \E j, v \in Nat : HeaderAt(hdr, off, p, a, wt, n, e, j, v)
  <2>1. OnRecord(E, last, off, hdr, p, a, wt, n)
    BY HeaderHasRecord, Zenon
  <2>. QED  BY <2>1, Zenon DEF OnRecord
<1>2. PICK j \in Nat, v \in Nat : HeaderAt(hdr, off, p, a, wt, n, e, j, v)
  BY <1>1, Zenon
<1>. DEFINE b == w[p + 1]
            h == hdr[e]
<1>3. b = Uvarint[h][j + 1] /\ e \in Nat /\ h \in Nat /\ p + 1 = e + (j + 1)
  <2>1. ByteOfHeader(w, hdr, p, e, j)
    BY <1>2, HeaderByte, Zenon
  <2>. QED  BY <2>1, Zenon DEF ByteOfHeader
<1>4. n = off[e] /\ UvarintTail(h, j, v) /\ a + wt * v = h
  BY <1>2, Zenon DEF HeaderAt
<1>5. UvarintNext(h, j, v)
  BY <1>3, <1>4, UvarintTailByte, Zenon
<1>. HIDE DEF b
<1>6. p + 1 \in Nat
  OBVIOUS
<1>7. CASE v < Base
  <2>1. b = v /\ j + 1 = Len(Uvarint[h])
    BY <1>3, <1>7, <1>5, Zenon DEF UvarintNext
  <2>2. a + b * wt = h
    <3>1. a + v * wt = a + wt * v
      BY <1>7, ByteValues, ZenonT(40)
    <3>. QED  BY <1>4, <2>1, <3>1, Zenon
  <2>3. Reading(E, last, off, hdr, p + 1, Recorded(h), 0, 1, h \div 2, n)
    BY <1>3, <1>4, <1>6, <2>1, HeaderEnds, Zenon
  <2>. QED  BY <1>3, <1>7, <2>1, <2>2, <2>3, Zenon DEF b
<1>8. CASE ~(v < Base)
  <2>1. b = Base + (v % Base)
    BY <1>3, <1>8, <1>5, Zenon DEF UvarintNext
  <2>2. ~(b < Base) /\ b - Base = v % Base
    BY <1>8, <2>1, ByteValues, Zenon
  <2>3. InHeader(E, last, off, hdr, p + 1, a + (v % Base) * wt, wt * Base, n)
    BY <1>2, <1>3, <1>8, HeaderGoesOn, Zenon
  <2>4. a + (v % Base) * wt \in Nat /\ wt * Base \in Nat \ {0}
    BY ByteValues, Zenon
  <2>. QED  BY <2>2, <2>3, <2>4, Zenon DEF b
<1>. QED  BY <1>7, <1>8, Zenon

\* The reader's place before and after a step, on one layout of the wire.
ReaderMoves ==
  \A last \in Nat : \A off, hdr \in [Nat -> Nat] :
    /\ Layout(wire, ends, sent, last, off, hdr)
    /\ Reading(ends, last, off, hdr, pos, rpc, acc, weight, remaining, Len(out))
    => Reading(ends, last, off, hdr, pos', rpc', acc', weight', remaining', Len(out'))

\* A step of a client that strips records, from what it does to the reader.
LEMMA StrippingStep ==
  ASSUME StreamInv, strips, UNCHANGED <<framed, strips, serverVars>>,
         FrameTypes', ReaderMoves, InStream(out'), Len(out') <= sent
  PROVE  StreamInv'
<1>1. FramesOK'
  <2>1. PICK last \in Nat, off \in [Nat -> Nat], hdr \in [Nat -> Nat] :
          /\ Layout(wire, ends, sent, last, off, hdr)
          /\ isOpen => Len(wire) = last
          /\ Reading(ends, last, off, hdr, pos, rpc, acc, weight, remaining, Len(out))
    BY Zenon DEF StreamInv, FramesOK
  <2>2. Reading(ends, last, off, hdr, pos', rpc', acc', weight', remaining', Len(out'))
    BY <2>1, Zenon DEF ReaderMoves
  <2>3. wire' = wire /\ ends' = ends /\ sent' = sent /\ isOpen' = isOpen
    BY Zenon DEF serverVars
  <2>4. Layout(wire', ends', sent', last, off, hdr) /\ (isOpen' => Len(wire') = last)
    BY <2>1, <2>3, Zenon
  <2>5. Reading(ends', last, off, hdr, pos', rpc', acc', weight', remaining', Len(out'))
    BY <2>2, <2>3, Zenon
  <2>. QED  BY <2>4, <2>5, Zenon DEF FramesOK
<1>2. InStream(out)'
  BY Zenon DEF InStream
<1>3. framed' /\ strips' /\ sent' = sent
  BY Zenon DEF StreamInv, serverVars
<1>. QED  BY <1>1, <1>2, <1>3, Zenon DEF StreamInv

\* A call of Read; a raw body is handed on as it comes.
LEMMA ReadKeeps ==
  ASSUME StreamInv, Read
  PROVE  StreamInv'
<1>1. FrameTypes /\ UNCHANGED <<framed, strips, serverVars>> /\ rpc = "idle"
  BY Zenon DEF StreamInv, Read
<1>2. wire' = wire /\ sent' = sent /\ left' = left /\ isOpen' = isOpen /\ ends' = ends
  BY <1>1, Zenon DEF serverVars
<1>3. CASE strips
  <2>1. /\ rpc' = IF remaining = 0 THEN "header" ELSE "payload"
        /\ acc' = 0 /\ weight' = 1 /\ UNCHANGED <<pos, remaining, out>>
    BY <1>3, Zenon DEF Read
  <2>2. FrameTypes'
    BY <1>1, <1>2, <2>1 DEF FrameTypes
  <2>3. ReaderMoves
    <3>. SUFFICES ASSUME NEW last \in Nat, NEW off \in [Nat -> Nat], NEW hdr \in [Nat -> Nat],
                         Layout(wire, ends, sent, last, off, hdr),
                         Reading(ends, last, off, hdr, pos, rpc, acc, weight, remaining, Len(out))
                  PROVE  Reading(ends, last, off, hdr, pos', rpc', acc', weight', remaining', Len(out'))
      BY Zenon DEF ReaderMoves
    <3>1. CASE remaining = 0
      <4>1. pos \in ends /\ Len(out) = off[pos]
        BY <1>1, <3>1, Zenon DEF Reading
      <4>2. InHeader(ends, last, off, hdr, pos, 0, 1, Len(out))
        BY <4>1, Zenon DEF InHeader
      <4>3. Reading(ends, last, off, hdr, pos, "header", 0, 1, remaining, Len(out))
        BY <4>2 DEF Reading
      <4>. QED  BY <2>1, <3>1, <4>3, Zenon
    <3>2. CASE remaining # 0
      <4>1. InRecord(ends, last, off, hdr, Data, pos, remaining, Len(out))
        BY <1>1, <3>2, Zenon DEF Reading
      <4>2. Reading(ends, last, off, hdr, pos, "payload", 0, 1, remaining, Len(out))
        BY <3>2, <4>1 DEF Reading
      <4>. QED  BY <2>1, <3>2, <4>2, Zenon
    <3>. QED  BY <3>1, <3>2
  <2>. QED  BY <1>1, <1>3, <2>1, <2>2, <2>3, StrippingStep, Zenon DEF StreamInv
<1>4. CASE ~strips
  <2>1. CASE AtEnd /\ Fail("eof")
    <3>1. rpc' = "eof" /\ UNCHANGED <<pos, acc, weight, remaining, out>>
      BY <2>1, Zenon DEF Fail
    <3>2. FrameTypes'
      BY <1>1, <1>2, <3>1, Zenon DEF FrameTypes
    <3>3. ~framed => RawOK'
      BY <1>2, <3>1, Zenon DEF StreamInv, RawOK, InStream
    <3>4. rpc' \notin {"header", "skip", "payload"}
      BY <3>1
    <3>5. InStream(out)' <=> InStream(out)
      BY <3>1, Zenon DEF InStream
    <3>. QED  BY <1>1, <1>4, <1>2, <3>1, <3>2, <3>3, <3>4, <3>5, Zenon DEF StreamInv
  <2>2. CASE /\ \E size \in BufLens : \E n \in 1 .. Min({size, Available}) : Deliver(n)
             /\ UNCHANGED <<acc, weight, remaining>>
    <3>1. PICK size \in BufLens : \E n \in 1 .. Min({size, Available}) : Deliver(n)
      BY <2>2, Zenon
    <3>2. PICK n \in 1 .. Min({size, Available}) : Deliver(n)
      BY <3>1, Zenon
    <3>3. /\ wire \in Seq(Bytes) /\ out \in Seq(Bytes) /\ pos \in Nat /\ pos <= Len(wire)
          /\ sent \in Nat
      BY <1>1, Zenon DEF FrameTypes
    <3>4. Len(wire) \in Nat /\ Len(out) \in Nat
      BY <3>3
    <3>5. n \in Nat /\ n <= Available
      <4>1. size \in Int /\ Available \in Int
        BY <3>3, <3>4, FrameAssumption DEF Available
      <4>2. Min({size, Available}) \in {size, Available} /\ Min({size, Available}) <= Available
        BY <4>1, MinOfTwo, Zenon
      <4>. QED  BY <4>1, <4>2
    <3>6. pos + n <= Len(wire) /\ pos + n \in Nat
      BY <3>3, <3>4, <3>5 DEF Available
    <3>7. out' = out \o SubSeq(wire, pos + 1, pos + n) /\ pos' = pos + n /\ rpc' = "idle"
      BY <3>2, Zenon DEF Deliver
    <3>8. /\ out' \in Seq(Bytes) /\ Len(out') = Len(out) + n
          /\ InStream(out) /\ (\A i \in 1..n : wire[pos + i] = ByteAt(Len(out) + i - 1))
               => InStream(out')
      BY <3>3, <3>5, <3>6, <3>7, DeliveredBytes, Zenon
    <3>9. FrameTypes'
      BY <1>1, <1>2, <2>2, <3>6, <3>7, <3>8, Zenon DEF FrameTypes
    <3>10. ~framed => RawOK' /\ InStream(out') /\ Len(out') <= sent
      <4>. SUFFICES ASSUME ~framed PROVE RawOK' /\ InStream(out') /\ Len(out') <= sent
        OBVIOUS
      <4>1. RawOK /\ InStream(out)
        BY Zenon DEF StreamInv
      <4>2. InStream(wire) /\ Len(wire) <= sent /\ Len(out) = pos
        BY <4>1, Zenon DEF RawOK
      <4>3. ASSUME NEW i \in 1..n
            PROVE  wire[pos + i] = ByteAt(Len(out) + i - 1)
        <5>1. pos + i \in 1..Len(wire)
          BY <3>3, <3>4, <3>5, <3>6
        <5>2. wire[pos + i] = ByteAt((pos + i) - 1)
          BY <4>2, <5>1, Zenon DEF InStream
        <5>3. \A p, k \in Nat : (p + k) - 1 = p + k - 1
          OBVIOUS
        <5>4. i \in Nat
          BY <3>5
        <5>. QED  BY <3>3, <4>2, <5>2, <5>3, <5>4, Zenon
      <4>4. InStream(out')
        BY <3>8, <4>1, <4>3, Zenon
      <4>5. Len(out') = pos + n
        BY <3>8, <4>2, Zenon
      <4>6. pos + n <= sent
        BY <3>3, <3>4, <3>6, <4>2
      <4>7. RawOK'
        BY <1>2, <3>7, <4>1, <4>5, Zenon DEF RawOK, InStream
      <4>. QED  BY <4>4, <4>5, <4>6, <4>7, Zenon
    <3>11. InStream(out)' <=> InStream(out')
      BY Zenon DEF InStream
    <3>12. rpc' \notin {"header", "skip", "payload"}
      BY <3>7
    <3>. QED  BY <1>1, <1>4, <1>2, <3>9, <3>10, <3>11, <3>12, Zenon DEF StreamInv
  <2>. QED  BY <1>4, <2>1, <2>2, Zenon DEF Read
<1>. QED  BY <1>3, <1>4

\* An error of Read: a clean end is reported before the first byte of a
\* header only.
LEMMA FailKeeps ==
  ASSUME StreamInv, strips, UNCHANGED <<framed, strips, serverVars>>,
         NEW how \in {"eof", "short"}, Fail(how),
         how = "eof" => rpc = "header" /\ weight = 1
  PROVE  StreamInv'
<1>1. FrameTypes /\ rpc' = how /\ UNCHANGED <<pos, acc, weight, remaining, out>>
  BY Zenon DEF StreamInv, Fail
<1>2. wire' = wire /\ sent' = sent /\ left' = left
  BY Zenon DEF serverVars
<1>3. FrameTypes'
  BY <1>1, <1>2, Zenon DEF FrameTypes
<1>4. ReaderMoves
  <2>. SUFFICES ASSUME NEW last \in Nat, NEW off \in [Nat -> Nat], NEW hdr \in [Nat -> Nat],
                       Layout(wire, ends, sent, last, off, hdr),
                       Reading(ends, last, off, hdr, pos, rpc, acc, weight, remaining, Len(out))
                PROVE  Reading(ends, last, off, hdr, pos', rpc', acc', weight', remaining', Len(out'))
    BY Zenon DEF ReaderMoves
  <2>1. how = "eof" => pos \in ends
    <3>. SUFFICES ASSUME how = "eof" PROVE pos \in ends
      OBVIOUS
    <3>1. InHeader(ends, last, off, hdr, pos, acc, weight, Len(out)) /\ weight = 1
      BY Zenon DEF Reading
    <3>2. ~(weight > 1)
      BY <3>1, SMTT(40)
    <3>. QED  BY <3>1, <3>2, Zenon DEF InHeader
  <2>2. Reading(ends, last, off, hdr, pos, how, acc, weight, remaining, Len(out))
    BY <2>1, Zenon DEF Reading
  <2>. QED  BY <1>1, <2>2, Zenon
<1>. QED  BY <1>1, <1>3, <1>4, StrippingStep, Zenon DEF StreamInv

\* A step of the reader that delivers nothing.
LEMMA SilentStep ==
  ASSUME StreamInv, strips, UNCHANGED <<framed, strips, serverVars, out>>,
         FrameTypes', ReaderMoves
  PROVE  StreamInv'
<1>1. InStream(out') /\ Len(out') <= sent
  BY Zenon DEF StreamInv
<1>. QED  BY <1>1, StrippingStep, Zenon

\* There is a byte to read.
LEMMA NextByte ==
  ASSUME FrameTypes, Available > 0
  PROVE  /\ Len(wire) \in Nat /\ Len(out) \in Nat /\ pos < Len(wire)
         /\ pos + 1 <= Len(wire) /\ pos + 1 \in Nat
         /\ sent \in Nat /\ pos \in Nat /\ acc \in Nat /\ weight \in Nat \ {0} /\ remaining \in Nat
         /\ wire[pos + 1] \in Nat
<1>1. /\ wire \in Seq(Bytes) /\ out \in Seq(Bytes) /\ pos \in Nat /\ sent \in Nat /\ acc \in Nat
      /\ weight \in Nat \ {0} /\ remaining \in Nat
  BY Zenon DEF FrameTypes
<1>2. Len(wire) \in Nat /\ Len(out) \in Nat
  BY <1>1
<1>3. pos < Len(wire) /\ pos + 1 <= Len(wire) /\ pos + 1 \in Nat /\ pos + 1 \in 1..Len(wire)
  BY <1>1, <1>2 DEF Available
<1>4. wire[pos + 1] \in Bytes
  BY <1>1, <1>3
<1>5. wire[pos + 1] \in Nat
  BY <1>4, FrameAssumption DEF Bytes
<1>. QED  BY <1>1, <1>2, <1>3, <1>5, Zenon

\* binary.ReadUvarint, a byte at a time.
LEMMA ReadHeaderKeeps ==
  ASSUME StreamInv, ReadHeader
  PROVE  StreamInv'
<1>1. /\ FrameTypes /\ UNCHANGED <<framed, strips, serverVars>> /\ rpc = "header" /\ strips
      /\ wire' = wire /\ sent' = sent /\ left' = left
  BY Zenon DEF StreamInv, ReadHeader, serverVars
<1>2. CASE AtEnd /\ Fail(IF weight = 1 THEN "eof" ELSE "short")
  <2>1. CASE weight = 1
    <3>1. Fail("eof")
      BY <1>2, <2>1, Zenon
    <3>. QED  BY <1>1, <2>1, <3>1, FailKeeps, Zenon
  <2>2. CASE weight # 1
    <3>1. Fail("short")
      BY <1>2, <2>2, Zenon
    <3>2. "short" # "eof"
      OBVIOUS
    <3>. QED  BY <1>1, <3>1, <3>2, FailKeeps, Zenon
  <2>. QED  BY <2>1, <2>2
<1>3. CASE /\ Available > 0
           /\ pos' = pos + 1
           /\ LET b == wire[pos + 1]
              IN IF b < Base
                 THEN Record(acc + b * weight)
                 ELSE /\ acc' = acc + (b - Base) * weight
                      /\ weight' = weight * Base
                      /\ UNCHANGED <<rpc, remaining>>
           /\ UNCHANGED out
  <2>. DEFINE b == wire[pos + 1]
              h == acc + b * weight
  <2>1. /\ Len(wire) \in Nat /\ Len(out) \in Nat /\ pos < Len(wire)
        /\ pos + 1 <= Len(wire) /\ pos + 1 \in Nat
        /\ sent \in Nat /\ pos \in Nat /\ acc \in Nat /\ weight \in Nat \ {0} /\ remaining \in Nat
        /\ b \in Nat
    BY <1>1, <1>3, NextByte, Zenon
  <2>2. CASE b < Base
    <3>1. Record(h)
      BY <1>3, <2>2, Zenon
    <3>2. remaining' = h \div 2 /\ rpc' = Recorded(h) /\ acc' = 0 /\ weight' = 1
      BY <3>1, Zenon DEF Record, Recorded
    <3>3. h \in Nat
      BY <2>1
    <3>4. h \div 2 \in Nat
      BY <3>3, DivMod
    <3>5. 0 \in Nat /\ 1 \in Nat \ {0}
      OBVIOUS
    <3>6. FrameTypes'
      <4>. HIDE DEF h, b
      <4>. QED  BY <1>1, <1>3, <2>1, <3>2, <3>4, <3>5, Zenon DEF FrameTypes
    <3>7. ReaderMoves
      <4>. SUFFICES ASSUME NEW last \in Nat, NEW off \in [Nat -> Nat], NEW hdr \in [Nat -> Nat],
                           Layout(wire, ends, sent, last, off, hdr),
                           Reading(ends, last, off, hdr, pos, rpc, acc, weight, remaining, Len(out))
                    PROVE  Reading(ends, last, off, hdr, pos', rpc', acc', weight', remaining', Len(out'))
        BY Zenon DEF ReaderMoves
      <4>1. InHeader(ends, last, off, hdr, pos, acc, weight, Len(out))
        BY <1>1, Zenon DEF Reading
      <4>2. Reading(ends, last, off, hdr, pos + 1, Recorded(h), 0, 1, h \div 2, Len(out))
        BY <2>1, <2>2, <4>1, ByteRead, Zenon
      <4>. QED  BY <1>3, <3>2, <4>2, Zenon
    <3>. QED  BY <1>1, <1>3, <3>6, <3>7, SilentStep, Zenon
  <2>3. CASE ~(b < Base)
    <3>1. acc' = acc + (b - Base) * weight /\ weight' = weight * Base /\ UNCHANGED <<rpc, remaining>>
      BY <1>3, <2>3, Zenon
    <3>2. acc + (b - Base) * weight \in Nat /\ weight * Base \in Nat \ {0}
      <4>1. b - Base \in Nat /\ Base \in Nat \ {0}
        BY <2>1, <2>3, FrameAssumption
      <4>2. \A x, y, z \in Nat : x + y * z \in Nat
        OBVIOUS
      <4>3. \A x, y \in Nat \ {0} : x * y \in Nat \ {0}
        OBVIOUS
      <4>4. weight \in Nat
        BY <2>1, Zenon
      <4>. QED  BY <2>1, <4>1, <4>2, <4>3, <4>4, Zenon
    <3>3. FrameTypes'
      <4>. HIDE DEF h, b
      <4>. QED  BY <1>1, <1>3, <2>1, <3>1, <3>2, Zenon DEF FrameTypes
    <3>4. ReaderMoves
      <4>. SUFFICES ASSUME NEW last \in Nat, NEW off \in [Nat -> Nat], NEW hdr \in [Nat -> Nat],
                           Layout(wire, ends, sent, last, off, hdr),
                           Reading(ends, last, off, hdr, pos, rpc, acc, weight, remaining, Len(out))
                    PROVE  Reading(ends, last, off, hdr, pos', rpc', acc', weight', remaining', Len(out'))
        BY Zenon DEF ReaderMoves
      <4>1. InHeader(ends, last, off, hdr, pos, acc, weight, Len(out))
        BY <1>1, Zenon DEF Reading
      <4>2. InHeader(ends, last, off, hdr, pos + 1, acc + (b - Base) * weight, weight * Base, Len(out))
        BY <2>1, <2>3, <4>1, ByteRead, Zenon
      <4>3. Reading(ends, last, off, hdr, pos + 1, "header", acc + (b - Base) * weight, weight * Base,
                    remaining, Len(out))
        <5>. HIDE DEF b, h
        <5>. QED  BY <4>2 DEF Reading
      <4>. QED  BY <1>1, <1>3, <3>1, <4>3, Zenon
    <3>. QED  BY <1>1, <1>3, <3>3, <3>4, SilentStep, Zenon
  <2>. QED  BY <2>2, <2>3
<1>. QED  BY <1>2, <1>3, Zenon DEF ReadHeader

\* io.CopyN drops a padding record, or finds the body ended inside it.
LEMMA SkipPaddingKeeps ==
  ASSUME StreamInv, SkipPadding
  PROVE  StreamInv'
<1>1. /\ FrameTypes /\ UNCHANGED <<framed, strips, serverVars>> /\ rpc = "skip" /\ strips
      /\ wire' = wire /\ sent' = sent /\ left' = left
  BY Zenon DEF StreamInv, SkipPadding, SkipUntil, serverVars
<1>2. CASE remaining > 0 /\ AtEnd /\ Fail("short")
  <2>1. "short" # "eof"
    OBVIOUS
  <2>. QED  BY <1>1, <1>2, <2>1, FailKeeps, Zenon
<1>3. CASE /\ remaining > 0 /\ Available > 0
           /\ pos' = pos + 1 /\ remaining' = remaining - 1
           /\ UNCHANGED <<rpc, acc, weight, out>>
  <2>1. /\ Len(wire) \in Nat /\ Len(out) \in Nat
        /\ pos + 1 <= Len(wire) /\ pos + 1 \in Nat /\ pos \in Nat /\ remaining \in Nat
    BY <1>1, <1>3, NextByte, Zenon
  <2>2. remaining - 1 \in Nat /\ 1 <= remaining /\ 1 \in Nat /\ Padding # Data
    BY <1>3, <2>1 DEF Padding, Data
  <2>3. FrameTypes'
    BY <1>1, <1>3, <2>1, <2>2, Zenon DEF FrameTypes
  <2>4. ReaderMoves
    <3>. SUFFICES ASSUME NEW last \in Nat, NEW off \in [Nat -> Nat], NEW hdr \in [Nat -> Nat],
                         Layout(wire, ends, sent, last, off, hdr),
                         Reading(ends, last, off, hdr, pos, rpc, acc, weight, remaining, Len(out))
                  PROVE  Reading(ends, last, off, hdr, pos', rpc', acc', weight', remaining', Len(out'))
      BY Zenon DEF ReaderMoves
    <3>1. /\ acc = 0 /\ weight = 1
          /\ InRecord(ends, last, off, hdr, Padding, pos, remaining, Len(out))
      BY <1>1, Zenon DEF Reading
    <3>2. ends \subseteq Nat
      <4>1. ends \subseteq 0..last
        BY Zenon DEF Layout
      <4>. QED  BY <4>1
    <3>3. InRecord(ends, last, off, hdr, Padding, pos + 1, remaining - 1, Len(out))
      <4>1. InRecord(ends, last, off, hdr, Padding, pos + 1, remaining - 1,
                     IF Padding = Data THEN Len(out) + 1 ELSE Len(out))
        BY <2>1, <2>2, <3>1, <3>2, PayloadMoves, ZenonT(40)
      <4>. QED  BY <2>2, <4>1, Zenon
    <3>4. Reading(ends, last, off, hdr, pos + 1, "skip", acc, weight, remaining - 1, Len(out))
      BY <3>1, <3>3 DEF Reading
    <3>. QED  BY <1>1, <1>3, <3>4, Zenon
  <2>. QED  BY <1>1, <1>3, <2>3, <2>4, SilentStep, Zenon
<1>4. CASE remaining = 0 /\ rpc' = "header" /\ UNCHANGED <<pos, acc, weight, remaining, out>>
  <2>1. FrameTypes'
    BY <1>1, <1>4, Zenon DEF FrameTypes
  <2>2. ReaderMoves
    <3>. SUFFICES ASSUME NEW last \in Nat, NEW off \in [Nat -> Nat], NEW hdr \in [Nat -> Nat],
                         Layout(wire, ends, sent, last, off, hdr),
                         Reading(ends, last, off, hdr, pos, rpc, acc, weight, remaining, Len(out))
                  PROVE  Reading(ends, last, off, hdr, pos', rpc', acc', weight', remaining', Len(out'))
      BY Zenon DEF ReaderMoves
    <3>1. /\ acc = 0 /\ weight = 1
          /\ InRecord(ends, last, off, hdr, Padding, pos, 0, Len(out))
      BY <1>1, <1>4, Zenon DEF Reading
    <3>2. pos \in Nat /\ out \in Seq(Bytes)
      BY <1>1, Zenon DEF FrameTypes
    <3>3. Len(out) \in Nat
      BY <3>2
    <3>4. pos \in ends /\ Len(out) = off[pos]
      <4>1. AtRecord(ends, off, pos, Len(out))
        BY <3>1, <3>2, <3>3, PayloadDone, Zenon
      <4>. QED  BY <4>1, Zenon DEF AtRecord
    <3>5. InHeader(ends, last, off, hdr, pos, acc, weight, Len(out))
      BY <3>1, <3>4, Zenon DEF InHeader
    <3>6. Reading(ends, last, off, hdr, pos, "header", acc, weight, remaining, Len(out))
      BY <3>5 DEF Reading
    <3>. QED  BY <1>4, <3>6, Zenon
  <2>. QED  BY <1>1, <1>4, <2>1, <2>2, SilentStep, Zenon
<1>. QED  BY <1>2, <1>3, <1>4, Zenon DEF SkipPadding, SkipUntil

\* br.Read hands on bytes of a data record, up to its end.
LEMMA ReadPayloadKeeps ==
  ASSUME StreamInv, ReadPayload
  PROVE  StreamInv'
<1>1. /\ FrameTypes /\ UNCHANGED <<framed, strips, serverVars>> /\ rpc = "payload" /\ strips
      /\ wire' = wire /\ sent' = sent /\ left' = left
  BY Zenon DEF StreamInv, ReadPayload, serverVars
<1>2. CASE AtEnd /\ Fail("short")
  <2>1. "short" # "eof"
    OBVIOUS
  <2>. QED  BY <1>1, <1>2, <2>1, FailKeeps, Zenon
<1>3. ASSUME NEW size \in BufLens, NEW n \in 1 .. Min({size, remaining, Available}),
             Deliver(n), remaining' = remaining - n, UNCHANGED <<acc, weight>>
      PROVE  StreamInv'
  <2>1. /\ wire \in Seq(Bytes) /\ out \in Seq(Bytes) /\ pos \in Nat /\ remaining \in Nat
        /\ sent \in Nat
    BY <1>1, Zenon DEF FrameTypes
  <2>2. Len(wire) \in Nat /\ Len(out) \in Nat
    BY <2>1
  <2>3. n \in Nat /\ n # 0 /\ n <= remaining /\ n <= Available
    <3>1. size \in Int /\ remaining \in Int /\ Available \in Int
      BY <2>1, <2>2, FrameAssumption DEF Available
    <3>2. /\ Min({size, remaining, Available}) \in {size, remaining, Available}
          /\ Min({size, remaining, Available}) <= remaining
          /\ Min({size, remaining, Available}) <= Available
      BY <3>1, MinOfThree, Zenon
    <3>. QED  BY <3>1, <3>2
  <2>4. pos + n <= Len(wire) /\ pos + n \in Nat /\ remaining - n \in Nat /\ Len(out) + n \in Nat
    BY <2>1, <2>2, <2>3 DEF Available
  <2>5. out' = out \o SubSeq(wire, pos + 1, pos + n) /\ pos' = pos + n /\ rpc' = "idle"
    BY <1>3, Zenon DEF Deliver
  <2>6. /\ out' \in Seq(Bytes) /\ Len(out') = Len(out) + n
        /\ InStream(out) /\ (\A i \in 1..n : wire[pos + i] = ByteAt(Len(out) + i - 1))
             => InStream(out')
    BY <2>1, <2>3, <2>4, <2>5, DeliveredBytes, ZenonT(40)
  <2>7. FrameTypes'
    BY <1>1, <1>3, <2>4, <2>5, <2>6, Zenon DEF FrameTypes
  <2>8. PICK last \in Nat, off \in [Nat -> Nat], hdr \in [Nat -> Nat] :
          /\ Layout(wire, ends, sent, last, off, hdr)
          /\ Reading(ends, last, off, hdr, pos, rpc, acc, weight, remaining, Len(out))
    BY <1>1, Zenon DEF StreamInv, FramesOK
  <2>9. InRecord(ends, last, off, hdr, Data, pos, remaining, Len(out))
    BY <1>1, <2>8, Zenon DEF Reading
  <2>10. /\ Len(out) + remaining <= sent
         /\ \A i \in 1..remaining : pos + i <= Len(wire) => wire[pos + i] = ByteAt(Len(out) + i - 1)
    <3>1. PayloadIs(wire, sent, pos, remaining, Len(out))
      BY <2>1, <2>2, <2>8, <2>9, PayloadBytes, Zenon
    <3>. QED  BY <3>1, Zenon DEF PayloadIs
  <2>11. ASSUME NEW i \in 1..n
         PROVE  wire[pos + i] = ByteAt(Len(out) + i - 1)
    <3>1. i \in 1..remaining /\ pos + i <= Len(wire)
      <4>1. \A p, m, r, l \in Nat : m <= r /\ p + m <= l =>
              \A k \in 1..m : k \in 1..r /\ p + k <= l
        OBVIOUS
      <4>. QED  BY <2>1, <2>2, <2>3, <2>4, <4>1, Zenon
    <3>. QED  BY <2>10, <3>1, Zenon
  <2>12. InStream(out')
    BY <1>1, <2>6, <2>11, Zenon DEF StreamInv
  <2>13. Len(out') <= sent
    <3>1. Len(out) + n <= sent
      BY <2>1, <2>2, <2>3, <2>10
    <3>. QED  BY <2>6, <3>1, Zenon
  <2>14. ReaderMoves
    <3>. SUFFICES ASSUME NEW l \in Nat, NEW o \in [Nat -> Nat], NEW h \in [Nat -> Nat],
                         Layout(wire, ends, sent, l, o, h),
                         Reading(ends, l, o, h, pos, rpc, acc, weight, remaining, Len(out))
                  PROVE  Reading(ends, l, o, h, pos', rpc', acc', weight', remaining', Len(out'))
      BY Zenon DEF ReaderMoves
    <3>1. InRecord(ends, l, o, h, Data, pos, remaining, Len(out)) /\ ends \subseteq 0..l
      BY <1>1, Zenon DEF Reading, Layout
    <3>2. ends \subseteq Nat
      BY <3>1
    <3>3. InRecord(ends, l, o, h, Data, pos + n, remaining - n, Len(out) + n)
      <4>1. InRecord(ends, l, o, h, Data, pos + n, remaining - n,
                     IF Data = Data THEN Len(out) + n ELSE Len(out))
        BY <2>1, <2>2, <2>3, <3>1, <3>2, PayloadMoves, Zenon
      <4>. QED  BY <4>1, Zenon
    <3>4. remaining - n = 0 => pos + n \in ends /\ Len(out) + n = o[pos + n]
      <4>1. remaining - n = 0 => AtRecord(ends, o, pos + n, Len(out) + n)
        BY <2>4, <3>3, PayloadDone, ZenonT(40)
      <4>. QED  BY <4>1, Zenon DEF AtRecord
    <3>5. Reading(ends, l, o, h, pos + n, "idle", acc, weight, remaining - n, Len(out) + n)
      BY <3>3, <3>4 DEF Reading
    <3>. QED  BY <1>3, <2>5, <2>6, <3>5, Zenon
  <2>. QED  BY <1>1, <2>7, <2>12, <2>13, <2>14, StrippingStep, Zenon
<1>. QED  BY <1>2, <1>3, Zenon DEF ReadPayload

\* What appendRecord puts into a header is what a reader takes out of it.
LEMMA HeaderOf ==
  ASSUME NEW k \in Nat, NEW kind \in {Data, Padding}
  PROVE  /\ 2 * k + kind \in Nat
         /\ (2 * k + kind) \div 2 = k /\ (2 * k + kind) % 2 = kind
BY DEF Data, Padding

\* downFramer.Write puts out a data record of the next n bytes.
LEMMA WriteRecordKeeps ==
  ASSUME StreamInv, framed, WriteRecord
  PROVE  StreamInv'
<1>. DEFINE n == Min({left, MaxRecord})
            h == 2 * n + Data
            b == StreamBytes(sent, n)
<1>1. left \in Int /\ left >= 0 /\ isOpen /\ sent \in Nat
  BY Zenon DEF StreamInv, FrameTypes, WriteRecord, WriteRecordOf
<1>2. MaxRecord \in Int /\ MaxRecord >= 0
  BY FrameAssumption
<1>3. n \in {left, MaxRecord} /\ n <= left /\ n <= MaxRecord
  BY <1>1, <1>2, MinOfTwo, Zenon
<1>4. /\ WriteOut(appendRecord(Data, b)) /\ sent' = sent + n
      /\ left' = IF left = n THEN -1 ELSE left - n
      /\ UNCHANGED <<framed, strips, readerVars>>
  BY Zenon DEF WriteRecord, WriteRecordOf
<1>. HIDE DEF n
<1>5. n \in Nat /\ n <= MaxRecord
  BY <1>1, <1>2, <1>3
<1>6. left' \in Int
  BY <1>1, <1>4, <1>5
<1>7. h \in Nat /\ h \div 2 = n /\ h % 2 = Data
  BY <1>5, HeaderOf
<1>8. /\ b \in Seq(Bytes) /\ Len(b) = n
      /\ \A i \in 1..n : b[i] = ByteAt(sent + i - 1)
  BY <1>1, <1>5, StreamBytesAre, Zenon
<1>9. WriteOut(Uvarint[h] \o b)
  BY <1>4, <1>8, Zenon DEF appendRecord
<1>. HIDE DEF h, b
<1>10. RecordOf(h, b, sent)
  BY <1>5, <1>7, <1>8, Zenon DEF RecordOf
<1>11. Carried(h) = n
  BY <1>7, Zenon DEF Carried
<1>. QED  BY <1>1, <1>4, <1>6, <1>7, <1>9, <1>10, <1>11, RecordStep, Zenon

\* downFramer.WritePadding puts out a padding record, if no data went out
\* within the interval.
LEMMA WritePaddingKeeps ==
  ASSUME StreamInv, NEW p \in PadLens, WritePadding(p)
  PROVE  StreamInv'
<1>. DEFINE n == Min({p, MaxRecord})
            h == 2 * n + Padding
            b == [i \in 1..n |-> Base + 1]
<1>1. /\ framed /\ isOpen /\ UNCHANGED <<framed, strips, sent, left, dataAge, readerVars>>
      /\ sent \in Nat /\ left \in Int
  BY Zenon DEF WritePadding, PadAfter, StreamInv, FrameTypes
<1>2. CASE dataAge >= interval
  <2>1. WriteOut(appendRecord(Padding, b))
    BY <1>2, Zenon DEF WritePadding, PadAfter
  <2>2. p \in Int /\ MaxRecord \in Int /\ p >= 0 /\ MaxRecord >= 0
    BY FrameAssumption
  <2>3. n \in {p, MaxRecord} /\ n <= MaxRecord
    BY <2>2, MinOfTwo, Zenon
  <2>. HIDE DEF n
  <2>4. n \in Nat
    BY <2>2, <2>3
  <2>5. h \in Nat /\ h \div 2 = n /\ h % 2 = Padding
    BY <2>4, HeaderOf, Zenon
  <2>6. b \in Seq(Bytes) /\ Len(b) = n
    BY <2>4, PaddingBytesAre, Zenon
  <2>7. WriteOut(Uvarint[h] \o b)
    BY <2>1, <2>6, Zenon DEF appendRecord
  <2>. HIDE DEF h, b
  <2>8. Padding # Data
    BY DEF Padding, Data
  <2>9. RecordOf(h, b, sent)
    BY <2>3, <2>5, <2>6, <2>8, Zenon DEF RecordOf
  <2>10. Carried(h) = 0
    BY <2>5, <2>8, Zenon DEF Carried
  <2>11. sent' = sent + Carried(h) /\ left' \in Int
    BY <1>1, <2>10, PlusZero, Zenon
  <2>. QED  BY <1>1, <2>5, <2>7, <2>9, <2>11, RecordStep, Zenon
<1>3. CASE ~(dataAge >= interval)
  <2>1. UNCHANGED <<isOpen, wire, ends>>
    BY <1>3, Zenon DEF WritePadding, PadAfter
  <2>. QED  BY <1>1, <2>1, QuietStep, Zenon
<1>. QED  BY <1>2, <1>3

\* The proxied connection writes.
LEMMA WriteKeeps ==
  ASSUME StreamInv, NEW n \in 0..MaxWrite, Write(n)
  PROVE  StreamInv'
<1>1. isOpen /\ left \in Int /\ UNCHANGED <<framed, strips, readerVars>>
  BY Zenon DEF Write, StreamInv, FrameTypes
<1>2. n \in Nat /\ n \in Int
  BY FrameAssumption
<1>3. CASE framed
  <2>1. left' = n /\ UNCHANGED <<sent, isOpen, wire, ends>>
    BY <1>3, Zenon DEF Write
  <2>. QED  BY <1>1, <1>2, <2>1, QuietStep, Zenon
<1>4. CASE ~framed
  <2>1. WriteOut(StreamBytes(sent, n)) /\ sent' = sent + n /\ left' = left
    BY <1>4, Zenon DEF Write
  <2>. QED  BY <1>1, <1>2, <1>4, <2>1, RawStep, Zenon
<1>. QED  BY <1>3, <1>4

\* Only the framer's Write holds mu.
LEMMA FramerHolds == FrameSpec => [](~framed => left = -1)
<1>1. FrameInit => (~framed => left = -1)
  BY Zenon DEF FrameInit
<1>2. (~framed => left = -1) /\ [FrameNext]_frameVars => (~framed => left = -1)'
  <2>. SUFFICES ASSUME ~framed => left = -1, [FrameNext]_frameVars
                PROVE  ~framed' => left' = -1
    OBVIOUS
  <2>1. CASE UNCHANGED frameVars
    BY <2>1, Zenon DEF frameVars, serverVars
  <2>2. ASSUME NEW n \in 0..MaxWrite, Write(n) PROVE ~framed' => left' = -1
    BY <2>2, Zenon DEF Write
  <2>3. CASE WriteRecord
    <3>1. framed
      <4>1. -1 >= 0 => FALSE
        OBVIOUS
      <4>. QED  BY <2>3, <4>1, Zenon DEF WriteRecord, WriteRecordOf
    <3>. QED  BY <2>3, <3>1, Zenon DEF WriteRecord, WriteRecordOf
  <2>4. CASE WriteFails
    BY <2>4, Zenon DEF WriteFails
  <2>5. ASSUME NEW n \in PadLens, WritePadding(n) PROVE ~framed' => left' = -1
    BY <2>5, Zenon DEF WritePadding, PadAfter
  <2>6. CASE Pass
    BY <2>6, Zenon DEF Pass
  <2>7. CASE Close
    BY <2>7, Zenon DEF Close
  <2>8. CASE Cut
    BY <2>8, Zenon DEF Cut
  <2>9. CASE ReaderSteps
    BY <2>9, Zenon DEF ReaderSteps, Read, ReadHeader, SkipPadding, SkipUntil, ReadPayload,
       serverVars
  <2>. QED  BY <2>1, <2>2, <2>3, <2>4, <2>5, <2>6, <2>7, <2>8, <2>9, Zenon DEF FrameNext
<1>. QED  BY <1>1, <1>2, PTL DEF FrameSpec

\* Before the first byte the reader is where the first record will start.
LEMMA StreamStarts ==
  ASSUME FrameInit
  PROVE  StreamInv
<1>. DEFINE zero == [k \in Nat |-> 0]
<1>1. /\ sent = 0 /\ left = -1 /\ wire = <<>> /\ ends = {0} /\ pos = 0 /\ rpc = "idle"
      /\ acc = 0 /\ weight = 1 /\ remaining = 0 /\ out = <<>> /\ (strips => framed)
  BY Zenon DEF FrameInit, Negotiate
<1>2. FrameTypes
  BY <1>1 DEF FrameTypes
<1>3. Layout(wire, ends, sent, 0, zero, zero)
  BY <1>1 DEF Layout
<1>4. Len(wire) = 0 /\ Len(out) = 0
  BY <1>1
<1>5. Reading(ends, 0, zero, zero, pos, rpc, acc, weight, remaining, Len(out))
  BY <1>1, <1>4 DEF Reading
<1>6. zero \in [Nat -> Nat] /\ 0 \in Nat
  OBVIOUS
<1>. HIDE DEF zero
<1>7. FramesOK
  BY <1>3, <1>4, <1>5, <1>6, Zenon DEF FramesOK
<1>8. InStream(out) /\ InStream(wire) /\ Len(out) <= sent /\ Len(wire) <= sent
  BY <1>1 DEF InStream
<1>9. RawOK
  BY <1>1, <1>4, <1>8, Zenon DEF RawOK
<1>10. rpc \notin {"header", "skip", "payload"}
  BY <1>1
<1>. QED  BY <1>1, <1>2, <1>7, <1>8, <1>9, <1>10, Zenon DEF StreamInv

\* At every step the wire of a framed response is a sequence of whole records
\* and the start of at most one more, and a stripping reader is where the
\* records say, with as much delivered as the records before it carry.
THEOREM StreamInvariant == FrameSpec => []StreamInv
<1>1. FrameInit => StreamInv
  BY StreamStarts, Zenon
<1>2. StreamInv /\ (~framed => left = -1) /\ [FrameNext]_frameVars => StreamInv'
  <2>. SUFFICES ASSUME StreamInv, ~framed => left = -1, [FrameNext]_frameVars
                PROVE  StreamInv'
    OBVIOUS
  <2>1. left \in Int /\ -1 \in Int
    BY DEF StreamInv, FrameTypes
  <2>2. CASE UNCHANGED frameVars
    BY <2>1, <2>2, QuietStep, Zenon DEF frameVars, serverVars
  <2>3. ASSUME NEW n \in 0..MaxWrite, Write(n) PROVE StreamInv'
    BY <2>3, WriteKeeps, Zenon
  <2>4. CASE WriteRecord
    <3>1. framed
      <4>1. -1 >= 0 => FALSE
        OBVIOUS
      <4>. QED  BY <2>4, <4>1, Zenon DEF WriteRecord, WriteRecordOf
    <3>. QED  BY <2>4, <3>1, WriteRecordKeeps, Zenon
  <2>5. CASE WriteFails
    <3>1. left' = -1 /\ UNCHANGED <<framed, strips, sent, isOpen, wire, ends, readerVars>>
      BY <2>5, Zenon DEF WriteFails
    <3>. QED  BY <2>1, <3>1, QuietStep, Zenon
  <2>6. ASSUME NEW n \in PadLens, WritePadding(n) PROVE StreamInv'
    BY <2>6, WritePaddingKeeps, Zenon
  <2>7. CASE Pass
    BY <2>1, <2>7, QuietStep, Zenon DEF Pass
  <2>8. CASE Close
    BY <2>1, <2>8, QuietStep, Zenon DEF Close
  <2>9. CASE Cut
    BY <2>9, CutStep, Zenon
  <2>10. CASE ReaderSteps
    BY <2>10, ReadKeeps, ReadHeaderKeeps, SkipPaddingKeeps, ReadPayloadKeeps, Zenon
       DEF ReaderSteps
  <2>. QED  BY <2>2, <2>3, <2>4, <2>5, <2>6, <2>7, <2>8, <2>9, <2>10, Zenon DEF FrameNext
<1>. QED  BY <1>1, <1>2, FramerHolds, PTL DEF FrameSpec

\* A sequence whose bytes are those of the proxied stream is a prefix of it.
LEMMA StreamIs ==
  ASSUME NEW o \in Seq(Bytes), InStream(o)
  PROVE  o = StreamBytes(0, Len(o))
<1>. DEFINE n == Len(o)
<1>1. n \in Nat /\ o \in [1..n -> Bytes]
  OBVIOUS
<1>2. \A i \in 1..n : 0 + i - 1 = i - 1
  BY <1>1
<1>3. \A i \in 1..n : o[i] = ByteAt(i - 1)
  BY Zenon DEF InStream
<1>. HIDE DEF n
<1>4. StreamBytes(0, n) = [i \in 1..n |-> ByteAt(0 + i - 1)]
  BY Zenon DEF StreamBytes, ByteAt
<1>5. \A i \in 1..n : o[i] = ByteAt(0 + i - 1)
  BY <1>2, <1>3, Zenon
<1>6. o = [i \in 1..n |-> ByteAt(0 + i - 1)]
  BY <1>1, <1>5
<1>. QED  BY <1>4, <1>6, Zenon DEF n

\* A stripping client takes the end of the body for a clean one only where a
\* record ends, wherever the response is cut (framer.go: io.ErrUnexpectedEOF
\* inside a record).
THEOREM CleanEnds == FrameSpec => []CleanEndIsWhole
<1>1. StreamInv => CleanEndIsWhole
  <2>. SUFFICES ASSUME StreamInv, strips, rpc = "eof" PROVE pos \in ends
    BY Zenon DEF CleanEndIsWhole
  <2>1. PICK last \in Nat, off \in [Nat -> Nat], hdr \in [Nat -> Nat] :
          Reading(ends, last, off, hdr, pos, rpc, acc, weight, remaining, Len(out))
    BY Zenon DEF StreamInv, FramesOK
  <2>. QED  BY <2>1, Zenon DEF Reading
<1>. QED  BY <1>1, StreamInvariant, PTL

\* Whenever the two sides agree on the framing, the application reads a
\* prefix of what the proxied connection wrote: no header and no padding
\* leaks in, no byte is lost, for any sizes of writes, records, paddings and
\* buffers and any cut.
THEOREM AgreedIsDelivered == FrameSpec => [](strips \/ ~framed => DeliveredIsPrefix)
<1>1. StreamInv => (strips \/ ~framed => DeliveredIsPrefix)
  BY StreamIs, Zenon DEF StreamInv, FrameTypes, DeliveredIsPrefix
<1>. QED  BY <1>1, StreamInvariant, PTL

\* They agree whenever no CDN drops the confirming header, and then every
\* client reads a prefix of the stream.
THEOREM DeliveredInOrder ==
  ASSUME ~HeaderCut
  PROVE  FrameSpec => []DeliveredIsPrefix
<1>1. FrameInit => (strips \/ ~framed)
  <2>. SUFFICES ASSUME FrameInit PROVE strips \/ ~framed
    OBVIOUS
  <2>1. PICK asked \in BOOLEAN, enabled \in BOOLEAN, dropped \in BOOLEAN :
          /\ dropped => HeaderCut
          /\ framed = (asked /\ enabled)
          /\ strips = (asked /\ framed /\ ~dropped)
    BY Zenon DEF FrameInit, Negotiate
  <2>. QED  BY <2>1, Zenon
<1>2. (strips \/ ~framed) /\ [FrameNext]_frameVars => (strips \/ ~framed)'
  BY Zenon DEF FrameNext, frameVars, Write, WriteRecord, WriteRecordOf, WriteFails, WritePadding,
     PadAfter, Pass, Close, Cut, ReaderSteps, Read, ReadHeader, SkipPadding, SkipUntil, ReadPayload
<1>. QED  BY <1>1, <1>2, AgreedIsDelivered, PTL DEF FrameSpec

=============================================================================

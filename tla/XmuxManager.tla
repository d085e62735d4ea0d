---------------------------- MODULE XmuxManager ----------------------------
(***************************************************************************)
(* The pool of HTTP clients behind the XHTTP transport (mux.go) and the    *)
(* calls of DialContext that use it (client.go).                           *)
(*                                                                         *)
(* A dial takes two clients from the pool, counts itself on them, opens    *)
(* its stream and returns a connection.  In packet-up mode a send loop     *)
(* then uploads with POST goroutines and changes client when its client is *)
(* used up.  A client that must not be handed out any more is closed when  *)
(* idle and otherwise moves to the retired list, which later calls sweep.  *)
(*                                                                         *)
(* What runs under m.mtx is one step.  The clients found closable there    *)
(* are closed after the unlock, one step each.  xmuxClients and retired    *)
(* are sets: the code picks a random member of the one, and visits every   *)
(* member of the other.                                                    *)
(***************************************************************************)
EXTENDS Integers, FiniteSets

CONSTANTS
  Clients,          \* the XmuxClients that newConnFunc can create (a bound)
  Dials,            \* calls of DialContext
  Resetters,        \* calls of Reset
  Null,             \* no client
  Mode,             \* the resolved dial mode
  Concurrency,      \* m.concurrency, 0 for no limit
  Connections,      \* m.connections, 0 for no limit
  CMaxReuseTimes,   \* 0 for no limit
  HMaxRequestTimes, \* 0 for no limit
  Expires,          \* hMaxReusableSecs is set
  MaxPosts,         \* bound on the POSTs of one dial
  Errors,           \* requests and dials can fail on their own
  SlowClose         \* closing a client can outlast the hand-out grace

Modes == {"stream-one", "stream-up", "packet-up"}
MaxInt32 == 2147483647

ASSUME NullAssumption == Null \notin Clients
ASSUME FiniteAssumption == IsFiniteSet(Clients) /\ IsFiniteSet(Dials)
ASSUME OptionAssumption ==
  /\ Mode \in Modes
  /\ {Concurrency, Connections, CMaxReuseTimes, HMaxRequestTimes, MaxPosts} \subseteq Nat
  /\ {Expires, Errors, SlowClose} \subseteq BOOLEAN

VARIABLES
  xmuxClients,   \* the pool
  retired,
  closePlanned,  \* the clients whose closePlanned is set
  reaped,        \* those of them that a prune or a sweep planned to close
  born,          \* the clients created so far
  closes,        \* how often the manager closed a client
  IsClosed,      \* the clients whose closed flag is set
  unreusable,    \* the clients past UnreusableAt
  recent,        \* the clients handed out less than the grace ago
  OpenUsage, inflightPosts, leftUsage, LeftRequests,
  pc, cl1, cl2,  \* a dial, its upload client and its download client
  lpc, dyn,      \* its send loop and dynamicXmuxClient
  sent,          \* POSTs the loop has started
  posts,         \* the POSTs in flight: dial, seq and client
  interrupted,   \* the dials whose upload pipe was interrupted
  toClose,       \* what a thread still has to close after its unlock
  resetDone

poolVars == <<xmuxClients, retired, closePlanned, reaped, born>>
flagVars == <<IsClosed, unreusable, recent>>
countVars == <<OpenUsage, inflightPosts>>
limitVars == <<leftUsage, LeftRequests>>
dialVars == <<pc, cl1, cl2>>
loopVars == <<lpc, dyn, sent, posts, interrupted>>
closeVars == <<closes, toClose>>
vars == <<poolVars, flagVars, countVars, limitVars, dialVars, loopVars, closeVars, resetDone>>

Threads == (Dials \X {"dial", "loop"}) \cup (Resetters \X {"reset"})

Init ==
  /\ xmuxClients = {} /\ retired = {} /\ closePlanned = {} /\ reaped = {} /\ born = {}
  /\ IsClosed = {} /\ unreusable = {} /\ recent = {}
  /\ OpenUsage = [c \in Clients |-> 0]
  /\ inflightPosts = [c \in Clients |-> 0]
  /\ leftUsage = [c \in Clients |-> 0]
  /\ LeftRequests = [c \in Clients |-> 0]
  /\ pc = [d \in Dials |-> "start"]
  /\ cl1 = [d \in Dials |-> Null]
  /\ cl2 = [d \in Dials |-> Null]
  /\ lpc = [d \in Dials |-> "off"]
  /\ dyn = [d \in Dials |-> Null]
  /\ sent = [d \in Dials |-> 0]
  /\ posts = {}
  /\ interrupted = {}
  /\ closes = [c \in Clients |-> 0]
  /\ toClose = [t \in Threads |-> {}]
  /\ resetDone = {}

-----------------------------------------------------------------------------
(* The manager *)

idleLocked(c) ==
  /\ c \notin closePlanned
  /\ OpenUsage[c] = 0
  /\ inflightPosts[c] = 0
  /\ c \notin recent

\* The prune condition of getXmuxClientLocked.
Unusable(c) ==
  \/ c \in IsClosed
  \/ leftUsage[c] = 0
  \/ LeftRequests[c] <= 0
  \/ c \in unreusable

Pruned == {c \in xmuxClients : Unusable(c)}
Kept == xmuxClients \ Pruned
Eligible ==
  IF Concurrency > 0 THEN {c \in Kept : OpenUsage[c] < Concurrency} ELSE Kept

NeedsNew ==
  \/ Kept = {}
  \/ Connections > 0 /\ Cardinality(Kept) < Connections
  \/ Eligible = {}

newXmuxClient(c) ==
  /\ c \in Clients \ born
  /\ born' = born \cup {c}
  /\ xmuxClients' = Kept \cup {c}
  /\ leftUsage' = [leftUsage EXCEPT ![c] = CMaxReuseTimes - 1]
  /\ LeftRequests' = [LeftRequests EXCEPT
       ![c] = IF HMaxRequestTimes > 0 THEN HMaxRequestTimes ELSE MaxInt32]
  /\ recent' = recent \cup {c}

pickXmuxClientUnmarked(c) ==
  /\ c \in Eligible
  /\ xmuxClients' = Kept
  /\ leftUsage' = [leftUsage EXCEPT ![c] = IF @ > 0 THEN @ - 1 ELSE @]
  /\ UNCHANGED <<recent, born, LeftRequests>>

pickXmuxClient(c) ==
  /\ c \in Eligible
  /\ xmuxClients' = Kept
  /\ leftUsage' = [leftUsage EXCEPT ![c] = IF @ > 0 THEN @ - 1 ELSE @]
  /\ recent' = recent \cup {c}
  /\ UNCHANGED <<born, LeftRequests>>

sweepRetiredKeeps(t, list) ==
  LET free == {c \in list : idleLocked(c)}
  IN  /\ retired' = list
      /\ closePlanned' = closePlanned \cup free
      /\ reaped' = reaped \cup free
      /\ toClose' = [toClose EXCEPT ![t] = free]

\* The sweep of the retired list, the just pruned ones included: thread t
\* is to close the idle ones, the others stay.
sweepRetiredLocked(t, list) ==
  LET free == {c \in list : idleLocked(c)}
  IN  /\ retired' = list \ free
      /\ closePlanned' = closePlanned \cup free
      /\ reaped' = reaped \cup free
      /\ toClose' = [toClose EXCEPT ![t] = free]

GetXmuxClientForgets(t, c) ==
  /\ sweepRetiredLocked(t, retired)
  /\ IF NeedsNew THEN newXmuxClient(c) ELSE pickXmuxClient(c)
  /\ UNCHANGED <<IsClosed, unreusable, countVars, closes, resetDone>>

\* Thread t is handed client c.
GetXmuxClient(t, c) ==
  /\ sweepRetiredLocked(t, retired \cup Pruned)
  /\ IF NeedsNew THEN newXmuxClient(c) ELSE pickXmuxClient(c)
  /\ UNCHANGED <<IsClosed, unreusable, countVars, closes, resetDone>>

\* One turn of closeXmuxClients.
CloseClient(t, c) ==
  /\ c \in toClose[t]
  /\ toClose' = [toClose EXCEPT ![t] = @ \ {c}]
  /\ closes' = [closes EXCEPT ![c] = @ + 1]
  /\ IsClosed' = IsClosed \cup {c}
  /\ UNCHANGED <<poolVars, unreusable, recent, countVars, limitVars, dialVars, loopVars, resetDone>>

Reset(r) ==
  /\ r \notin resetDone
  /\ resetDone' = resetDone \cup {r}
  /\ toClose' = [toClose EXCEPT ![<<r, "reset">>] = xmuxClients \cup retired]
  /\ closePlanned' = closePlanned \cup xmuxClients \cup retired
  /\ xmuxClients' = {}
  /\ retired' = {}
  /\ UNCHANGED <<reaped, born, flagVars, countVars, limitVars, dialVars, loopVars, closes>>

-----------------------------------------------------------------------------
(* DialContext *)

Dial(d) == <<d, "dial">>
Loop(d) == <<d, "loop">>

\* Adds k to the entries of f for the clients in cs.
AddTo(f, cs, k) == [c \in Clients |-> IF c \in cs THEN f[c] + k ELSE f[c]]

\* Line 332: the client for the upload.
DialGet(d) ==
  /\ pc[d] = "start"
  /\ \E c \in Clients : GetXmuxClient(Dial(d), c) /\ cl1' = [cl1 EXCEPT ![d] = c]
  /\ pc' = [pc EXCEPT ![d] = "get2"]
  /\ UNCHANGED <<cl2, loopVars>>

\* Line 333: the client for the download, from the same pool.
DialGet2(d) ==
  /\ pc[d] = "get2"
  /\ toClose[Dial(d)] = {}
  /\ \E c \in Clients : GetXmuxClient(Dial(d), c) /\ cl2' = [cl2 EXCEPT ![d] = c]
  /\ pc' = [pc EXCEPT ![d] = "count"]
  /\ UNCHANGED <<cl1, loopVars>>

\* Lines 334-339.
DialCount(d) ==
  /\ pc[d] = "count"
  /\ toClose[Dial(d)] = {}
  /\ OpenUsage' = AddTo(OpenUsage, {cl1[d], cl2[d]}, 1)
  /\ pc' = [pc EXCEPT ![d] = "open"]
  /\ UNCHANGED <<poolVars, flagVars, inflightPosts, limitVars, cl1, cl2, loopVars, closeVars, resetDone>>

\* The requests that the mode charges to the clients of d.
Charged(d) ==
  CASE Mode = "stream-one" -> AddTo(LeftRequests, {cl1[d]}, -1)
    [] Mode = "packet-up" -> AddTo(LeftRequests, {cl2[d]}, -1)
    [] Mode = "stream-up" -> AddTo(AddTo(LeftRequests, {cl2[d]}, -1), {cl1[d]}, -1)

\* Lines 391-454 and 598: the connection is returned, in packet-up mode
\* with its send loop.
DialOpen(d) ==
  /\ pc[d] = "open"
  /\ LeftRequests' = Charged(d)
  /\ pc' = [pc EXCEPT ![d] = "conn"]
  /\ IF Mode = "packet-up"
     THEN /\ lpc' = [lpc EXCEPT ![d] = "read"]
          /\ dyn' = [dyn EXCEPT ![d] = cl1[d]]
     ELSE UNCHANGED <<lpc, dyn>>
  /\ UNCHANGED <<poolVars, flagVars, countVars, leftUsage, cl1, cl2, sent, posts, interrupted, closeVars, resetDone>>

\* An error return of lines 397-427: the usage counts keep what line 335
\* and line 338 added.
DialFails(d) ==
  /\ Errors
  /\ pc[d] = "open"
  /\ LeftRequests' = Charged(d)
  /\ pc' = [pc EXCEPT ![d] = "failed"]
  /\ UNCHANGED <<poolVars, flagVars, countVars, leftUsage, cl1, cl2, loopVars, closeVars, resetDone>>

\* The proxied connection is closed: the first call of onClose.
CloseConn(d) ==
  /\ pc[d] = "conn"
  /\ OpenUsage' = AddTo(OpenUsage, {cl1[d], cl2[d]}, -1)
  /\ pc' = [pc EXCEPT ![d] = "sweep"]
  /\ UNCHANGED <<poolVars, flagVars, inflightPosts, limitVars, cl1, cl2, loopVars, closeVars, resetDone>>

\* The end of onClose.
SweepRetired(d) ==
  /\ pc[d] = "sweep"
  /\ sweepRetiredLocked(Dial(d), retired)
  /\ pc' = [pc EXCEPT ![d] = "done"]
  /\ UNCHANGED <<xmuxClients, born, flagVars, countVars, limitVars, cl1, cl2, loopVars, closes, resetDone>>

\* The download request of d fails, or its context is cancelled before the
\* response: OpenStream sets the closed flag of the client.
StreamFails(d) ==
  /\ Errors
  /\ pc[d] \in {"conn", "sweep", "failed"}
  /\ IsClosed' = IsClosed \cup {IF Mode = "stream-one" THEN cl1[d] ELSE cl2[d]}
  /\ UNCHANGED <<poolVars, unreusable, recent, countVars, limitVars, dialVars, loopVars, closeVars, resetDone>>

-----------------------------------------------------------------------------
(* The send loop of packet-up and its POST goroutines *)

\* Lines 488-499: a chunk was read; the client is charged, and exchanged
\* when its requests or its time are used up.
LoopRead(d) ==
  /\ lpc[d] = "read"
  /\ d \notin interrupted
  /\ sent[d] < MaxPosts
  /\ LeftRequests' = AddTo(LeftRequests, {dyn[d]}, -1)
  /\ lpc' = [lpc EXCEPT ![d] =
       IF LeftRequests[dyn[d]] - 1 <= 0 \/ dyn[d] \in unreusable THEN "rotate" ELSE "post"]
  /\ UNCHANGED <<poolVars, flagVars, countVars, leftUsage, dialVars, dyn, sent, posts, interrupted, closeVars, resetDone>>

\* Line 498.
LoopRotate(d) ==
  /\ lpc[d] = "rotate"
  /\ \E c \in Clients : GetXmuxClient(Loop(d), c) /\ dyn' = [dyn EXCEPT ![d] = c]
  /\ lpc' = [lpc EXCEPT ![d] = "post"]
  /\ UNCHANGED <<dialVars, sent, posts, interrupted>>

LoopPostUncounted(d) ==
  /\ lpc[d] = "post"
  /\ toClose[Loop(d)] = {}
  /\ posts' = posts \cup {<<d, sent[d], dyn[d]>>}
  /\ inflightPosts' = inflightPosts
  /\ sent' = [sent EXCEPT ![d] = @ + 1]
  /\ lpc' = [lpc EXCEPT ![d] = "read"]
  /\ UNCHANGED <<poolVars, flagVars, OpenUsage, limitVars, dialVars, dyn, interrupted, closeVars, resetDone>>

\* Lines 524-530 and 594: the POST goroutine is counted and started, and
\* the loop goes on once the request is written.
LoopPost(d) ==
  /\ lpc[d] = "post"
  /\ toClose[Loop(d)] = {}
  /\ posts' = posts \cup {<<d, sent[d], dyn[d]>>}
  /\ inflightPosts' = AddTo(inflightPosts, {dyn[d]}, 1)
  /\ sent' = [sent EXCEPT ![d] = @ + 1]
  /\ lpc' = [lpc EXCEPT ![d] = "read"]
  /\ UNCHANGED <<poolVars, flagVars, OpenUsage, limitVars, dialVars, dyn, interrupted, closeVars, resetDone>>

\* ReadMultiBuffer returns an error: the pipe was interrupted, or closed
\* with the connection and is empty.
LoopEnds(d) ==
  /\ lpc[d] = "read"
  /\ d \in interrupted \/ pc[d] # "conn"
  /\ lpc' = [lpc EXCEPT ![d] = "ended"]
  /\ UNCHANGED <<poolVars, flagVars, countVars, limitVars, dialVars, dyn, sent, posts, interrupted, closeVars, resetDone>>

PostReturns(p) ==
  /\ posts' = posts \ {p}
  /\ inflightPosts' = AddTo(inflightPosts, {p[3]}, -1)
  /\ UNCHANGED <<poolVars, unreusable, recent, OpenUsage, limitVars, dialVars, lpc, dyn, sent, closeVars, resetDone>>

PostOK(p) ==
  /\ PostReturns(p)
  /\ UNCHANGED <<IsClosed, interrupted>>

\* The request fails on its own, because the manager closed the client or
\* because the connection is gone: the upload half is interrupted.  A
\* request without a response also sets the closed flag, a bad status not.
PostFails(p) ==
  /\ Errors \/ closes[p[3]] > 0 \/ pc[p[1]] # "conn"
  /\ PostReturns(p)
  /\ interrupted' = interrupted \cup {p[1]}
  /\ IsClosed' \in {IsClosed, IsClosed \cup {p[3]}}

-----------------------------------------------------------------------------
(* Time *)

\* Client c is handed out to thread t and not yet counted by it.
Uncounted(t, c) ==
  \E d \in Dials :
    \/ t = Dial(d) /\ c = cl1[d] /\ pc[d] \in {"get2", "count"}
    \/ t = Dial(d) /\ c = cl2[d] /\ pc[d] = "count"
    \/ t = Loop(d) /\ c = dyn[d] /\ lpc[d] = "post"

\* The hand-out grace of c ends.  No thread dwells that long between the
\* hand-out and its own count, except in the closing of other clients,
\* which can block.
GraceEnds(c) ==
  /\ c \in recent
  /\ \A t \in Threads : Uncounted(t, c) => SlowClose /\ toClose[t] # {}
  /\ recent' = recent \ {c}
  /\ UNCHANGED <<poolVars, IsClosed, unreusable, countVars, limitVars, dialVars, loopVars, closeVars, resetDone>>

Expire(c) ==
  /\ Expires
  /\ c \in born \ unreusable
  /\ unreusable' = unreusable \cup {c}
  /\ UNCHANGED <<poolVars, IsClosed, recent, countVars, limitVars, dialVars, loopVars, closeVars, resetDone>>

DialNext(d) ==
  \/ DialGet(d) \/ DialGet2(d) \/ DialCount(d) \/ DialOpen(d) \/ DialFails(d)
  \/ CloseConn(d) \/ SweepRetired(d) \/ StreamFails(d)

LoopNext(d) == LoopRead(d) \/ LoopRotate(d) \/ LoopPost(d) \/ LoopEnds(d)

Next ==
  \/ \E d \in Dials : DialNext(d) \/ LoopNext(d)
  \/ \E p \in posts : PostOK(p) \/ PostFails(p)
  \/ \E t \in Threads, c \in Clients : CloseClient(t, c)
  \/ \E r \in Resetters : Reset(r)
  \/ \E c \in Clients : GraceEnds(c) \/ Expire(c)

Spec == Init /\ [][Next]_vars

-----------------------------------------------------------------------------
(* Properties *)

\* The variables have their types; in particular no usage count of a
\* client falls below zero (onClose counts down once per counted client).
TypeOK ==
  /\ {xmuxClients, retired, closePlanned, reaped, born, IsClosed, unreusable, recent} \subseteq SUBSET Clients
  /\ OpenUsage \in [Clients -> Nat] /\ inflightPosts \in [Clients -> Nat]
  /\ leftUsage \in [Clients -> Int] /\ LeftRequests \in [Clients -> Int]
  /\ pc \in [Dials -> {"start", "get2", "count", "open", "conn", "failed", "sweep", "done"}]
  /\ cl1 \in [Dials -> Clients \cup {Null}] /\ cl2 \in [Dials -> Clients \cup {Null}]
  /\ lpc \in [Dials -> {"off", "read", "rotate", "post", "ended"}]
  /\ dyn \in [Dials -> Clients \cup {Null}]
  /\ sent \in [Dials -> Nat]
  /\ posts \subseteq Dials \X Nat \X Clients
  /\ interrupted \subseteq Dials
  /\ closes \in [Clients -> Nat]
  /\ toClose \in [Threads -> SUBSET Clients]
  /\ resetDone \subseteq Resetters

\* The manager loses track of no client: each one it created is in the
\* pool, in the retired list or planned to be closed, and in one of them
\* only (the leak that the comments of getXmuxClientLocked describe).
Accounted ==
  /\ born = xmuxClients \cup retired \cup closePlanned
  /\ xmuxClients \cap retired = {}
  /\ (xmuxClients \cup retired) \cap closePlanned = {}

\* No client is closed twice, whatever prunes, sweeps and resets overlap.
ClosedOnce == \A c \in Clients : closes[c] <= 1

\* Dial d has client c from its first hand-out to the close of its
\* connection.
HoldsStream(d, c) ==
  \/ c = cl1[d] /\ pc[d] \in {"get2", "count", "open", "conn"}
  \/ c = cl2[d] /\ pc[d] \in {"count", "open", "conn"}

\* A client that a prune or a sweep takes for closing carries no stream
\* and is not about to get one: neither the counts nor the hand-out window
\* before the count let it be closed under a dial.
NoStreamOnReaped == \A d \in Dials, c \in reaped : ~HoldsStream(d, c)

\* A prune or a sweep takes no client for closing while one of its POSTs is
\* in flight.
ReapsNoBusyClient ==
  [][\A c \in reaped' \ reaped : \A p \in posts : p[3] # c]_vars

\* With no concurrency limit the pool never outgrows maxConnections, or
\* one client when there is no such limit either.
PoolBounded ==
  Concurrency = 0 =>
    Cardinality(xmuxClients) <= IF Connections > 0 THEN Connections ELSE 1

\* A client taken by a prune or a sweep has no POST of an open connection
\* in flight when it is closed (the comment at XmuxClient.inflightPosts:
\* closing a transport under a POST in flight is not allowed).
NoCloseUnderPost ==
  [][\A c \in reaped : closes'[c] > closes[c] =>
       \A p \in posts : p[3] = c => pc[p[1]] # "conn"]_vars
=============================================================================

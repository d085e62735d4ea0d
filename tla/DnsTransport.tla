---------------------------- MODULE DnsTransport ----------------------------
(***************************************************************************)
(* The DNS transports over UDP, TLS and QUIC on their connection pool      *)
(* (dns/transport/udp.go, tls.go, quic/quic.go).  UDP and QUIC share one   *)
(* connection; a UDP query is found again by its 16-bit id, in a receive   *)
(* loop per connection.  TLS has a connection to itself for a query.       *)
(*                                                                         *)
(* The transport is chosen in Init.  The n-th query of a behaviour is the  *)
(* number n, and so is the answer to it.  Messages on a UDP connection     *)
(* stay on the wire: an answer may come late, twice or never.              *)
(***************************************************************************)
EXTENDS ConnPool, FiniteSetsExt

\* The transports to look at, each with its kind, the size of its id space (2^16
\* in the code), and bounds on the Exchanges of a behaviour and on what goes wrong.
CONSTANT Transports

ASSUME TransportAssumption ==
  /\ Transports \subseteq [kind : {"udp", "tls", "quic"}, ids : Nat \ {0}, queries : Nat, faults : Nat]
  /\ IsFiniteSet(Callers)

VARIABLES
  transport,  \* the transport of this behaviour
  step,       \* where an Exchange is
  query,      \* the number of the query it sent
  tries,      \* the passes of the TLS and QUIC loops that are left
  created,    \* the TLS callers whose Acquire returned created
  answer,     \* the answer an Exchange has, 0 for none
  replaced,   \* the state object whose closeState a caller of Reset waits for
  asked,      \* the number of Exchanges so far
  sent,       \* the number of queries so far
  wire,       \* the queries sent on a connection, with their ids
  loops,      \* the receive loops of a UDP connection
  callbacks,  \* t.callbacks: the caller waiting for an id, 0 for none
  queryId,    \* t.queryId
  udpSize,    \* t.udpSize: 0 for the initial 2048, 1 for a larger one
  faults      \* what went wrong so far

exchangeVars == <<transport, step, query, tries, created, answer, replaced, asked, sent>>
udpVars == <<loops, callbacks, queryId, udpSize>>
vars == <<poolVars, exchangeVars, wire, udpVars, faults>>

kind == transport.kind
Ids == 0 .. transport.ids - 1

Init ==
  /\ PoolInit
  /\ transport \in Transports
  /\ mode = IF kind = "tls" THEN "ordered" ELSE "single"
  /\ step = [p \in Callers |-> "ready"]
  /\ query = [p \in Callers |-> 0]
  /\ tries = [p \in Callers |-> 0]
  /\ created = {}
  /\ answer = [p \in Callers |-> 0]
  /\ replaced = [p \in Callers |-> 0]
  /\ asked = 0
  /\ sent = 0
  /\ wire = [c \in Conns |-> {}]
  /\ loops = [c \in Conns |-> 0]
  /\ callbacks = [i \in Ids |-> 0]
  /\ queryId = 0
  /\ udpSize = 0
  /\ faults = 0

-----------------------------------------------------------------------------
(* Exchange, for all kinds *)

conn(p) == call[p].conn

\* The bound on the dials stops p, nothing else does.
OutOfDials(p) == dials = MaxDials /\ call[p].pc \in {"acquire", "slot"}

\* There is room for one more Reset within MaxStates.
Room == states + Cardinality({p \in Callers : step[p] = "reset"}) < MaxStates

Goto(p, s) == step' = [step EXCEPT ![p] = s]

\* The Exchange returns.
Quit(p) ==
  /\ Goto(p, "ready")
  /\ query' = [query EXCEPT ![p] = 0]
  /\ tries' = [tries EXCEPT ![p] = 0]
  /\ answer' = [answer EXCEPT ![p] = 0]
  /\ created' = created \ {p}
  /\ replaced' = [replaced EXCEPT ![p] = 0]

Return(p) == Quit(p) /\ UNCHANGED <<transport, asked, sent>>

\* The query of p gets the next number.
Number(p) ==
  /\ sent' = sent + 1
  /\ query' = [query EXCEPT ![p] = sent + 1]

\* A query comes.  One with a larger EDNS0 size makes UDP reset its pool first.
Ask(p) ==
  /\ step[p] = "ready"
  /\ asked < transport.queries
  /\ asked' = asked + 1
  /\ tries' = [tries EXCEPT ![p] = IF kind = "udp" THEN 1 ELSE 2]
  /\ \/ /\ Goto(p, "acquire")
        /\ Begin(p)
        /\ UNCHANGED udpSize
     \/ /\ kind = "udp" /\ udpSize = 0 /\ Room
        /\ udpSize' = 1
        /\ Goto(p, "reset")
        /\ UNCHANGED poolVars
  /\ UNCHANGED <<transport, query, created, answer, replaced, sent, wire, loops, callbacks, queryId>>

\* What a pool step returns to the Exchanges.  One whose Acquire failed returns;
\* TLS keeps created, and UDP starts a receive loop on it.
Acquired ==
  LET failed == {p \in Callers : call[p].pc # "idle" /\ call'[p].pc = "idle"}
      new == {p \in Callers : call[p].pc # "got" /\ call'[p].pc = "got" /\ claims' # claims}
  IN
  /\ step' = [p \in Callers |-> IF p \in failed THEN "ready" ELSE step[p]]
  /\ tries' = [p \in Callers |-> IF p \in failed THEN 0 ELSE tries[p]]
  /\ created' = (created \ failed) \cup {p \in new : kind = "tls"}
  /\ loops' = [c \in Conns |-> loops[c] + IF kind = "udp" THEN claims'[c] - claims[c] ELSE 0]
  /\ UNCHANGED <<transport, query, answer, replaced, asked, sent, wire, callbacks, queryId, udpSize>>

Has(p, k) == kind = k /\ step[p] = "acquire" /\ call[p].pc = "got"

\* t.Reset() in an Exchange: nothing on a closed pool.
ResetPool(p) ==
  /\ step[p] = "reset"
  /\ IF Closed
     THEN UNCHANGED <<poolVars, replaced>>
     ELSE Reset /\ replaced' = [replaced EXCEPT ![p] = cur]
  /\ Goto(p, "resetting")
  /\ UNCHANGED <<transport, query, tries, created, answer, asked, sent, wire, udpVars>>

\* closeState is over and t.Reset returns; the Exchange acquires, or gives up.
ResetDone(p) ==
  /\ step[p] = "resetting"
  /\ replaced[p] # 0 => stage[replaced[p]] = "closed"
  /\ IF tries[p] > 0
     THEN /\ Begin(p)
          /\ Goto(p, "acquire")
          /\ replaced' = [replaced EXCEPT ![p] = 0]
          /\ UNCHANGED <<transport, query, tries, created, answer, asked, sent>>
     ELSE Return(p) /\ UNCHANGED poolVars
  /\ UNCHANGED <<wire, udpVars>>

-----------------------------------------------------------------------------
(* UDPTransport *)

\* The steps from queryId to the next id that is not in use.
FreeSteps == {k \in 1 .. transport.ids : callbacks[(queryId + k) % transport.ids] = 0}

LowestFree == Min({i \in Ids : callbacks[i] = 0})

nextAvailableQueryId == (queryId + Min(FreeSteps)) % transport.ids

\* No id is free: the Exchange fails.
NoFreeId(p) ==
  /\ Has(p, "udp")
  /\ FreeSteps = {}
  /\ Release(p, TRUE)
  /\ Return(p)
  /\ UNCHANGED <<wire, udpVars>>

\* The callback is registered and the query written.
Send(p) ==
  /\ Has(p, "udp")
  /\ FreeSteps # {}
  /\ conn(p) \in open
  /\ callbacks' = [callbacks EXCEPT ![nextAvailableQueryId] = p]
  /\ queryId' = nextAvailableQueryId
  /\ Number(p)
  /\ wire' = [wire EXCEPT ![conn(p)] = @ \cup {[id |-> nextAvailableQueryId, n |-> sent + 1]}]
  /\ Goto(p, "await")
  /\ UNCHANGED <<poolVars, transport, tries, created, answer, replaced, asked, loops, udpSize>>

\* The message cannot be packed, or the write fails and the connection is
\* given up; the callback is deleted again.
SendFails(p) ==
  /\ Has(p, "udp")
  /\ FreeSteps # {}
  /\ queryId' = nextAvailableQueryId
  /\ sent' = sent + 1
  /\ InvalidateUsed(p) \/ Leave(p)
  /\ Quit(p)
  /\ UNCHANGED <<transport, asked, wire, loops, callbacks, udpSize>>

\* The Exchange returns, and its deferred delete takes the callback away.
Unregister(p) ==
  /\ callbacks' = [i \in Ids |-> IF callbacks[i] = p THEN 0 ELSE callbacks[i]]
  /\ Return(p)
  /\ UNCHANGED <<wire, loops, queryId, udpSize>>

\* The select: an answer or the end of the context, or the end of the connection.
Answered(p) ==
  /\ step[p] = "await"
  /\ answer[p] # 0 \/ p \in expired
  /\ Release(p, TRUE)
  /\ Unregister(p)

ConnFailed(p) ==
  /\ step[p] = "await"
  /\ ConnDone(conn(p))
  /\ Leave(p)
  /\ Unregister(p)

\* recvLoop: an answer to a query sent on c goes to whoever waits for its id.
Receive(c, m) ==
  /\ loops[c] > 0
  /\ c \in open
  /\ callbacks[m.id] # 0
  /\ answer[callbacks[m.id]] = 0
  /\ answer' = [answer EXCEPT ![callbacks[m.id]] = m.n]
  /\ UNCHANGED <<poolVars, transport, step, query, tries, created, replaced, asked, sent, wire, udpVars>>

ReceiveCloses(c) ==
  /\ loops[c] > 0
  /\ open' = open \ {c}
  /\ loops' = [loops EXCEPT ![c] = @ - 1]
  /\ UNCHANGED <<stateVars, fieldVars, dialVars, callVars, dead, cut, claims, exchangeVars, wire,
                 callbacks, queryId, udpSize>>

\* The read fails: the connection was closed, or the network reports an error.
ReceiveFails(c) ==
  /\ loops[c] > 0
  /\ Invalidate(c)
  /\ loops' = [loops EXCEPT ![c] = @ - 1]
  /\ UNCHANGED <<exchangeVars, wire, callbacks, queryId, udpSize>>

-----------------------------------------------------------------------------
(* TLSTransport *)

\* The query goes out on the connection.
TlsWrite(p) ==
  /\ Has(p, "tls")
  /\ conn(p) \in open
  /\ Number(p)
  /\ wire' = [wire EXCEPT ![conn(p)] = @ \cup {[id |-> 0, n |-> sent + 1]}]
  /\ Goto(p, "read")
  /\ UNCHANGED <<poolVars, transport, tries, created, answer, replaced, asked, udpVars>>

\* The first answer on the connection is read, and the connection goes back.
TlsAnswer(p) ==
  /\ step[p] = "read"
  /\ answer[p] = 0
  /\ conn(p) \in open
  /\ wire[conn(p)] # {}
  /\ LET m == CHOOSE m \in wire[conn(p)] : \A o \in wire[conn(p)] : m.n <= o.n IN
     /\ answer' = [answer EXCEPT ![p] = m.n]
     /\ wire' = [wire EXCEPT ![conn(p)] = @ \ {m}]
  /\ UNCHANGED <<poolVars, transport, step, query, tries, created, replaced, asked, sent, udpVars>>

TlsRelease(p) ==
  /\ step[p] = "read"
  /\ answer[p] # 0
  /\ Release(p, TRUE)
  /\ Return(p)
  /\ UNCHANGED <<wire, udpVars>>

\* The write or the read fails: a broken or closed connection, or the deadline.
\* The connection is discarded, and one that was not new is tried once more.
TlsFail(p) ==
  /\ Has(p, "tls") \/ (step[p] = "read" /\ answer[p] = 0)
  /\ Release(p, FALSE)
  /\ IF p \in created \/ tries[p] = 1
     THEN Return(p)
     ELSE /\ tries' = [tries EXCEPT ![p] = @ - 1]
          /\ Goto(p, "again")
          /\ query' = [query EXCEPT ![p] = 0]
          /\ UNCHANGED <<transport, created, answer, replaced, asked, sent>>
  /\ UNCHANGED <<wire, udpVars>>

TryAgain(p) ==
  /\ step[p] = "again"
  /\ Begin(p)
  /\ Goto(p, "acquire")
  /\ UNCHANGED <<transport, query, tries, created, answer, replaced, asked, sent, wire, udpVars>>

\* The context ends during the exchange and closes the connection.
DeadlineCloses(p) ==
  /\ kind = "tls"
  /\ step[p] \in {"acquire", "read"}
  /\ conn(p) \in open
  /\ CloseInUse(p)
  /\ UNCHANGED <<exchangeVars, wire, udpVars>>

-----------------------------------------------------------------------------
(* The QUIC transport *)

\* An answer, or an error that does not call for another try.
QuicEnd(p) ==
  /\ Has(p, "quic")
  /\ Release(p, TRUE)
  /\ Return(p)
  /\ UNCHANGED <<wire, udpVars>>

\* isQUICRetryError: the pool is reset and the query tried once more.
QuicRetry(p) ==
  /\ Has(p, "quic")
  /\ Room
  /\ Release(p, TRUE)
  /\ tries' = [tries EXCEPT ![p] = @ - 1]
  /\ Goto(p, "reset")
  /\ UNCHANGED <<transport, query, created, answer, replaced, asked, sent, wire, udpVars>>

-----------------------------------------------------------------------------
(* The transport *)

\* A step of an Acquire, of a dial, of a closeState.
PoolStep ==
  /\ \/ \E p \in Callers : AcquireStep(p)
     \/ \E d \in Conns : DialStep(d)
     \/ \E s \in States : CloseStep(s)
  /\ Acquired

ExchangeStep(p) ==
  \/ ResetPool(p) \/ ResetDone(p)
  \/ NoFreeId(p) \/ Send(p) \/ SendFails(p) \/ Answered(p) \/ ConnFailed(p)
  \/ TlsWrite(p) \/ TlsRelease(p) \/ TlsFail(p) \/ TryAgain(p)
  \/ QuicEnd(p) \/ QuicRetry(p)

\* Deadlines (a QUIC exchange may fail anyway), lost connections, Reset and Close.
Environment ==
  /\ \/ \E p \in Callers : (kind = "quic" => call[p].pc # "got") /\ Expire(p)
     \/ \E c \in Conns : kind = "quic" /\ Die(c)
     \/ Room /\ Reset
     \/ Close
  /\ UNCHANGED <<exchangeVars, wire, udpVars>>

\* What the goroutines of the pool and the transport do by themselves.  A read on a
\* closed connection fails; that of a TLS query has a deadline.
SystemStep ==
  \/ PoolStep
  \/ \E p \in Callers : ExchangeStep(p)
  \/ \E c \in Conns : c \notin open /\ ReceiveFails(c)

\* What goes wrong: a context ends, a connection or a dial fails, the pool is
\* reset or closed.
Fault ==
  \/ ~(expired' \subseteq expired)
  \/ dead' # dead
  \/ cur' # cur /\ replaced' = replaced
  \/ \E p \in Callers : step[p] # "reset" /\ step'[p] = "reset"
  \/ \E d \in Conns : dial[d].err # "dial" /\ dial'[d].err = "dial"
  \/ \E c \in open \ (open' \cup dead) : Tracked(c)

Counted == faults' = faults + (IF Fault THEN 1 ELSE 0) /\ faults' <= transport.faults

Next ==
  \/ PoolStep /\ Counted
  \/ \E p \in Callers : Ask(p) /\ Counted
  \/ \E p \in Callers : ExchangeStep(p) /\ Counted
  \/ \E p \in Callers : TlsAnswer(p) /\ Counted
  \/ \E p \in Callers : DeadlineCloses(p) /\ Counted
  \/ \E c \in Conns : ReceiveFails(c) /\ Counted
  \/ \E c \in Conns : \E m \in wire[c] : Receive(c, m) /\ Counted
  \/ Environment /\ Counted

Spec == Init /\ [][Next]_vars

\* The goroutines run and a dial ends.  A bounded behaviour has finitely many of
\* these steps, so none that stays enabled is left out for ever.
Fairness == WF_vars(SystemStep /\ Counted)

LiveSpec == Spec /\ Fairness

-----------------------------------------------------------------------------
(* Properties *)

\* The transports keep to the protocol of the pool: what is proved of the
\* pool with any callers holds for it here.
UsesPool == PoolSpec

\* An answer belongs to the query of the Exchange that takes it.  A UDP answer
\* is found by its id alone, so it may be a late one to an earlier query, but
\* never to one of the last ids - |Callers| (udp.go:103).
AnswerIsOwn ==
  \A p \in Callers :
    answer[p] # 0 =>
      \/ answer[p] = query[p]
      \/ kind = "udp" /\ query[p] - answer[p] >= transport.ids - Cardinality(Callers) + 1

\* When queries stop coming, nobody is left waiting: every Acquire has ended, and
\* no UDP query waits for an answer on a connection that is closed, without its
\* own context being done (conn_pool.go:333, udp.go:222).  And after Close no
\* connection stays open, whatever was being dialled or used.
ExchangesEnd ==
  /\ []<>(\A p \in Callers :
            /\ call[p].pc \in {"idle", "got"} \/ OutOfDials(p)
            /\ step[p] = "await" => conn(p) \in open)
  /\ []<>(Closed => open = {})

=============================================================================

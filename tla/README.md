# TLA+ verification of inhive-sing-box

inhive-sing-box is a proxy platform: inbounds accept connections, a router picks an outbound for
each, and the outbound carries it over some protocol and transport. Most protocols come from
upstream. What this fork wrote and keeps changing is the XHTTP transport
(`transport/v2rayxhttp`), the monitoring of outbounds (`common/monitoring`), the admission of
dials by the router's connection manager (`route/conn.go`) and the groups built on them. The
project models both ends of the XHTTP transport, from the client pool to the server's
session table; the connection manager; the monitor; and the DNS transports with their connection
pool, whose sharing and resets every resolution goes through.

Contents: [inventory](#inventory) · [modules](#modules-and-the-code-they-model) ·
[runs](#runs) · [bounds](#bounds) · [fairness](#fairness) · [proofs](#proofs) ·
[findings](#findings) ·
[not modelled](#not-modelled)

## Inventory

### The XHTTP transport

One proxied connection becomes HTTP requests. The client (`client.go`) opens a download GET and
uploads either in one streaming request (stream-one, stream-up) or in numbered POSTs (packet-up).
The server (`server.go`) joins the requests of one session id into one connection for the router.

| component | state | operations | hard behaviour | what makes it correct |
|---|---|---|---|---|
| `dialer.go` OpenStream, WaitReadCloser | the body pointer, the wait channel, the first connection's address, the client's closed flag | open, GotConn callback, Set, Read, Close | four kinds of goroutine on atomics only; retries inside `client.Do` | the body is closed exactly once; a reader neither hangs nor takes the handover for an end; a dead client is marked before the caller goes on |
| `mux.go`, `client.go` pool of clients | pool, retired list, per client the usage count, POSTs in flight, reuse and request budgets, hand-out time | hand out, prune, sweep, reset, close; dial, open, post, rotate, close | counters change outside the lock; clients are chosen under the lock and closed after it | no client is lost, closed twice, or closed under a stream, a hand-out or a POST |
| `client.go`, `writer.go`, `common/xray/pipe` packet-up upload | the pipe's buffer and state, two one-slot notifiers, the sequence number, POSTs under way | Write, the send loop, POST goroutines, Interrupt, Close | lost wake-ups; failure or replay of one POST while the loop prepares the next | bodies are contiguous, small enough and, but for replays, written in order; nobody sleeps for ever |
| `upload_queue.go` | a channel, a mutex, a heap, the next sequence number, the reader of stream-up | Push, Read, Close | packets in any order, twice, in parts; Close against Push and Read | the bytes come out in order and none is lost; no send on a closed channel |
| `server.go` sessions | the session table, per session its queue, reaper and connected flag | find or create, POST, GET, reap, delete | reaper against GET; late requests with an old id; Close waits for a mutex a Push holds | requests of one id share a session; a removed session is closed; every session ends |
| `framer.go`, keepalive in `server.go` | the wire, the record being read, the timer, the time of the last write | negotiate, Write, WritePadding, framedReader.Read, Close | a cut at any byte; padding between writes; a header that middleboxes drop | the application reads a prefix of the stream; a cut is no clean end; the wire is not quiet for long |
| `deafwatch.go` | two time stamps, the mark of the episode | noteDownlink, noteUploadProgress, check | check acts on a silence it read before | one warning per deaf silence |
| `http.go`, `chunkhist.go` | counters | request encoding, statistics | none | not modelled |

They interact so: a dial takes clients from the pool (XmuxManager), opens its download on one of
them (OpenStream), and, in packet-up mode, uploads through the pipe and POSTs (PacketUp), which
rotate through the pool. POST handlers on the server find the session (XhttpSession) and push into
its queue (UploadQueue); the GET handler serves the connection that reads the queue and writes the
response through the framer (DownFramer), which the client's reader, found through WaitReadCloser,
strips. The reads of that reader and the POSTs' answers feed the deaf-download detector
(DeafWatch).

### DNS transports, connection manager and monitor

| component | state | operations | hard behaviour | what makes it correct |
|---|---|---|---|---|
| `dns/transport/conn_pool.go` | the state object with its connections, the idle list or the shared connection and its claim, the dial in progress, the dial slots | Acquire, Release, Invalidate, Reset, Close, the dial goroutine, closeState | one dial for several callers; Reset replaces the state while a dial and its waiters go on; closeState runs without the lock | no open connection is forgotten, shared against the mode or announced twice; a caller fails for its own reasons |
| `dns/transport/udp.go`, `tls.go`, `quic/quic.go` | per Exchange its step, tries and answer; the ids and callbacks of UDP; receive loops | Exchange with its retries, the receive loop, Reset, Close | late answers to reused ids; a connection that dies under a query; retry on a connection that was not new | an answer reaches its query; nobody waits on a dead connection; Close leaves nothing open |
| `route/conn.go` | the dial cap; per outbound the flows in flight, the failure count and the degraded flag; the list of tracked connections; per relay its two ends and directions | NewConnection, NewPacketConnection, the health update, the two copies, CloseAll | four atomics read and written one by one; the last or the first copy calls onClose; CloseAll against both | the budget holds, the flag follows the server; every relay ends and reports it once |
| `common/monitoring` | two task queues, marks per outbound, workers, retries, a cycle of stages, the ticker, the debounced notification | TestNow, InvalidateTest, SignalChange, workers, retries, cycles, the ticker, the notifier, Close | a task's result clears the marks of others; retries must not be taken for duplicates; a stage counts its tasks | a cycle ends; a marked outbound is tested; a result is published |

They interact so: the router gives a connection to the connection manager, which dials through an
outbound and relays; groups choose the outbound by what the monitor found; outbounds and the router
resolve names through the DNS transports. DnsTransport is the composition of the transports with
ConnPool. ConnManager and Monitoring share no state with the other modules and are checked by
themselves.

### The rest of the system

| component | state and operations | what a model would be about |
|---|---|---|
| URL test, selector and balancer (`protocol/group`) | the selected outbound, the interrupt group | the choice is the best within the tolerance, with 16-bit sums; connections of the old choice are interrupted |
| DNS client and router (`dns`) | cache, single flight | every waiter of a flight gets an answer or tries itself |
| managers and box lifecycle (`adapter/*/manager.go`, `box.go`) | tables by tag, dependencies, stages | tables and defaults agree after a failed remove; start follows the dependencies |
| network manager (`route/network.go`) | interfaces, the reset of transports | a reset reaches each of them |
| cache file, Clash API (`experimental`) | saved selections, FakeIP, counters | what was saved is what is loaded |

Vendored code (`replace/`), protocols, TLS, sniffers, other V2Ray transports, services, mobile
bindings, commands and options are third-party code, wire formats, platform glue or configuration;
PROJECT.json gives the reason for each.

## Modules and the code they model

Each component has a module with its state as VARIABLES and one action per step of the code. A
step ends where another goroutine can see a difference: at an atomic operation, a channel
operation, a lock or an unlock. What runs under one mutex without touching anything outside it is
one step. An `MC` module instantiates the component for TLC; a `_proofs` module holds the theorems of one
component, or of those at the same end of the transport or behind the router, whose definitions
therefore have names of their own (`UploadInit`, `DeafNext`, `FrameSpec`, `MonitorSpec`).
The definitions keep the names of the code, and `map` in PROJECT.json gives the lines of each.
Definitions that precede the one they imitate and that no action uses (`SetCheckMissing`,
`PopEarlyDrops`, `InstallForgets`, ...) are wrong versions of it, which show that a property
notices the mistake.

- **OpenStream** (`dialer.go`): one call of OpenStream with its caller (`callerPc`), its response
  goroutine (`respPc`), the GotConn callbacks of `MaxAttempts` attempts, readers (`rpc`) and
  closers (`cpc`). `reader` is the atomic body pointer, `wait` the wait channel. `client.Do` is an
  environment that calls back, fails or returns a response.
- **UploadQueue** (`upload_queue.go`): a packet is named by its handler and has a number and a
  length. Reads take any part of a packet. The unsynchronised assignment of `h.reader` by Close and
  Read has an intermediate value `torn`, which a concurrent Read can meet: that is the data race
  of the code. `SameMode` says that a client uses one upload mode per session; with `Mixed` it
  need not. **OrderedStream** is what the queue promises: the accepted numbers in their order, each
  to its end before the next, without a gap. Only of a number that was accepted more than once may
  bytes come again: Read puts the rest of a partly read packet back beside the second copy.
- **XmuxManager** (`mux.go`, the dial and send loop of `client.go`): a dial takes two clients
  (`DialGet`, `DialGet2`), counts itself on them (`DialCount`), opens its stream and becomes a
  connection; in packet-up mode its loop posts and rotates. Pool operations are one step each;
  the clients they plan to close are closed one by one after it (`toClose`, `CloseClient`). The
  hand-out grace is the set `recent`: `GraceEnds` says that it outlasts the window between
  hand-out and count, unless `SlowClose`.
- **PacketUp** (`client.go`, `writer.go`, `common/xray/pipe`): bytes are numbered, the pipe holds
  those from `from` to `accepted`, and a POST is a pair of bounds. Writers split their data into
  buffers; the two notifiers are one-slot flags. `post` has the state of each POST. Over HTTP/2 and 3
  the WroteRequest hook makes it `sent`, and the transport may replay it from GetBody while the send
  loop is past it (`PostReplays`). Over HTTP/1.1 (`httpVersion`) the hook fires when PostPacket
  serialises the request into its own buffer (`serialised`), before any connection has it.
- **XhttpSession** (`server.go`, `conn.go`): the handlers of one session id. Session objects are
  members of `Sessions`, as a late request makes a new one. Of the queue it keeps the channel's
  fill, the mutex and the closed flag; UploadQueue has the rest.
- **DownFramer** (`framer.go`, negotiation and keepalive in `server.go` and `dialer.go`): the wire
  is a sequence of bytes in a small base, so that the uvarint header takes one or two bytes. The
  reader is the state machine of `framedReader.Read` over arbitrary buffer lengths, and the
  response can be cut at every byte.
- **DeafWatch** (`deafwatch.go`): time stamps are ages in seconds with the thresholds of the code.
- **ConnPool** (`dns/transport/conn_pool.go`): both modes. A section under `p.access` is one action;
  the d-th dial makes connection d. `cur` numbers the state objects, `stage` says how far closeState
  is with an old one, `dial` and `call` are the dial goroutines and the callers. `PoolNext` lets the
  callers do with a connection whatever a transport may do (Release, Invalidate, leave it, close it
  in use), so the theorems about `PoolSpec` hold for any transport that keeps to it.
- **DnsTransport** (`udp.go`, `tls.go`, `quic/quic.go`) extends ConnPool with Exchange; its actions
  conjoin the pool's. `UsesPool` says that the composition implements `PoolSpec`. The kind of
  transport, its id space and the bounds of a behaviour are one record chosen in Init. Queries and
  answers are numbers; what was sent on a UDP connection stays on the wire, so an answer may come
  late, twice or never.
- **ConnManager** (`route/conn.go`): a flow is a goroutine of NewConnection up to the end of its
  dial, one action per atomic operation; `up` is the server behind the outbound. A relay is a
  connection afterwards, a record of its two ends, its two directions, the `done` flag and the
  number of onClose calls. Plain flows dial through an outbound without a health record.
- **Monitoring** (`outbound_monitoring.go`): tasks are records in `priorityQueue`, `normalQueue`,
  `retries` (the pauses of three seconds) and `work`. `state` holds the marks. `cycle` is the
  goroutine of startCycleOnce with the stage it collects. A test succeeds or fails; tunnels become
  ready and lose it (`ReadyChanges`). `Tick` lets results grow old only while no task of their
  outbound is about (the interval is minutes, a retry three seconds), and retries wake up in the
  order they were made.

## Runs

`tlc -config <cfg> <module>` for each row. The last two are runs whose property the code
violates; they are described under [findings](#findings).

| run | module, cfg | what it shows |
|---|---|---|
| `open_stream` | MCOpenStream, OpenStream.cfg | `BodyClosedExactlyOnce`: whatever the order of Set and the Closes, the body has one owner and is closed once. `DeadClientIsMarked`: a failed download marks its client before the caller is released. `ClosedPipeMeansClose`: readers see a closed pipe only after a Close, and always when they begin after it and the handover is over. `OpenStreamReturns`: the caller and the readers wait for ever in no case. |
| `upload_queue` | MCUploadQueue, UploadQueue.cfg | `ImplementsOrderedStream` (refinement): order, no gap, and bytes repeated only of a number accepted twice. `NoAcceptedPacketLost`: a packet answered with 200 is in the channel, in the heap or delivered. `StreamReaderKept`: of several request bodies one is accepted, and Close does not drop it. `HeapAlmostBounded`: the heap holds at most `scMaxBufferedPosts` + 2. `NoSendOnClosedChannel`: no handler panics. `AcceptedIsDelivered`: what was accepted is delivered, and Close releases a waiting Read. |
| `xmux_packet_up` | MCXmuxManager, XmuxManager.cfg | `Accounted`: each client is in the pool, retired or planned to be closed, and in one of these only. `ClosedOnce`. `NoStreamOnReaped`: a client taken for closing carries no stream and is in nobody's hand-out window. `ReapsNoBusyClient`: nor a POST in flight. |
| `session` | MCXhttpSession, XhttpSession.cfg | `OneSession`: a session object leaves the table by a removal only, never by a replacement. `DeletedIsClosed`: a removed session is closed, or someone is about to close it. `SessionsEnd`: each session is removed and closed, unless a Push waits for room in its channel for ever. |
| `packetup` | MCPacketUp, PacketUp.cfg | `BodiesCover`: no POST starts behind bytes that an Interrupt dropped, and no body exceeds `scMaxEachPostBytes`, though the pipe accepts a buffer before it looks at its size. `WrittenInOrder`: over HTTP/2 and 3 a POST is started only when the first attempt at every earlier one is over, so that what overtakes it is a replay. `UploadGoesOn`: no wake-up between writers and the send loop is lost, and a Close or a failed POST ends the loop. |
| `downframe` | MCDownFramer, DownFramer.cfg | `DeliveredIsPrefix`, `CleanEndIsWhole`: whatever is cut, the application reads a prefix, and takes only the end of a record for the end of the stream. `SilenceBounded`: less than two intervals without a byte on the wire. `AllDelivered`: all that was written arrives when nothing is cut. |
| `deaf` | MCDeafWatch, DeafWatch.cfg | `OneWarningPerSilence`: at the first tick after the threshold, once, unless a check of the silence before ends late. |
| `dns_transport` | MCDnsTransport, DnsTransport.cfg | Of the pool, with real transports on it: `NoConnLost` (an open connection is registered, being installed, or in a replaced state that closeState is about to close), `ExclusiveUse` (a TLS connection has one user and is not idle meanwhile), `ClaimedOnce` (created is reported once, so that a UDP connection has one receive loop), `OldStateUntouched` (closeState may range over a replaced state's map without the lock), `ErrorsAreOwn` (a waiter does not fail because another caller's dial did). `UsesPool` (refinement): the transports keep to the pool's protocol. `AnswerIsOwn`: an answer belongs to its query, or the id was reused after all but the ids in use had been used. `ExchangesEnd`: nobody waits for ever on a dial or a dead connection, and Close leaves nothing open. |
| `conn_manager` | MCConnManager, ConnManager.cfg | `DegradedAdmission`: while degraded, no more than the budget dial at a time. `HealthFollowsServer`: the outbound heals when the server is back, and a storm of failures degrades it in spite of the races between the counter and the flag. `OnCloseOnce`, `RelayEnds`: a relay calls onClose once, and ends when one end breaks or CloseAll runs. |
| `monitoring` | MCMonitoring, Monitoring.cfg | `CycleEnds`: no stage loses a task, whatever is retried or tested in between, so cycles go on. `MarkedIsTested`: a mark leads to a test. `Answered`: a result is published though the notifier is busy or debouncing, and blocked callers return. |
| `xmux_post_cut` | MCXmuxManager, XmuxPostCut.cfg | violates `NoCloseUnderPost` |
| `session_hang` | MCXhttpSession, XhttpSessionHang.cfg | violates `GetReturns` |

`TypeOK` describes the state of a module; where a proof exists it is part of it, and the runs spend
their time on the other properties. Deadlock checking is off except in `deaf`, whose clock never
stops, and in `conn_manager`, where connections keep coming: elsewhere a call that has returned
and a session that has ended really stop.

## Bounds

- `open_stream`: two readers, two closers besides the response goroutine, two attempts. Two
  closers are needed for a double close, two attempts for a retry after the release of the caller.
- `upload_queue`: five packets through a channel of one place. The second has two bytes (a partial
  read) and is sent twice, so that both copies can be in the heap when one is cut; the third has
  none. Four packets that wait for the first are one more than the heap may hold.
- `xmux_packet_up`: two clients, two dials of up to two POSTs each, one Reset; a client serves two
  requests and three hand-outs and can expire, so that rotation and pruning happen while the other
  dial works. The clients are symmetric, and so are the dials.
- `session` and `session_hang`: two session objects for one id (the second made by a late request),
  two POSTs and a GET, a channel of one, so that the second POST meets a full channel.
- `packetup`: two writers, writes of up to three bytes in buffers of two, a limit of three, four
  bytes in all: a Write that needs two buffers, one that has to wait, and up to four POSTs, over
  HTTP/1.1 or HTTP/2 (which stands for 3 too). Replays are not counted: a POST may be sent again and
  again, which covers the seven retries of the HTTP/2 transport.
- `downframe`: base 4, records of up to three bytes, Writes of up to four, paddings of 0 and 4
  bytes, reads of 1 and 3 bytes, a wire of six bytes and whatever the last Write adds. Headers of
  one and two bytes, a Write of two records, and a padding with a two-byte length all fit.
- `deaf`: the code's own thresholds, 52 s, 15 s and 5 s. Ages are counted up to the point from
  which the code cannot tell them apart, so nothing is cut off.

- `dns_transport`: two callers, two dials, two Resets or Closes. Five transports: UDP with one id
  (they run out), with three ids and two faults, with three ids and four queries (they are reused);
  TLS with one dial slot; QUIC. A fault is a context that ends, a connection that breaks or dies, or
  a Reset.
- `conn_manager`: three flows with a cap of two dials, a budget of one and a threshold of two, so
  that flows are dropped, shed and counted past the threshold, with and without a plain flow; and
  two relays behind one plain flow with CloseAll.
- `monitoring`: five setups. One tunnel with two URLs, two cycles and calls of TestNow and
  InvalidateTest; two workers; tests of the group, with one URL; SignalChange and Close; two
  outbounds, one of which dials through the other. `ReadyLimit` is 2 (10 in the code): one retry
  before it is reached.

What is proved (below) holds without these bounds.

## Fairness

Weak fairness of a goroutine's own steps everywhere: the Go scheduler runs what can run. Strong
fairness only for taking `sync.Mutex`, which hands itself to the longest waiter in its starvation
mode (UploadQueue `CloseEnter`; XhttpSession `Push` and the closes). In OpenStream `client.Do` is
assumed to end, as the transports have their own timeouts. In PacketUp a POST is written or
fails, for the same reason. In DownFramer the bytes on the wire arrive and the application keeps
reading. In XhttpSession each reaper's timer fires. In DnsTransport the goroutines of the pool and
of an Exchange go on (dials return, at the latest by their timeout), not what breaks connections
or cancels contexts. In ConnManager dials return, a server that is up again and again answers some
dial, and a copy whose end is closed ends. In Monitoring workers, retries, cycles, blocked callers
and the notifier go on, and tests end by their timeout. No fairness is assumed of callers: nobody has
to write, to close, to push or to send a GET.

## Proofs

Checked with `tlapm`, for every value of the constants that satisfies the modules' ASSUMEs: any
number of readers, writers, callers, flows, dials and sizes, not only those of the runs. Every
safety property of the passing runs is proved.
The proofs sit in eight modules; lemmas about a step say which action they are about.

**XhttpClient_proofs**, the client's side of a connection (OpenStream, PacketUp, DeafWatch).

- `TypeCorrect`; `BodyClosedOnce`, from `CustodyInv`: the body has exactly one holder until it is
  closed (the pointer, the response goroutine or one closer), and when Set has passed its check a
  Close that comes later will find the pointer. The property alone is not inductive, as it says
  nothing of who will close the body. `FirstAttempt` and `DeadClient`, from `ReturnInv`, which ties
  the published address and the client's mark to the point the response goroutine has reached.
  `ClosedPipe`, from `CustodyInv` and `HandoverInv`: wait is closed by a Close or after the pointer
  is set, Set takes its closing branch only when a Close has begun, and a reader past the wait finds
  it closed.
- `UploadBodies` and `UploadOrder`, from `UploadInv`: unless the pipe was interrupted, the last body
  ends where the pipe's content begins; the pipe never holds more than a body may have, though it
  accepts a buffer before it looks at its size; a request is written for the first time only while
  the send loop waits for it; and only over HTTP/1.1 can a request be serialised and not written.
  Replays put a POST back to `again`, never to `writing`, so the order survives them.
- `DeafWarnsOnce`, from `DeafInv`, for any thresholds and tick: the mark says that the present silence
  has its warning, or that a late check took its place; it is stale only between the two stores of
  noteDownlink.

**XhttpServer_proofs**, the server's (XhttpSession, DownFramer).

- `TypeCorrect`, `SharedSession`, and `DeletedSessionsClose` from `Watched`: each session in the
  table has a reaper on duty or a GET that will close it.
- `FramedStreamSpeaks` (`SilenceBounded`), if no interval is 0, from `SilenceInv`: the time already
  quiet and the time the timer still has add up to less than two of the longest intervals, as a
  timer that fires without padding was set less than an interval after the last data.
- `StreamInvariant`, and from it `CleanEnds`, `AgreedIsDelivered` and, if the confirming header
  arrives, `DeliveredInOrder`. The properties speak of what was delivered and where it ended, the
  invariant of everything between. `Layout`: at each place where a record starts the wire has, as
  far as it goes, the `Uvarint` of a kind and a length and then the payload, which continues the
  proxied stream where the records before left it; whole records were written, and a cut has kept a
  prefix of them. `Reading`: the reader is at the start of one of these records, behind some bytes
  of its header, the rest of which would complete the number it has so far, or in the payload with
  the bytes left to the record's end; and it has delivered what the records carry up to there. The
  places are the history variable `ends`; the headers and offsets are existential, and a Write gives
  them for its new record.
- They rest on lemmas about `Uvarint`, the encoding of a header: reading it digit by digit gives the
  number back, and no earlier byte looks like its end (`UvarintTail`). It is a recursive function,
  whose defining equation has itself to be proved (`UvarintExists`, `UvarintUnique`,
  `UvarintUnfolds`). The library's induction rules take an operator as a parameter, which the
  backends cannot instantiate; these lemmas use the least counterexample instead (`NatMin`, from the
  well-foundedness of < on Nat).

**UploadQueue_proofs.** `TypeCorrect`; `NoPanickingSend` from `LockInv` (the closed flag, the closed
channel and the holder of the mutex); `HeapBound` from `HeapInv` (how far the heap may be filled at
each point of Read). For sessions that keep to one mode (`Mixed = FALSE`), whatever numbers come more
than once: `BodyKept`, from `KeptInv`: the first body sets nomore, and the second receive of Read,
which would bury a body in the heap, only runs when packets are waiting there; `NothingLost` and
`InOrder`, the refinement of OrderedStream, from `StreamInv`. Its part `CutInv` says that a packet is
cut no further than its number was delivered, that it lags behind only if another packet with its
number was accepted, and that what precedes the expected number is delivered to the end.

**XmuxManager_proofs.** `TypeCorrect`, which needs that the counters are exact (`UsageExact`:
OpenUsage is the number of counted dials on the client; `InflightExact`), or a count could fall
below zero. `NothingForgotten`, `ClosedAtMostOnce` and `PoolBound` from `PoolInv`: each client to be
closed is owned by one thread. `BusyClientsKept` is an action property. `StreamsSafe`: if closing
never outlasts the grace (`SlowClose = FALSE`), no client is taken for closing under a stream or a
hand-out.

**Outbounds_proofs** (ConnManager, Monitoring).

- ConnManager. `SlotsAccounted`: the counters of slots and dials are the numbers of flows between
  taking and giving back (`CountersExact`), for any finite set of flows. Without it nothing relates
  the counter a flow compares with the budget to the flows that dial. `DegradedBudget`, an action
  property, follows: a flow is admitted while degraded only if the flows that are counted, it
  included, are within the budget. `RelaysCloseOnce` from `RelayOK`, one record at a time: which of
  the two copies have left decides whether `done` is set, onClose was called and the ends are
  closed.
- Monitoring, the safety that its liveness rests on. `MonitorTypes`. `StagesCounted`: what runStage
  still waits for is exactly its tasks in the queue, in their pause or under test. `QueuedHaveTasks`:
  a mark that keeps an outbound out of the cycles has a task that will clear it. Both from
  `StageInv`: which kinds of task can be where (`Kinds`), that an outbound has at most one task of
  the stage, wherever it is (`Once`), and that the retry of that task is never superfluous to
  enqueueTask, as the outbound's enqueuedCycle is 0 or the number the task has without its retry
  (`Retriable`). As tasks of a stage are of different outbounds, normalQueue has room for a retry,
  so none is dropped. They are stated for setups in which no test of the group is asked for and
  normalQueue (10000 places in the code) has a place for each outbound (`OnlyCycles`): with
  tests of the group a stage can lose a retry (see the observations below), and the count is wrong.
  `MarkedHaveTasks` is the statement on marks with tests of the group, as long as normalQueue has
  room, from `Noted`: the task whose number the mark carries is still about, so a retry is refused
  only for the sake of another task. `UnseenArePending` needs neither: a result that is not
  published has its notification in the channel or the timer.

**ConnPoolDials_proofs** (steps of callers and dials) and **ConnPool_proofs** (installing, Reset,
Close, and the theorems). All from `PoolInv`, for any number of callers, dials and Resets and both
modes: `Dialled` and `Staged` (how far a dial and a closeState are decides what is known of their
connections), `Sharing` (a dial for the current state is the one the pool knows; `claimed` counts
the hand-outs as created), `Owned` (a connection in use or idle was created once), `OrderedDials`,
`Waiting` and `Started` (who waits for which dial, and why it may be cut short). Without them a late
dial could install or claim a connection a second time. `PoolLosesNothing`, `PoolExclusive` and
`PoolClaims` are invariants, `PoolOldStates` and `PoolErrors` action properties.

**DnsTransport_proofs.** `TransportsUsePool`: every step of an Exchange is a step of the pool with
that caller or leaves it alone, so the specification of the transports implements `PoolSpec`.
`TransportsAreSafe`: so the five properties of the pool hold for them. `AnswersAreOwn`, for any
finite number of callers and any number of ids, from `AnswerInv`:

- on TLS (`OwnConn`), what is on a connection is the answer to the one query of its one user, and a
  connection that was given up with an answer still to come is neither idle nor in use. This needs
  `PoolInv`: Acquire hands out only idle or new connections.
- on UDP (`Numbered`), each query has a position in the endless sequence of ids that
  nextAvailableQueryId runs through, and its id is the position modulo the number of ids. The
  callback of an id belongs to the last query that had it, so an answer that finds the callback of
  another query is a whole round of ids older. How many queries that is depends on how many ids were
  passed over because they were in use: fewer than the callers, since the ids passed over in a round
  are those of different callers (one that sends again has its new id where the round already is).
  The induction needs a stronger count (`Passed`): the ids already passed over since a query, plus
  those still in use on the rest of its round.

Assumptions beyond the types of the constants: an outbound has finitely many flows
(`ManagerAssumption`), a pool finitely many callers (`TransportAssumption`) and a monitor finitely
many outbounds (`MonitoringAssumption`), or the counters and ids could not be compared with a
Cardinality; the keepalive intervals have a longest one, which is
not 0 (`FrameAssumption`). Hypotheses in a theorem's statement (`0 \notin Intervals`, `~HeaderCut`,
`~SlowClose`, `~Mixed`) are cases that the [findings](#findings) show to be needed.

Only model-checked: liveness (`OpenStreamReturns`, `AcceptedIsDelivered`, `SessionsEnd`,
`UploadGoesOn`, `AllDelivered`, `ExchangesEnd`, `HealthFollowsServer`, `RelayEnds`, `CycleEnds`,
`MarkedIsTested`, `Answered`), which is out of the prover's reach. The three of Monitoring are all
that its run checks; `StageCounted`, `QueuedHasTask`, `MarkedHasTask` and `UnseenIsPending`,
which say that a cycle, a mark and a result are never left with nothing to end them, are proved and
not listed in the run.

## Findings

Runs in which the code does otherwise than a comment in it says:

- `xmux_post_cut`: the client that a send loop rotated to is counted only while a POST is in
  flight. Between two POSTs it looks idle, can be pruned and planned for closing, and is closed
  under the next POST, which interrupts the upload (`client.go:498`; the comment at `mux.go:33`
  forbids it).
- `session_hang`: Push waits for room in the channel with the mutex held. When the upload copy has
  ended and the channel is full, the Close at the end of the GET waits for ever, the handler does
  not return and the deferred removal does not run (`upload_queue.go:54`, `server.go:238`).

Smaller observations, met while modelling; the ones about the XHTTP transport are visible by
changing a constant or a property:

- A POST cut by Reset interrupts the pipe of its connection, so the send loop ends; it does not
  rotate to a new client, as the comment at `client.go:617` says it will.
- With `HeaderCut = TRUE` in DownFramer.cfg `DeliveredIsPrefix` fails: the server frames on the
  client's marker alone, the client strips on the server's header alone, and if the header is
  dropped on the way, record headers and padding reach the application (`dialer.go:277`).
- With `SlowClose = TRUE` and three clients `NoStreamOnReaped` fails: GetXmuxClient closes other
  clients between choosing one and returning it, and a close that takes longer than the grace of
  five seconds lets a sweep close the chosen one (`mux.go:202`).
- The error returns of DialContext after `client.go:334` leave OpenUsage incremented (`DialFails`),
  so a client that is retired afterwards stays so until a Reset.
- The sweep in `onClose` skips a client handed out less than five seconds ago, and no later sweep
  comes unless something is dialled.
- With 0 in `Intervals` `SilenceBounded` fails: the keepalive goroutine ends when it draws 0
  (`server.go:306`).
- Without its exception (`late`) `OneWarningPerSilence` fails: a check that read the silence before
  a byte came down can mark the next silence as logged (`deafwatch.go:144`).
- A GET that finds its session just before the reaper fires serves a connection whose queue the
  reaper then closes (`server.go:240`).
- The heap of the upload queue reaches `scMaxBufferedPosts` + 2, and with `Mixed = TRUE` a request
  body that comes while Read waits for a missing packet is put in the heap as if it were one
  (`upload_queue.go:128`).
- If a number comes twice and its packet is read in part, the rest is pushed back with the same
  number as the second copy; when that one is popped first, its bytes are delivered once more
  (`upload_queue.go:105`). The client numbers each body once, so this takes a request that something
  on the way repeats after the server has had it. OrderedStream allows it only for such numbers.
- The WroteRequest hook fires for an attempt that failed too and does not look at the error
  (`client.go:473`), and again for a replay. While a POST is replayed the send loop goes on; when
  more than `scMaxBufferedPosts` later ones pass it, the server's queue ends the session
  (`upload_queue.go:121`), a limit that the comment at `dialer.go:347` leaves aside.
- Without its condition on `httpVersion` `WrittenInOrder` fails: over HTTP/1.1 the hook fires at
  `dialer.go:391`, before the write at `dialer.go:422`, so nothing puts the POSTs in order, although
  the comment at `client.go:580` says that the wait does. Reordering is left to the server's heap.
- Over HTTP/1.1 PostPacket returns nil when a connection has taken the request, its answer is read by
  a later POST on that connection; the comment at `client.go:552` takes nil for a 200 in both cases.
- Between the store and the check in Set, a Read that began after Close can load the body
  (`dialer.go:490`).
- A priority task that finds its tunnel not ready is put back with its own mark still set, and
  enqueueTask refuses it; the mark stays. Such a tunnel is not tested by later TestNow calls
  (`wireguard/endpoint.go:168`) or cycles, only by a test of its group, although the comment at
  `outbound_monitoring.go:482` says that it will be retested. `MarkedIsTested` therefore asks that
  the outbound is ready.
- The retry of a group test can carry the cycleID of a stage's retry; enqueueTask then refuses the
  stage's, runStage waits for ever and no cycle starts again. `CycleEnds` leaves group tests out.
- A test that panicked has no time, so its outbound is due again at once: applyResult sets the time
  of a failed test in the history (`outbound_monitoring.go:868`) and then assigns the outcome's own
  (`outbound_monitoring.go:877`).
- InvalidateTest does not Touch, so before the first Touch its task waits for workers that nobody
  has started. The mark of an outbound is set before its queue is found full, and stays.
- NewPacketConnection does not call onClose when reporting the handshake fails, NewConnection does.
  CloseAll alone does not end a relay whose download is over, as it closes the remote end only.
- A success that resets `consecFails` and then `degraded` can take away a flag set in between; the
  next failure sets it again, as the counter is past the threshold. Flows that shed one another for
  ever, each counted while the next looks, are possible and left out of `HealthFollowsServer`.

## Not modelled

In the XHTTP transport: the building of requests, how mode and HTTP version are chosen, the wake-up
probe, which changes no state of the pool; `streamSlots` and the upload budget, which are never
set; which pooled connection an HTTP/1.1 upload takes; ReadMultiBufferTimeout, ReturnAnError and
discardOverflow of the pipe, which the client does not use; the end of the whole server.
In the DNS transports: message encoding; the TCP retry of a truncated answer and the TCP transport,
which use a connection of their own. In the connection manager: what a dial does inside, and the
translation of destinations. In the monitor: what a test measures, history and its cache, the
broadcaster's subscriptions; InterfaceUpdated, which nothing calls; the stop and start of the
ticker within one call.
The groups, the DNS client, the component managers, the network manager and the cache file have no
module; the inventory says what one would be about. The rest of the repository is third-party code,
wire formats, platform glue and configuration; PROJECT.json lists every component with the reason.

The components of the transport are checked separately. XhttpSession and UploadQueue overlap in
the queue's mutex and channel, XmuxManager and PacketUp in the send loop; in each pair one module
has the full behaviour and the other the part that its properties need.

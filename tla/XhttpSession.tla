---------------------------- MODULE XhttpSession ----------------------------
(***************************************************************************)
(* The sessions of the XHTTP server (server.go): the handlers of the POST  *)
(* and GET requests that carry one session id find or create the session,  *)
(* the GET handler serves the connection, and the session is removed when  *)
(* the GET ends or, if no GET came, by the reaper after 30 seconds.        *)
(*                                                                         *)
(* A session object is a member of Sessions: after a removal, a late       *)
(* request with the same id creates another one.  Of the upload queue only *)
(* the channel, its mutex and the closed flag are kept (the module         *)
(* UploadQueue has the rest); a Push keeps the mutex while it waits for    *)
(* room in the channel, a Close holds it in a single step.                 *)
(***************************************************************************)
EXTENDS Naturals

CONSTANTS
  Sessions,      \* the httpSession objects (a bound)
  Posts, Gets,   \* the handlers of packet-up POSTs and of GETs
  None,
  MaxPackets,    \* scMaxBufferedPosts
  ReaderStops    \* the upload copy of a connection can end before its close

ASSUME NoneAssumption == None \notin Sessions \cup Posts
ASSUME HandlerAssumption == Posts \cap Gets = {}
ASSUME PacketAssumption == MaxPackets \in Nat /\ ReaderStops \in BOOLEAN

VARIABLES
  current,    \* s.sessions for the session id
  created,    \* the session objects so far
  deleted,    \* the session objects taken out of s.sessions
  connected,  \* the sessions with a closed isFullyConnected
  reaper,     \* the reaper goroutine of a session
  chan,       \* the number of packets in pushedPackets
  mutex,      \* the Push that holds writeCloseMutex
  closed,     \* the sessions whose queue is closed
  hpc, hs,    \* a request handler and its session
  finished,   \* the GETs whose response stream (httpSC) is closed
  reading,    \* the GETs whose connection is read by the route
  route       \* what the route does with the connection of a GET

queueVars == <<chan, mutex, closed>>
mapVars == <<current, created, deleted, connected, reaper>>
handlerVars == <<hpc, hs>>
routeVars == <<finished, reading, route>>
vars == <<mapVars, queueVars, handlerVars, routeVars>>

Handlers == Posts \cup Gets

Init ==
  /\ current = None
  /\ created = {}
  /\ deleted = {}
  /\ connected = {}
  /\ reaper = [s \in Sessions |-> "none"]
  /\ chan = [s \in Sessions |-> 0]
  /\ mutex = [s \in Sessions |-> None]
  /\ closed = {}
  /\ hpc = [h \in Handlers |-> "start"]
  /\ hs = [h \in Handlers |-> None]
  /\ finished = {}
  /\ reading = {}
  /\ route = [g \in Gets |-> "none"]

-----------------------------------------------------------------------------
(* upsertSession *)

\* A handler continues with session s.
Found(h, s) ==
  /\ hs' = [hs EXCEPT ![h] = s]
  /\ hpc' = [hpc EXCEPT ![h] = IF h \in Posts THEN "push" ELSE "connect"]

\* The fast path: a Load without the lock.
UpsertFast(h) ==
  /\ hpc[h] = "start"
  /\ IF current # None
     THEN Found(h, current)
     ELSE hpc' = [hpc EXCEPT ![h] = "slow"] /\ hs' = hs
  /\ UNCHANGED <<mapVars, queueVars, routeVars>>

Create(h, s) ==
  /\ s \in Sessions \ created
  /\ created' = created \cup {s}
  /\ current' = s
  /\ reaper' = [reaper EXCEPT ![s] = "wait"]
  /\ Found(h, s)
  /\ UNCHANGED <<deleted, connected>>

UpsertUnchecked(h) ==
  /\ hpc[h] = "slow"
  /\ \E s \in Sessions : Create(h, s)
  /\ UNCHANGED <<queueVars, routeVars>>

\* The slow path under sessionMu, with the second Load.
UpsertSlow(h) ==
  /\ hpc[h] = "slow"
  /\ IF current # None
     THEN Found(h, current) /\ UNCHANGED mapVars
     ELSE \E s \in Sessions : Create(h, s)
  /\ UNCHANGED <<queueVars, routeVars>>

\* s.sessions.Delete(sessionId), whatever session is there.
Delete ==
  /\ deleted' = deleted \cup ({current} \ {None})
  /\ current' = None

-----------------------------------------------------------------------------
(* The upload queue *)

CloseQueue(s) ==
  /\ mutex[s] = None
  /\ closed' = closed \cup {s}
  /\ chan' = [chan EXCEPT ![s] = 0]
  /\ mutex' = mutex

\* Push takes the mutex, or is refused.
Push(p) ==
  /\ hpc[p] = "push"
  /\ mutex[hs[p]] = None
  /\ IF hs[p] \in closed
     THEN hpc' = [hpc EXCEPT ![p] = "refused"] /\ mutex' = mutex
     ELSE hpc' = [hpc EXCEPT ![p] = "send"] /\ mutex' = [mutex EXCEPT ![hs[p]] = p]
  /\ UNCHANGED <<mapVars, chan, closed, hs, routeVars>>

\* The send on the channel and the unlock; the handler answers 200.
Send(p) ==
  /\ hpc[p] = "send"
  /\ chan[hs[p]] < MaxPackets
  /\ chan' = [chan EXCEPT ![hs[p]] = @ + 1]
  /\ mutex' = [mutex EXCEPT ![hs[p]] = None]
  /\ hpc' = [hpc EXCEPT ![p] = "ok"]
  /\ UNCHANGED <<mapVars, closed, hs, routeVars>>

\* The POST ends before its Push: bad body, size or number.
PostRejected(p) ==
  /\ hpc[p] = "push"
  /\ hpc' = [hpc EXCEPT ![p] = "refused"]
  /\ UNCHANGED <<mapVars, queueVars, hs, routeVars>>

-----------------------------------------------------------------------------
(* The GET handler and the connection it serves *)

\* isFullyConnected.Close(), then NewConnectionEx gives the connection to
\* the route.
Connect(g) ==
  /\ hpc[g] = "connect"
  /\ connected' = connected \cup {hs[g]}
  /\ reaper' = [reaper EXCEPT ![hs[g]] = IF @ = "wait" THEN "off" ELSE @]
  /\ hpc' = [hpc EXCEPT ![g] = "serve"]
  /\ reading' = reading \cup {g}
  /\ route' = [route EXCEPT ![g] = "run"]
  /\ UNCHANGED <<current, created, deleted, queueVars, hs, finished>>

RouteReads(g) ==
  /\ g \in reading
  /\ chan[hs[g]] > 0
  /\ chan' = [chan EXCEPT ![hs[g]] = @ - 1]
  /\ UNCHANGED <<mapVars, mutex, closed, handlerVars, routeVars>>

\* The route closes the connection: first its writer, then its reader.  The
\* upload copy may have ended before, or goes on until the queue is closed.
RouteEnds(g) ==
  /\ route[g] = "run"
  /\ route' = [route EXCEPT ![g] = "close"]
  /\ finished' = finished \cup {g}
  /\ reading' \in {reading} \cup (IF ReaderStops THEN {reading \ {g}} ELSE {})
  /\ UNCHANGED <<mapVars, queueVars, handlerVars>>

RouteCloses(g) ==
  /\ route[g] = "close"
  /\ CloseQueue(hs[g])
  /\ route' = [route EXCEPT ![g] = "done"]
  /\ UNCHANGED <<mapVars, handlerVars, finished, reading>>

\* The request is cancelled or the response stream was closed; conn.Close
\* closes the writer.
GetEnds(g) ==
  /\ hpc[g] = "serve"
  /\ hpc' = [hpc EXCEPT ![g] = "close"]
  /\ finished' = finished \cup {g}
  /\ UNCHANGED <<mapVars, queueVars, hs, reading, route>>

GetCloses(g) ==
  /\ hpc[g] = "close"
  /\ CloseQueue(hs[g])
  /\ hpc' = [hpc EXCEPT ![g] = "delete"]
  /\ UNCHANGED <<mapVars, hs, routeVars>>

GetDeletesNothing(g) ==
  /\ hpc[g] = "delete"
  /\ hpc' = [hpc EXCEPT ![g] = "done"]
  /\ UNCHANGED <<mapVars, queueVars, hs, routeVars>>

\* The deferred Delete.
GetDeletes(g) ==
  /\ hpc[g] = "delete"
  /\ Delete
  /\ hpc' = [hpc EXCEPT ![g] = "done"]
  /\ UNCHANGED <<created, connected, reaper, queueVars, hs, routeVars>>

-----------------------------------------------------------------------------
(* The reaper of a session *)

\* The 30 seconds are over before a GET connected.
ReapFires(s) ==
  /\ reaper[s] = "wait"
  /\ reaper' = [reaper EXCEPT ![s] = "delete"]
  /\ UNCHANGED <<current, created, deleted, connected, queueVars, handlerVars, routeVars>>

ReapDeletesOnly(s) ==
  /\ reaper[s] = "delete"
  /\ Delete
  /\ reaper' = [reaper EXCEPT ![s] = "done"]
  /\ UNCHANGED <<created, connected, queueVars, handlerVars, routeVars>>

ReapDeletes(s) ==
  /\ reaper[s] = "delete"
  /\ Delete
  /\ reaper' = [reaper EXCEPT ![s] = "close"]
  /\ UNCHANGED <<created, connected, queueVars, handlerVars, routeVars>>

ReapCloses(s) ==
  /\ reaper[s] = "close"
  /\ CloseQueue(s)
  /\ reaper' = [reaper EXCEPT ![s] = "done"]
  /\ UNCHANGED <<current, created, deleted, connected, handlerVars, routeVars>>

HandlerSteps(h) ==
  \/ UpsertSlow(h)
  \/ h \in Posts /\ (Push(h) \/ Send(h))
  \/ h \in Gets /\ (Connect(h) \/ GetEnds(h) \/ GetCloses(h) \/ GetDeletes(h))

RouteSteps(g) == RouteReads(g) \/ RouteCloses(g)
ReaperSteps(s) == ReapFires(s) \/ ReapDeletes(s) \/ ReapCloses(s)

Next ==
  \/ \E h \in Handlers : UpsertFast(h) \/ HandlerSteps(h)
  \/ \E p \in Posts : PostRejected(p)
  \/ \E g \in Gets : RouteSteps(g) \/ RouteEnds(g)
  \/ \E s \in Sessions : ReaperSteps(s)

Spec == Init /\ [][Next]_vars

\* Handlers, routes and reapers go on, the reader takes what is there, and
\* every GET ends.
LiveSpec ==
  /\ Spec
  /\ \A h \in Handlers : WF_vars(HandlerSteps(h))
  /\ \A p \in Posts : SF_vars(Push(p))
  /\ \A g \in Gets : WF_vars(RouteReads(g)) /\ SF_vars(GetCloses(g)) /\ SF_vars(RouteCloses(g))
  /\ \A s \in Sessions : WF_vars(ReaperSteps(s)) /\ SF_vars(ReapCloses(s))

-----------------------------------------------------------------------------
(* Properties *)

\* The variables have their types; the channel keeps its capacity.
TypeOK ==
  /\ current \in Sessions \cup {None}
  /\ created \subseteq Sessions /\ deleted \subseteq Sessions
  /\ connected \subseteq Sessions /\ closed \subseteq Sessions
  /\ reaper \in [Sessions -> {"none", "wait", "off", "delete", "close", "done"}]
  /\ chan \in [Sessions -> 0..MaxPackets]
  /\ mutex \in [Sessions -> Posts \cup {None}]
  /\ hpc \in [Handlers -> {"start", "slow", "push", "send", "ok", "refused",
                           "connect", "serve", "close", "delete", "done"}]
  /\ hs \in [Handlers -> Sessions \cup {None}]
  /\ finished \subseteq Gets /\ reading \subseteq Gets
  /\ route \in [Gets -> {"none", "run", "close", "done"}]

\* Requests that arrive together share one session: a session that is not
\* the current one has been taken out of the map, never replaced in it
\* (the double check of upsertSession).
OneSession == created \subseteq deleted \cup {current}

\* A session that left the map is cut off for good: its queue is closed, or
\* a reaper or a GET is about to close it.  No packet stays behind in a
\* queue that nobody reads or closes.
DeletedIsClosed ==
  \A s \in deleted :
    \/ s \in closed
    \/ reaper[s] \in {"wait", "delete", "close"}
    \/ \E g \in Gets : hs[g] = s /\ hpc[g] \in {"connect", "serve", "close"}

\* A Push waits for room in the full channel of s and keeps the mutex.
Clogged(s) == chan[s] = MaxPackets /\ mutex[s] # None

\* Every session ends: it leaves the map and its queue is closed, by the GET
\* or by the reaper.  The one thing that keeps a session is a Push that
\* waits for room for ever and does not let the Close in.
SessionsEnd ==
  \A s \in Sessions : s \in created ~> \/ s # current /\ s \in closed
                                     \/ []Clogged(s)

\* When a GET is over, its handler removes the session and returns (the
\* same comment: the removal is handled in defer).
GetReturns == \A g \in Gets : hpc[g] = "close" ~> hpc[g] = "done"
=============================================================================

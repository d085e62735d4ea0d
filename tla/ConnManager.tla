----------------------------- MODULE ConnManager -----------------------------
(***************************************************************************)
(* The connection manager of the router (route/conn.go): the budget of     *)
(* concurrent dials that an outbound has after a run of failures, the cap  *)
(* on all dials, and the relaying of a connection in two goroutines until  *)
(* both ends are closed.                                                   *)
(*                                                                         *)
(* A flow is a goroutine in NewConnection up to the end of its dial, and   *)
(* then the goroutine of a later connection.  A relay is a connection from *)
(* the end of its dial on; of a relay the network connection that          *)
(* TrackConn registered is called remote, the other one local.  Every      *)
(* operation on one of the atomics is an action of its own.                *)
(***************************************************************************)
EXTENDS Integers, FiniteSets

CONSTANTS
  Loads,       \* what a behaviour is about: its flows, the plain ones of them, its relays
  DialCap,     \* maxConcurrentDials
  Budget,      \* degradedDialBudget
  Threshold    \* cbFailThreshold

ASSUME ManagerAssumption ==
  /\ DialCap \in Nat \ {0} /\ Budget \in Nat \ {0} /\ Threshold \in Nat \ {0}
  /\ \A l \in Loads : l.plain \subseteq l.flows /\ IsFiniteSet(l.flows)

VARIABLES
  load,        \* the load of this behaviour
  up,          \* the server of the outbound answers
  pc,          \* where a flow is
  result,      \* how its dial ended
  dialing,     \* the places taken in dialSem
  inFlight,    \* outboundHealth.inFlight
  degraded,    \* outboundHealth.degraded
  consecFails, \* outboundHealth.consecFails, counted up to one past the threshold
  relay,       \* the relays
  connections, \* the relays in m.connections
  closers      \* the relays whose remote a CloseAll is about to close

flowVars == <<pc, result, dialing, inFlight, degraded, consecFails>>
relayVars == <<relay, connections, closers>>
vars == <<load, up, flowVars, relayVars>>

Free == [kind |-> "none", stage |-> "free", local |-> "closed", remote |-> "closed",
         done |-> FALSE, calls |-> 0, up |-> "none", down |-> "none"]

Init ==
  /\ load \in Loads
  /\ up \in BOOLEAN
  /\ pc = [f \in load.flows |-> "idle"]
  /\ result = [f \in load.flows |-> "none"]
  /\ dialing = 0
  /\ inFlight = 0
  /\ degraded = FALSE
  /\ consecFails = 0
  /\ relay = [r \in load.relays |-> Free]
  /\ connections = {}
  /\ closers = {}

-----------------------------------------------------------------------------
(* The dial of NewConnection.  All flows but the plain ones dial through one *)
(* outbound; a plain dialer has no health.                                   *)

Plain(f) == f \in load.plain

Goto(f, s) == pc' = [pc EXCEPT ![f] = s]

\* tryAcquireSlot counts the flow.  Up to the budget it has its slot at once;
\* above it the flow has yet to look at degraded.
NewConnection(f) ==
  /\ pc[f] = "idle"
  /\ IF Plain(f)
     THEN Goto(f, "cap") /\ UNCHANGED inFlight
     ELSE /\ inFlight' = inFlight + 1
          /\ Goto(f, IF inFlight + 1 > Budget THEN "over" ELSE "cap")
  /\ UNCHANGED <<load, up, result, dialing, degraded, consecFails, relayVars>>

\* The second half of tryAcquireSlot.
OverBudget(f) ==
  /\ pc[f] = "over"
  /\ Goto(f, IF degraded THEN "shed" ELSE "cap")
  /\ UNCHANGED <<load, up, result, dialing, inFlight, degraded, consecFails, relayVars>>

\* The flow is not counted any more; its connection is closed.
Shed(f) ==
  /\ pc[f] = "shed"
  /\ inFlight' = inFlight - 1
  /\ Goto(f, "idle")
  /\ UNCHANGED <<load, up, result, dialing, degraded, consecFails, relayVars>>

tryAcquireDial(f) ==
  /\ pc[f] = "cap"
  /\ dialing < DialCap
  /\ dialing' = dialing + 1
  /\ Goto(f, "dial")
  /\ UNCHANGED <<load, up, result, inFlight, degraded, consecFails, relayVars>>

\* All dials are taken: the slot goes back and the connection is closed.
Drop(f) ==
  /\ pc[f] = "cap"
  /\ dialing = DialCap
  /\ inFlight' = IF Plain(f) THEN inFlight ELSE inFlight - 1
  /\ Goto(f, "idle")
  /\ UNCHANGED <<load, up, result, dialing, degraded, consecFails, relayVars>>

\* The dial returns and gives its place in dialSem back.
DialReturns(f, res) ==
  /\ pc[f] = "dial"
  /\ ~Plain(f) => res \in {IF up THEN "ok" ELSE "failed", "canceled"}
  /\ dialing' = dialing - 1
  /\ result' = [result EXCEPT ![f] = res]
  /\ Goto(f, IF Plain(f) THEN "end" ELSE "release")
  /\ UNCHANGED <<load, up, inFlight, degraded, consecFails, relayVars>>

ReleaseTwice(f) ==
  /\ pc[f] = "release"
  /\ inFlight' = inFlight - (IF result[f] = "canceled" THEN 2 ELSE 1)
  /\ Goto(f, IF result[f] = "canceled" THEN "end" ELSE "health")
  /\ UNCHANGED <<load, up, result, dialing, degraded, consecFails, relayVars>>

releaseSlot(f) ==
  /\ pc[f] = "release"
  /\ inFlight' = inFlight - 1
  /\ Goto(f, IF result[f] = "canceled" THEN "end" ELSE "health")
  /\ UNCHANGED <<load, up, result, dialing, degraded, consecFails, relayVars>>

CountAtThreshold(f) ==
  /\ pc[f] = "health"
  /\ consecFails' = IF result[f] = "ok" THEN 0
                    ELSE IF consecFails > Threshold THEN consecFails ELSE consecFails + 1
  /\ Goto(f, IF result[f] = "failed" /\ consecFails + 1 # Threshold THEN "end" ELSE "mark")
  /\ UNCHANGED <<load, up, result, dialing, inFlight, degraded, relayVars>>

\* updateHealthAfterDial: first the counter, ...
CountResult(f) ==
  /\ pc[f] = "health"
  /\ consecFails' = IF result[f] = "ok" THEN 0
                    ELSE IF consecFails > Threshold THEN consecFails ELSE consecFails + 1
  /\ Goto(f, IF result[f] = "failed" /\ consecFails + 1 < Threshold THEN "end" ELSE "mark")
  /\ UNCHANGED <<load, up, result, dialing, inFlight, degraded, relayVars>>

\* ... then the flag: a success takes it away, a failure past the threshold sets it.
MarkResult(f) ==
  /\ pc[f] = "mark"
  /\ degraded' = (result[f] = "failed")
  /\ Goto(f, "end")
  /\ UNCHANGED <<load, up, result, dialing, inFlight, consecFails, relayVars>>

-----------------------------------------------------------------------------
(* The relay *)

\* TrackConn: a new remote joins the list.
Track(r, kind) ==
  /\ relay[r].stage = "free"
  /\ r \notin closers
  /\ relay' = [relay EXCEPT ![r] = [Free EXCEPT !.kind = kind, !.stage = "handshake",
                                               !.local = "open", !.remote = "open"]]
  /\ connections' = connections \cup {r}
  /\ UNCHANGED closers

\* NewConnection goes on with a relay, unless its dial failed or the relay is
\* not one of those that the behaviour follows.
EndDial(f) ==
  /\ pc[f] = "end"
  /\ Goto(f, "idle")
  /\ result' = [result EXCEPT ![f] = "none"]
  /\ \/ result[f] = "ok" /\ \E r \in load.relays : Track(r, "tcp")
     \/ UNCHANGED relayVars
  /\ UNCHANGED <<load, up, dialing, inFlight, degraded, consecFails>>

\* NewPacketConnection has no budget and no cap.
NewPacketConnection(r) == Track(r, "udp") /\ UNCHANGED <<load, up, flowVars>>

\* A relay becomes s.  A remote that s has closed leaves the list: trackedConn.Close.
Become(r, s) ==
  /\ relay' = [relay EXCEPT ![r] = s]
  /\ connections' = IF s.remote = "closed" THEN connections \ {r} ELSE connections
  /\ UNCHANGED <<load, up, flowVars, closers>>

BothClosed(s) == [s EXCEPT !.local = "closed", !.remote = "closed"]

\* The handshake is reported, for TCP the early data written; or one of these
\* fails and both ends are closed.  NewPacketConnection then does not call onClose.
HandshakeDone(r) ==
  /\ relay[r].stage = "handshake"
  /\ Become(r, [relay[r] EXCEPT !.stage = "copy", !.up = "copy", !.down = "copy"])

HandshakeFails(r) ==
  /\ relay[r].stage = "handshake"
  /\ Become(r, [BothClosed(relay[r]) EXCEPT !.stage = "over",
                                           !.calls = IF relay[r].kind = "tcp" THEN 1 ELSE 0])

Directions == {"up", "down"}
Source(d) == IF d = "up" THEN "local" ELSE "remote"
Destination(d) == IF d = "up" THEN "remote" ELSE "local"

Copying(r, d) == relay[r].stage = "copy" /\ relay[r][d] = "copy"

\* A copy of connectionCopy ends with an error, or at the end of its source; then
\* the destination is closed for writing, as a whole if it cannot be otherwise.
CopyFails(r, d) ==
  /\ Copying(r, d)
  /\ relay[r].kind = "tcp"
  /\ Become(r, [BothClosed(relay[r]) EXCEPT ![d] = "ended"])

CopyEnds(r, d) ==
  /\ Copying(r, d)
  /\ relay[r].kind = "tcp"
  /\ relay[r].local = "open" /\ relay[r].remote = "open"
  /\ \/ Become(r, [relay[r] EXCEPT ![d] = "ended"])
     \/ Become(r, [relay[r] EXCEPT ![d] = "ended", ![Destination(d)] = "closed"])

\* CopyPacket of packetConnectionCopy returns, or its panic is recovered.
PacketCopyEnds(r, d) ==
  /\ Copying(r, d)
  /\ relay[r].kind = "udp"
  /\ Become(r, [relay[r] EXCEPT ![d] = "ended"])

\* s after direction d has left.
Left(s, d) ==
  LET t == [s EXCEPT ![d] = "left", !.done = TRUE] IN
  IF t.up = "left" /\ t.down = "left" THEN [t EXCEPT !.stage = "over"] ELSE t

FinishFirst(r, d) ==
  /\ relay[r].kind = "tcp" /\ relay[r][d] = "ended"
  /\ Become(r, IF relay[r].done
               THEN Left(BothClosed(relay[r]), d)
               ELSE Left([relay[r] EXCEPT !.calls = @ + 1], d))

\* The end of connectionCopy: the second direction calls onClose and closes both.
Finish(r, d) ==
  /\ relay[r].kind = "tcp" /\ relay[r][d] = "ended"
  /\ Become(r, IF relay[r].done
               THEN Left([BothClosed(relay[r]) EXCEPT !.calls = @ + 1], d)
               ELSE Left(relay[r], d))

PacketFinishKeeps(r, d) ==
  /\ relay[r].kind = "udp" /\ relay[r][d] = "ended"
  /\ Become(r, IF relay[r].done
               THEN Left(BothClosed(relay[r]), d)
               ELSE Left([relay[r] EXCEPT !.calls = @ + 1], d))

\* The end of packetConnectionCopy: the first one calls onClose, each closes both.
PacketFinish(r, d) ==
  /\ relay[r].kind = "udp" /\ relay[r][d] = "ended"
  /\ Become(r, Left([BothClosed(relay[r]) EXCEPT !.calls = IF relay[r].done THEN @ ELSE @ + 1], d))

\* The relay is forgotten, and r may stand for another one.
Forget(r) ==
  /\ relay[r].stage = "over"
  /\ Become(r, Free)

\* CloseAll empties the list under the lock and closes what was in it afterwards.
CloseAll ==
  /\ connections # {}
  /\ closers' = closers \cup connections
  /\ connections' = {}
  /\ UNCHANGED <<load, up, flowVars, relay>>

CloseTracked(r) ==
  /\ r \in closers
  /\ closers' = closers \ {r}
  /\ relay' = [relay EXCEPT ![r].remote = "closed"]
  /\ UNCHANGED <<load, up, flowVars, connections>>

-----------------------------------------------------------------------------
(* The manager *)

FlowStep(f) ==
  \/ OverBudget(f) \/ Shed(f) \/ tryAcquireDial(f) \/ Drop(f)
  \/ \E res \in {"ok", "failed", "canceled"} : DialReturns(f, res)
  \/ releaseSlot(f) \/ CountResult(f) \/ MarkResult(f) \/ EndDial(f)

CopyStep(r, d) ==
  \/ CopyFails(r, d) \/ CopyEnds(r, d) \/ Finish(r, d)
  \/ PacketCopyEnds(r, d) \/ PacketFinish(r, d)

RelayStep(r) ==
  \/ NewPacketConnection(r) \/ HandshakeDone(r) \/ HandshakeFails(r) \/ Forget(r) \/ CloseTracked(r)
  \/ \E d \in Directions : CopyStep(r, d)

\* The server of the outbound goes away or comes back.
ServerChanges ==
  /\ up' = ~up
  /\ UNCHANGED <<load, flowVars, relayVars>>

Next ==
  \/ \E f \in load.flows : NewConnection(f) \/ FlowStep(f)
  \/ \E r \in load.relays : RelayStep(r)
  \/ CloseAll
  \/ ServerChanges

Spec == Init /\ [][Next]_vars

\* A copy may go on for ever as long as its source is open.
CopyMustEnd(r, d) ==
  /\ Copying(r, d) => relay[r][Source(d)] = "closed"
  /\ CopyStep(r, d)

\* Goroutines run and dials end.  If dials could succeed again and again then
\* some do: they are not all cancelled.
Fairness ==
  /\ \A f \in UNION {l.flows : l \in Loads} : WF_vars(f \in load.flows /\ FlowStep(f))
  /\ SF_vars(\E f \in load.flows \ load.plain : DialReturns(f, "ok"))
  /\ \A r \in UNION {l.relays : l \in Loads} :
       /\ WF_vars(r \in load.relays /\ CloseTracked(r))
       /\ WF_vars(r \in load.relays /\ (HandshakeDone(r) \/ HandshakeFails(r)))
       /\ \A d \in Directions : WF_vars(r \in load.relays /\ CopyMustEnd(r, d))

LiveSpec == Spec /\ Fairness

-----------------------------------------------------------------------------
(* Properties *)

\* The variables keep their types.
TypeOK ==
  /\ load \in Loads /\ up \in BOOLEAN /\ degraded \in BOOLEAN
  /\ pc \in [load.flows -> {"idle", "over", "shed", "cap", "dial", "release", "health", "mark", "end"}]
  /\ result \in [load.flows -> {"none", "ok", "failed", "canceled"}]
  /\ dialing \in 0 .. DialCap
  /\ inFlight \in 0 .. Cardinality(load.flows)
  /\ consecFails \in 0 .. Threshold + 1
  /\ connections \subseteq load.relays /\ closers \subseteq load.relays

\* The flows that have a slot of the outbound's budget.
Holding == {f \in load.flows \ load.plain : pc[f] \in {"cap", "dial", "release"}}

\* While the outbound is degraded no flow gets a slot beyond the budget, whatever
\* is counted and taken back meanwhile (conn.go:162).
DegradedAdmission ==
  [][degraded /\ ~(Holding' \subseteq Holding) => Cardinality(Holding') <= Budget]_vars

\* The degraded flag follows the server.  It heals: if the server answers from
\* some time on and connections keep coming, the outbound is in the end not
\* degraded; a slot that leaks would shed them all (conn.go:172).  Flows that shed
\* one another for ever, each counted while the next one is, are left out.  And a
\* storm is noticed: if the server is gone from some time on and dials keep
\* failing, the outbound is in the end degraded, although a success from before
\* may have taken the flag away after it was set (conn.go:410, 423).
HealthFollowsServer ==
  /\ (/\ <>[]up
      /\ []<>(\E f \in load.flows \ load.plain : pc[f] # "idle")
      /\ []<>(\A f \in load.flows : pc[f] \notin {"over", "shed"})
      => <>[]~degraded)
  /\ (/\ <>[]~up
      /\ []<>(\E f \in load.flows : ~Plain(f) /\ pc[f] = "health" /\ result[f] = "failed")
      => <>[]degraded)

\* onClose is called once, and a relay that is over has closed both ends; only a
\* packet connection whose handshake could not be reported ends without it
\* (conn.go:503).  For TCP no direction still copies when it is called.
OnCloseOnce ==
  \A r \in load.relays :
    /\ relay[r].calls <= 1
    /\ relay[r].stage = "over" =>
         /\ relay[r].local = "closed" /\ relay[r].remote = "closed"
         /\ relay[r].calls = 1 \/ (relay[r].kind = "udp" /\ relay[r].up = "none")
    /\ relay[r].kind = "tcp" /\ relay[r].calls = 1 => ~\E d \in Directions : Copying(r, d)

\* A relay comes to its end once a direction finds its source closed, by a
\* peer, by the other direction or by CloseAll; one of packets as soon as a
\* direction has ended (conn.go:566, 704).  CloseAll alone does not end a relay
\* whose download is over: its upload waits for the local end.
RelayEnds ==
  \A r \in UNION {l.relays : l \in Loads} :
    (/\ r \in load.relays
     /\ relay[r].stage = "copy"
     /\ \E d \in Directions :
          \/ Copying(r, d) /\ relay[r][Source(d)] = "closed"
          \/ ~Copying(r, d) /\ relay[r].kind = "udp")
      ~> (r \in load.relays /\ relay[r].stage = "over")

=============================================================================

------------------------- MODULE Outbounds_proofs --------------------------
(***************************************************************************)
(* Proofs about the two modules that deal with outbounds: ConnManager, for *)
(* any number of flows and relays, any budget, cap and threshold; and      *)
(* Monitoring, for any number of outbounds, workers, cycles and requests,  *)
(* and any capacity of its queues.                                         *)
(***************************************************************************)
EXTENDS ConnManager, Monitoring, FiniteSetTheorems, TLAPS

-----------------------------------------------------------------------------
(* ConnManager: the dials *)

FlowPcs == {"idle", "over", "shed", "cap", "dial", "release", "health", "mark", "end"}
CountedPcs == {"over", "shed", "cap", "dial", "release"}

\* The flows that the outbound's inFlight and the cap's dialSem count.
Counted == {f \in load.flows \ load.plain : pc[f] \in CountedPcs}
Dialling == {f \in load.flows : pc[f] = "dial"}

\* The counters are the numbers of flows that hold a slot and a dial: none
\* leaks on any path of NewConnection, and none is given back twice.
CountersExact ==
  /\ inFlight = Cardinality(Counted)
  /\ dialing = Cardinality(Dialling) /\ dialing <= DialCap

FlowInv ==
  /\ load \in Loads
  /\ pc \in [load.flows -> FlowPcs]
  /\ \A f \in load.plain : pc[f] \notin {"over", "shed", "release"}
  /\ CountersExact

\* The flows that hold a slot of the pool are finitely many.
LEMMA FlowsFinite ==
  ASSUME FlowInv
  PROVE  /\ IsFiniteSet(load.flows) /\ load.plain \subseteq load.flows
         /\ IsFiniteSet(Counted) /\ IsFiniteSet(Dialling)
         /\ Cardinality(Counted) \in Nat /\ Cardinality(Dialling) \in Nat
<1>1. IsFiniteSet(load.flows) /\ load.plain \subseteq load.flows
  BY ManagerAssumption DEF FlowInv
<1>2. Counted \subseteq load.flows /\ Dialling \subseteq load.flows
  BY DEF Counted, Dialling
<1>3. QED
  BY <1>1, <1>2, FS_Subset, FS_CardinalityType

\* A set with an element more or less: acquiring and releasing a slot.
LEMMA Sizes ==
  ASSUME NEW S, IsFiniteSet(S), NEW x
  PROVE  /\ Cardinality(S \cup {x}) = Cardinality(S) + (IF x \in S THEN 0 ELSE 1)
         /\ Cardinality(S \ {x}) = Cardinality(S) - (IF x \in S THEN 1 ELSE 0)
BY FS_AddElement, FS_RemoveElement, FS_CardinalityType

\* A flow goes to s: how the two sets change, and their sizes.
LEMMA FlowMoves ==
  ASSUME FlowInv, NEW f \in load.flows, NEW s \in FlowPcs, Goto(f, s), load' = load
  PROVE  /\ pc' \in [load.flows -> FlowPcs]
         /\ \A g \in load.flows \ {f} : pc'[g] = pc[g]
         /\ pc'[f] = s
         /\ Cardinality(Counted') =
              Cardinality(Counted)
              + (IF ~Plain(f) /\ s \in CountedPcs THEN 1 ELSE 0)
              - (IF ~Plain(f) /\ pc[f] \in CountedPcs THEN 1 ELSE 0)
         /\ Cardinality(Dialling') =
              Cardinality(Dialling) + (IF s = "dial" THEN 1 ELSE 0) - (IF pc[f] = "dial" THEN 1 ELSE 0)
<1>1. /\ pc' \in [load.flows -> FlowPcs]
      /\ \A g \in load.flows \ {f} : pc'[g] = pc[g]
      /\ pc'[f] = s
  BY DEF Goto, FlowInv
<1>2. Counted' = IF ~Plain(f) /\ s \in CountedPcs THEN Counted \cup {f} ELSE Counted \ {f}
  BY <1>1 DEF Counted, Plain
<1>3. Dialling' = IF s = "dial" THEN Dialling \cup {f} ELSE Dialling \ {f}
  BY <1>1 DEF Dialling
<1>4. f \in Counted <=> ~Plain(f) /\ pc[f] \in CountedPcs
  BY DEF Counted, Plain
<1>5. f \in Dialling <=> pc[f] = "dial"
  BY DEF Dialling
<1>6. /\ Cardinality(Counted \cup {f}) = Cardinality(Counted) + (IF f \in Counted THEN 0 ELSE 1)
      /\ Cardinality(Counted \ {f}) = Cardinality(Counted) - (IF f \in Counted THEN 1 ELSE 0)
      /\ Cardinality(Dialling \cup {f}) = Cardinality(Dialling) + (IF f \in Dialling THEN 0 ELSE 1)
      /\ Cardinality(Dialling \ {f}) = Cardinality(Dialling) - (IF f \in Dialling THEN 1 ELSE 0)
  BY FlowsFinite, Sizes, Zenon
<1>7. QED
  BY <1>1, <1>2, <1>3, <1>4, <1>5, <1>6, FlowsFinite


\* A flow goes to s, and the counters with it.
CountedMove(f, s) ==
  /\ Goto(f, s)
  /\ Plain(f) => s \notin {"over", "shed", "release"}
  /\ inFlight' = inFlight + (IF ~Plain(f) /\ s \in CountedPcs THEN 1 ELSE 0)
                          - (IF ~Plain(f) /\ pc[f] \in CountedPcs THEN 1 ELSE 0)
  /\ dialing' = dialing + (IF s = "dial" THEN 1 ELSE 0) - (IF pc[f] = "dial" THEN 1 ELSE 0)
  /\ dialing' <= DialCap

\* A flow in NewConnection keeps the counters exact.
LEMMA FlowKeeps ==
  ASSUME FlowInv, NEW f \in load.flows, NewConnection(f) \/ FlowStep(f)
  PROVE  FlowInv'
<1> USE ManagerAssumption
<1>1. load' = load
  BY DEF NewConnection, FlowStep, OverBudget, Shed, tryAcquireDial, Drop, DialReturns,
     releaseSlot,
         CountResult, MarkResult, EndDial
<1>2. /\ load \in Loads /\ load.plain \subseteq load.flows
      /\ pc \in [load.flows -> FlowPcs]
      /\ \A g \in load.plain : pc[g] \notin {"over", "shed", "release"}
      /\ inFlight = Cardinality(Counted) /\ dialing = Cardinality(Dialling) /\ dialing <= DialCap
      /\ Cardinality(Counted) \in Nat /\ Cardinality(Dialling) \in Nat
      /\ pc[f] \in FlowPcs
  BY FlowsFinite DEF FlowInv, CountersExact
<1>3. SUFFICES \E s \in FlowPcs : CountedMove(f, s)
  <2>1. PICK s \in FlowPcs : CountedMove(f, s)
    BY <1>3
  <2>2. /\ pc' \in [load.flows -> FlowPcs]
        /\ \A g \in load.plain : pc'[g] \notin {"over", "shed", "release"}
    BY <1>1, <1>2, <2>1, FlowMoves DEF CountedMove, Plain
  <2>3. CountersExact'
    BY <1>1, <1>2, <2>1, FlowMoves DEF CountedMove, CountersExact
  <2>4. QED
    BY <1>1, <1>2, <2>2, <2>3, Zenon DEF FlowInv
<1> USE DEF FlowPcs, CountedPcs, CountedMove
<1>4. CASE NewConnection(f)
  BY <1>2, <1>4 DEF NewConnection
<1>5. CASE OverBudget(f)
  BY <1>2, <1>5 DEF OverBudget, Plain
<1>6. CASE Shed(f)
  BY <1>2, <1>6 DEF Shed, Plain
<1>7. CASE tryAcquireDial(f)
  BY <1>2, <1>7 DEF tryAcquireDial
<1>8. CASE Drop(f)
  BY <1>2, <1>8 DEF Drop
<1>9. ASSUME NEW res, DialReturns(f, res)
      PROVE  \E s \in FlowPcs : CountedMove(f, s)
  BY <1>2, <1>9 DEF DialReturns
<1>10. CASE releaseSlot(f)
  BY <1>2, <1>10 DEF releaseSlot, Plain
<1>11. CASE CountResult(f)
  BY <1>2, <1>11 DEF CountResult
<1>12. CASE MarkResult(f) \/ EndDial(f)
  BY <1>2, <1>12 DEF MarkResult, EndDial
<1>13. QED
  BY <1>4, <1>5, <1>6, <1>7, <1>8, <1>9, <1>10, <1>11, <1>12, Zenon DEF FlowStep

\* Every step of NewConnection, of its dial and of a relay keeps the account
\* of the slots.
LEMMA FlowStepKeeps ==
  ASSUME FlowInv, [Next]_vars
  PROVE  FlowInv'
<1>1. CASE UNCHANGED <<load, pc, dialing, inFlight>>
  BY <1>1, Zenon DEF FlowInv, CountersExact, Counted, Dialling
<1>2. ASSUME NEW r \in load.relays, RelayStep(r)
      PROVE  UNCHANGED <<load, pc, dialing, inFlight>>
  BY <1>2, Zenon DEF RelayStep, NewPacketConnection, HandshakeDone, HandshakeFails, Forget,
     CloseTracked,
               CopyStep, CopyFails, CopyEnds, Finish, PacketCopyEnds, PacketFinish, Become, flowVars
<1>3. CASE CloseAll \/ ServerChanges \/ UNCHANGED vars
  BY <1>1, <1>3, Zenon DEF CloseAll, ServerChanges, vars, flowVars
<1>4. QED
  BY <1>1, <1>2, <1>3, FlowKeeps, Zenon DEF Next

\* The account of the slots holds at every step.
LEMMA FlowInvariant == Spec => []FlowInv
<1>1. Init => FlowInv
  <2> SUFFICES ASSUME Init PROVE FlowInv
    OBVIOUS
  <2>1. load.plain \subseteq load.flows /\ load \in Loads /\ pc = [f \in load.flows |-> "idle"]
    BY ManagerAssumption, Zenon DEF Init
  <2>2. Counted = {} /\ Dialling = {}
    BY <2>1 DEF Counted, Dialling, CountedPcs
  <2>3. CountersExact
    BY <2>2, FS_EmptySet, ManagerAssumption DEF Init, CountersExact
  <2>4. QED
    BY <2>1, <2>3 DEF FlowInv, FlowPcs
<1>2. QED
  BY <1>1, FlowStepKeeps, PTL DEF Spec

\* No slot of an outbound and no place among the dials leaks, whatever way a
\* NewConnection ends, and none is given back twice (conn.go:172).
THEOREM SlotsAccounted == Spec => []CountersExact
<1>1. FlowInv => CountersExact
  BY DEF FlowInv
<1>2. QED
  BY <1>1, FlowInvariant, PTL

\* A degraded outbound admits no flow beyond its budget, for any number of flows,
\* though each one is counted before degraded is looked at (conn.go:162).
THEOREM DegradedBudget == Spec => DegradedAdmission
<1>1. ASSUME FlowInv, [Next]_vars, degraded, ~(Holding' \subseteq Holding)
      PROVE  Cardinality(Holding') <= Budget
  <2>1. PICK f \in load.flows : NewConnection(f) /\ ~Plain(f) /\ inFlight + 1 <= Budget
    <3>1. ASSUME UNCHANGED <<load, pc>> PROVE FALSE
      BY <1>1, <3>1, Zenon DEF Holding
    <3>2. ASSUME NEW r \in load.relays, RelayStep(r)
          PROVE  UNCHANGED <<load, pc>>
      BY <3>2, Zenon DEF RelayStep, NewPacketConnection, HandshakeDone, HandshakeFails, Forget,
         CloseTracked,
                   CopyStep, CopyFails, CopyEnds, Finish, PacketCopyEnds, PacketFinish, Become, flowVars
    <3>3. PICK f \in load.flows : NewConnection(f) \/ FlowStep(f)
      BY <1>1, <3>1, <3>2, Zenon DEF Next, CloseAll, ServerChanges, vars, flowVars
    <3>4. pc \in [load.flows -> FlowPcs] /\ load' = load
      BY <1>1, <3>3, Zenon DEF FlowInv, NewConnection, FlowStep, OverBudget, Shed,
         tryAcquireDial, Drop, DialReturns,
                  releaseSlot, CountResult, MarkResult, EndDial
    <3>5. ASSUME NEW s, Goto(f, s),
                 pc[f] \in {"cap", "dial", "release"} \/ s \notin {"cap", "dial", "release"}
          PROVE  FALSE
      BY <1>1, <3>4, <3>5 DEF Goto, Holding
    <3>6. ASSUME FlowStep(f) PROVE FALSE
      BY <1>1, <3>5, <3>6, Zenon DEF FlowStep, OverBudget, Shed, tryAcquireDial, Drop,
         DialReturns, releaseSlot, CountResult,
                      MarkResult, EndDial
    <3>7. NewConnection(f)
      BY <3>3, <3>6
    <3>8. ~Plain(f) /\ inFlight + 1 <= Budget
      <4>1. ASSUME Plain(f) \/ inFlight + 1 > Budget PROVE FALSE
        <5>1. CASE Plain(f)
          BY <1>1, <3>4, <3>7, <5>1 DEF NewConnection, Holding, Plain, Goto
        <5>2. CASE ~Plain(f) /\ inFlight + 1 > Budget
          BY <3>5, <3>7, <5>2, Zenon DEF NewConnection
        <5>3. QED
          BY <4>1, <5>1, <5>2
      <4>2. inFlight \in Nat
        BY <1>1, FlowsFinite DEF FlowInv, CountersExact
      <4>3. QED
        BY <4>1, <4>2, ManagerAssumption
    <3>9. QED
      BY <3>7, <3>8
  <2>2. FlowInv'
    BY <1>1, FlowStepKeeps
  <2>3. inFlight' <= Budget /\ inFlight' = Cardinality(Counted')
    BY <2>1, <2>2 DEF NewConnection, FlowInv, CountersExact
  <2>4. IsFiniteSet(Counted') /\ Holding' \subseteq Counted'
    <3>1. IsFiniteSet(load'.flows)
      BY <2>2, ManagerAssumption DEF FlowInv
    <3>2. QED
      BY <3>1, FS_Subset DEF Holding, Counted, CountedPcs
  <2>5. /\ Cardinality(Holding') <= Cardinality(Counted')
        /\ Cardinality(Holding') \in Nat /\ Cardinality(Counted') \in Nat
    BY <2>4, FS_Subset, FS_CardinalityType
  <2>6. QED
    BY <2>3, <2>5, ManagerAssumption
<1>2. FlowInv /\ [Next]_vars => (degraded /\ ~(Holding' \subseteq Holding) => Cardinality(Holding') <= Budget)
  BY <1>1, Zenon
<1>3. QED
  BY <1>2, FlowInvariant, PTL DEF DegradedAdmission, Spec

-----------------------------------------------------------------------------
(* The relays *)

RelayRec == [kind : {"none", "tcp", "udp"}, stage : {"free", "handshake", "copy", "over"},
             local : {"open", "closed"}, remote : {"open", "closed"}, done : BOOLEAN, calls : Nat,
             up : {"none", "copy", "ended", "left"}, down : {"none", "copy", "ended", "left"}]

\* A relay before its copies, with both of them under way or ended, and after
\* them: who has left decides whether onClose was called and the ends closed.
RelayOK(s) ==
  /\ s \in RelayRec
  /\ s.stage \in {"free", "handshake"} =>
       s.calls = 0 /\ s.done = FALSE /\ s.up = "none" /\ s.down = "none"
  /\ s.stage \in {"handshake", "copy", "over"} => s.kind \in {"tcp", "udp"}
  /\ s.stage = "copy" =>
       /\ s.up # "none" /\ s.down # "none" /\ ~(s.up = "left" /\ s.down = "left")
       /\ s.done = (s.up = "left" \/ s.down = "left")
       /\ s.calls = IF s.kind = "udp" /\ s.done THEN 1 ELSE 0
       /\ s.kind = "udp" /\ s.done => s.local = "closed" /\ s.remote = "closed"
  /\ s.stage = "over" =>
       /\ s.local = "closed" /\ s.remote = "closed"
       /\ \/ s.up = "left" /\ s.down = "left" /\ s.calls = 1
          \/ s.up = "none" /\ s.down = "none" /\ s.calls = IF s.kind = "tcp" THEN 1 ELSE 0

RelayInv == relay \in [load.relays -> RelayRec] /\ \A r \in load.relays : RelayOK(relay[r])

\* A relay that was not started has nothing to account for.
LEMMA FreeOK == RelayOK(Free)
BY DEF RelayOK, RelayRec, Free

\* A relay that moves to a state that is in order leaves the others alone.
LEMMA Becomes ==
  ASSUME NEW r \in load.relays, NEW s, RelayInv, RelayOK(s),
         relay' = [relay EXCEPT ![r] = s], load' = load
  PROVE  RelayInv'
<1>1. s \in RelayRec
  BY DEF RelayOK
<1>2. relay' \in [load.relays -> RelayRec] /\ \A q \in load.relays : relay'[q] = s \/ relay'[q] = relay[q]
  BY <1>1 DEF RelayInv
<1>3. QED
  BY <1>2, Zenon DEF RelayInv

\* A connection is added to the list (route/conn.go).
LEMMA Tracks ==
  ASSUME NEW r \in load.relays, NEW k \in {"tcp", "udp"}, RelayInv, Track(r, k), load' = load
  PROVE RelayInv'
<1>1. relay' = [relay EXCEPT ![r] = [Free EXCEPT !.kind = k, !.stage = "handshake",
                                               !.local = "open", !.remote = "open"]]
  BY DEF Track
<1>2. RelayOK([Free EXCEPT !.kind = k, !.stage = "handshake", !.local = "open", !.remote = "open"])
  BY Zenon DEF RelayOK, RelayRec, Free
<1>3. QED
  BY <1>1, <1>2, Becomes, Zenon

\* The handshake reports success and the copies start, or it fails and
\* onClose is called.
LEMMA Handshakes ==
  ASSUME NEW s, RelayOK(s), s.stage = "handshake"
  PROVE  /\ RelayOK([s EXCEPT !.stage = "copy", !.up = "copy", !.down = "copy"])
         /\ RelayOK([BothClosed(s) EXCEPT !.stage = "over", !.calls = IF s.kind = "tcp" THEN 1 ELSE 0])
BY Zenon DEF RelayOK, RelayRec, BothClosed

\* A copy ends: by itself, by an error that closes both sides, or by closing
\* its destination.
LEMMA CopiesEnd ==
  ASSUME NEW s, RelayOK(s), s.stage = "copy", NEW d \in Directions, s[d] = "copy"
  PROVE  /\ RelayOK([s EXCEPT ![d] = "ended"])
         /\ RelayOK([BothClosed(s) EXCEPT ![d] = "ended"])
         /\ RelayOK([s EXCEPT ![d] = "ended", ![Destination(d)] = "closed"])
<1>1. CASE d = "up"
  BY <1>1, Zenon DEF RelayOK, RelayRec, BothClosed, Destination
<1>2. CASE d = "down"
  BY <1>2, Zenon DEF RelayOK, RelayRec, BothClosed, Destination
<1>3. QED
  BY <1>1, <1>2 DEF Directions


\* What Left changes.
LEMMA LeftIs ==
  ASSUME NEW s \in RelayRec, NEW d \in Directions
  PROVE  LET x == Left(s, d) IN
           /\ x \in RelayRec
           /\ x.kind = s.kind /\ x.local = s.local /\ x.remote = s.remote /\ x.calls = s.calls
           /\ x.done = TRUE
           /\ x.up = (IF d = "up" THEN "left" ELSE s.up)
           /\ x.down = (IF d = "down" THEN "left" ELSE s.down)
           /\ x.stage = (IF x.up = "left" /\ x.down = "left" THEN "over" ELSE s.stage)
BY Zenon DEF Left, RelayRec, Directions

\* The connection s with both ends closed and onClose called n times.
LEMMA ClosedIs ==
  ASSUME NEW s \in RelayRec, NEW n \in Nat
  PROVE  LET x == [BothClosed(s) EXCEPT !.calls = n] IN
           /\ x \in RelayRec
           /\ x.local = "closed" /\ x.remote = "closed" /\ x.calls = n
           /\ x.kind = s.kind /\ x.stage = s.stage /\ x.up = s.up /\ x.down = s.down
BY Zenon DEF BothClosed, RelayRec

\* A copy that ended: the second one of a TCP connection, or the first one of
\* a packet connection, closes both sides and calls onClose.
LEMMA Leaves ==
  ASSUME NEW s, RelayOK(s), NEW d \in Directions, s[d] = "ended"
  PROVE  /\ s.kind = "tcp" => RelayOK(IF s.done THEN Left([BothClosed(s) EXCEPT !.calls = @ + 1], d)
                                      ELSE Left(s, d))
         /\ s.kind = "udp" =>
              RelayOK(Left([BothClosed(s) EXCEPT !.calls = IF s.done THEN @ ELSE @ + 1], d))
<1>1. s \in RelayRec /\ s.stage = "copy" /\ s.kind \in {"tcp", "udp"}
  BY Zenon DEF RelayOK, RelayRec, Directions
<1>2. CASE s.done
  <2>1. /\ d = "up" => s.down = "left"
        /\ d = "down" => s.up = "left"
        /\ s.calls = IF s.kind = "udp" THEN 1 ELSE 0
    BY <1>1, <1>2, Zenon DEF RelayOK
  <2> DEFINE x == [BothClosed(s) EXCEPT !.calls = 1]
  <2>2. /\ s.kind = "tcp" => [BothClosed(s) EXCEPT !.calls = @ + 1] = x
        /\ s.kind = "udp" => [BothClosed(s) EXCEPT !.calls = IF s.done THEN @ ELSE @ + 1] = x
    <3>1. BothClosed(s).calls = s.calls
      BY <1>1, Zenon DEF BothClosed, RelayRec
    <3>2. s.kind = "tcp" => s.calls + 1 = 1
      BY <2>1
    <3>3. QED
      BY <1>2, <2>1, <3>1, <3>2, Zenon
  <2>3. x \in RelayRec /\ x.local = "closed" /\ x.remote = "closed" /\ x.calls = 1
        /\ x.kind = s.kind /\ x.up = s.up /\ x.down = s.down
    BY <1>1, ClosedIs, ZenonT(40)
  <2>4. RelayOK(Left(x, d))
    <3> DEFINE y == Left(x, d)
    <3>1. /\ y \in RelayRec /\ y.kind \in {"tcp", "udp"} /\ y.local = "closed" /\ y.remote = "closed"
          /\ y.calls = 1 /\ y.up = "left" /\ y.down = "left" /\ y.stage = "over"
      <4> HIDE DEF x
      <4>1. d \in {"up", "down"}
        BY DEF Directions
      <4>2. /\ y \in RelayRec
            /\ y.kind = x.kind /\ y.local = x.local /\ y.remote = x.remote /\ y.calls = x.calls
            /\ y.done = TRUE
            /\ y.up = (IF d = "up" THEN "left" ELSE x.up)
            /\ y.down = (IF d = "down" THEN "left" ELSE x.down)
            /\ y.stage = (IF y.up = "left" /\ y.down = "left" THEN "over" ELSE x.stage)
        BY <2>3, LeftIs, Zenon
      <4> HIDE DEF y
      <4>3. QED
        BY <1>1, <2>1, <2>3, <4>1, <4>2, Zenon
    <3> HIDE DEF y
    <3>2. RelayOK(y)
      BY <3>1, Zenon DEF RelayOK
    <3>3. QED
      BY <3>2 DEF y
  <2>5. QED
    BY <1>1, <1>2, <2>2, <2>4, Zenon
<1>3. CASE ~s.done
  <2>1. /\ s.up # "left" /\ s.down # "left" /\ s.up # "none" /\ s.down # "none" /\ s.calls = 0
    BY <1>1, <1>3, Zenon DEF RelayOK
  <2>2. s.kind = "tcp" => RelayOK(Left(s, d))
    <3> DEFINE y == Left(s, d)
    <3>1. /\ y \in RelayRec /\ y.kind = s.kind /\ y.calls = 0 /\ y.stage = "copy" /\ y.done = TRUE
          /\ y.up # "none" /\ y.down # "none" /\ ~(y.up = "left" /\ y.down = "left")
          /\ y.up = "left" \/ y.down = "left"
      <4>1. d \in {"up", "down"}
        BY DEF Directions
      <4>2. /\ y \in RelayRec
            /\ y.kind = s.kind /\ y.local = s.local /\ y.remote = s.remote /\ y.calls = s.calls
            /\ y.done = TRUE
            /\ y.up = (IF d = "up" THEN "left" ELSE s.up)
            /\ y.down = (IF d = "down" THEN "left" ELSE s.down)
            /\ y.stage = (IF y.up = "left" /\ y.down = "left" THEN "over" ELSE s.stage)
        BY <1>1, LeftIs, Zenon
      <4> HIDE DEF y
      <4>3. QED
        BY <1>1, <2>1, <4>1, <4>2, Zenon
    <3> HIDE DEF y
    <3>2. s.kind = "tcp" => RelayOK(y)
      BY <3>1, Zenon DEF RelayOK
    <3>3. QED
      BY <3>2 DEF y
  <2> DEFINE x == [BothClosed(s) EXCEPT !.calls = 1]
  <2>3. [BothClosed(s) EXCEPT !.calls = IF s.done THEN @ ELSE @ + 1] = x
    <3>1. BothClosed(s).calls + 1 = 1
      <4>1. BothClosed(s).calls = 0
        BY <1>1, <2>1, Zenon DEF BothClosed, RelayRec
      <4>2. QED
        BY <4>1
    <3>2. QED
      BY <1>3, <3>1, Zenon
  <2>4. x \in RelayRec /\ x.local = "closed" /\ x.remote = "closed" /\ x.calls = 1
        /\ x.kind = s.kind /\ x.stage = "copy" /\ x.up = s.up /\ x.down = s.down
    BY <1>1, ClosedIs, ZenonT(40)
  <2>5. s.kind = "udp" => RelayOK(Left(x, d))
    <3> DEFINE y == Left(x, d)
    <3>1. /\ y \in RelayRec /\ y.kind = s.kind /\ y.calls = 1 /\ y.stage = "copy" /\ y.done = TRUE
          /\ y.up # "none" /\ y.down # "none" /\ ~(y.up = "left" /\ y.down = "left")
          /\ y.up = "left" \/ y.down = "left"
          /\ y.local = "closed" /\ y.remote = "closed"
      <4> HIDE DEF x
      <4>1. d \in {"up", "down"}
        BY DEF Directions
      <4>2. /\ y \in RelayRec
            /\ y.kind = x.kind /\ y.local = x.local /\ y.remote = x.remote /\ y.calls = x.calls
            /\ y.done = TRUE
            /\ y.up = (IF d = "up" THEN "left" ELSE x.up)
            /\ y.down = (IF d = "down" THEN "left" ELSE x.down)
            /\ y.stage = (IF y.up = "left" /\ y.down = "left" THEN "over" ELSE x.stage)
        BY <2>4, LeftIs, Zenon
      <4> HIDE DEF y
      <4>3. QED
        BY <1>1, <2>1, <2>4, <4>1, <4>2, Zenon
    <3> HIDE DEF y
    <3>2. s.kind = "udp" => RelayOK(y)
      BY <3>1, Zenon DEF RelayOK
    <3>3. QED
      BY <3>2 DEF y
  <2>6. QED
    BY <1>1, <1>3, <2>2, <2>3, <2>5, Zenon
<1>4. QED
  BY <1>2, <1>3, Zenon


\* Every step of a relay keeps the account of its copies and of onClose.
LEMMA RelayKeeps ==
  ASSUME RelayInv, NEW r \in load.relays, RelayStep(r)
  PROVE  RelayInv'
<1>1. RelayOK(relay[r]) /\ relay \in [load.relays -> RelayRec]
  BY DEF RelayInv
<1>2. CASE NewPacketConnection(r)
  BY <1>2, Tracks DEF NewPacketConnection
<1>3. CASE HandshakeDone(r) \/ HandshakeFails(r)
  BY <1>1, <1>3, Handshakes, Becomes, Zenon DEF Become, HandshakeDone, HandshakeFails
<1>4. CASE Forget(r)
  BY <1>4, FreeOK, Becomes, Zenon DEF Become, Forget
<1>5. CASE CloseTracked(r)
  <2>1. RelayOK([relay[r] EXCEPT !.remote = "closed"])
    BY <1>1, Zenon DEF RelayOK, RelayRec
  <2>2. relay' = [relay EXCEPT ![r] = [relay[r] EXCEPT !.remote = "closed"]] /\ load' = load
    BY <1>1, <1>5, Zenon DEF CloseTracked
  <2>3. QED
    BY <2>1, <2>2, Becomes, Zenon
<1>6. ASSUME NEW d \in Directions, CopyStep(r, d) PROVE RelayInv'
  <2>1. CASE CopyFails(r, d)
    BY <1>1, <2>1, CopiesEnd, Becomes, Zenon DEF Become, CopyFails, Copying
  <2>2. CASE CopyEnds(r, d)
    BY <1>1, <2>2, CopiesEnd, Becomes, Zenon DEF Become, CopyEnds, Copying
  <2>3. CASE PacketCopyEnds(r, d)
    BY <1>1, <2>3, CopiesEnd, Becomes, Zenon DEF Become, PacketCopyEnds, Copying
  <2>4. CASE Finish(r, d)
    BY <1>1, <2>4, Leaves, Becomes, Zenon DEF Become, Finish
  <2>5. CASE PacketFinish(r, d)
    BY <1>1, <2>5, Leaves, Becomes, Zenon DEF Become, PacketFinish
  <2>6. QED
    BY <1>6, <2>1, <2>2, <2>3, <2>4, <2>5, Zenon DEF CopyStep
<1>7. QED
  BY <1>2, <1>3, <1>4, <1>5, <1>6, Zenon DEF RelayStep

\* A flow that dials touches no relay.
LEMMA FlowsLeaveRelays ==
  ASSUME RelayInv, NEW f \in load.flows, NewConnection(f) \/ FlowStep(f)
  PROVE  RelayInv'
<1>1. CASE EndDial(f)
  <2>1. load' = load
    BY <1>1 DEF EndDial
  <2>2. CASE UNCHANGED relayVars
    BY <2>1, <2>2, Zenon DEF relayVars, RelayInv
  <2>3. ASSUME NEW r \in load.relays, Track(r, "tcp") PROVE RelayInv'
    BY <2>1, <2>3, Tracks
  <2>4. QED
    BY <1>1, <2>2, <2>3, Zenon DEF EndDial
<1>2. CASE UNCHANGED <<load, relayVars>>
  BY <1>2, Zenon DEF relayVars, RelayInv
<1>3. QED
  BY <1>1, <1>2, Zenon DEF NewConnection, FlowStep, OverBudget, Shed, tryAcquireDial, Drop,
     DialReturns,
                   releaseSlot, CountResult, MarkResult

\* The account of the relays holds at every step.
LEMMA RelayInvariant == Spec => []RelayInv
<1>1. Init => RelayInv
  BY FreeOK, ZenonT(40) DEF Init, RelayInv, RelayOK
<1>2. RelayInv /\ [Next]_vars => RelayInv'
  <2> SUFFICES ASSUME RelayInv, [Next]_vars PROVE RelayInv'
    OBVIOUS
  <2>1. CASE CloseAll \/ ServerChanges \/ UNCHANGED vars
    BY <2>1, Zenon DEF CloseAll, ServerChanges, vars, relayVars, RelayInv
  <2>2. QED
    BY <2>1, RelayKeeps, FlowsLeaveRelays, Zenon DEF Next
<1>3. QED
  BY <1>1, <1>2, PTL DEF Spec

\* onClose is called once and both ends are closed, for any number of relays, of
\* copies that end or fail in any order, and of CloseAlls (conn.go:503, 566, 704).
THEOREM RelaysCloseOnce == Spec => []OnCloseOnce
<1>1. RelayInv => OnCloseOnce
  <2> SUFFICES ASSUME RelayInv, NEW r \in load.relays
               PROVE  /\ relay[r].calls <= 1
                      /\ relay[r].stage = "over" =>
                           /\ relay[r].local = "closed" /\ relay[r].remote = "closed"
                           /\ relay[r].calls = 1 \/ (relay[r].kind = "udp" /\ relay[r].up = "none")
                      /\ relay[r].kind = "tcp" /\ relay[r].calls = 1 => ~\E d \in Directions : Copying(r, d)
    BY Zenon DEF OnCloseOnce
  <2>1. RelayOK(relay[r])
    BY DEF RelayInv
  <2>2. relay[r].calls \in {0, 1}
    BY <2>1, Zenon DEF RelayOK, RelayRec
  <2>3. relay[r].kind = "tcp" /\ relay[r].stage = "copy" => relay[r].calls # 1
    <3>1. relay[r].kind = "tcp" /\ relay[r].stage = "copy" => relay[r].calls = 0
      BY <2>1, Zenon DEF RelayOK
    <3>2. QED
      BY <3>1
  <2>4. QED
    <3>1. relay[r].calls <= 1
      BY <2>2
    <3>2. QED
      BY <2>1, <2>3, <3>1, Zenon DEF RelayOK, Copying
<1>2. QED
  BY <1>1, RelayInvariant, PTL

-----------------------------------------------------------------------------
(* Monitoring: sequences of tasks *)

\* No two tasks of the stage are for the same outbound.
Distinct(tasks) == \A x, y \in Staged(tasks) : tasks[x].tag = tasks[y].tag => x = y

\* The number that enqueueTask compares is not beyond that of a task that is to
\* be retried.
Fresh(tasks, marked) == \A x \in Staged(tasks) : marked[tasks[x].tag].enqueuedCycle \in {0, tasks[x].cycleID}

\* The place for no task is not a task.
LEMMA NoneIsNoTask == None \notin Task
<1>. SUFFICES ASSUME None \in Task PROVE FALSE
  OBVIOUS
<1>1. DOMAIN None = {"tag"}
  BY DEF None
<1>2. DOMAIN None = {"tag", "priority", "cycleID", "stage"}
  BY DEF Task
<1>. QED  BY <1>1, <1>2

\* What a channel, or the list of retries, is after its head has been taken.
LEMMA TailIs ==
  ASSUME NEW T, NEW q \in Seq(T), q # <<>>
  PROVE  /\ Head(q) = q[1] /\ Head(q) \in T /\ 1 \in DOMAIN q /\ Tail(q) \in Seq(T)
         /\ Len(Tail(q)) = Len(q) - 1
         /\ \A i \in DOMAIN Tail(q) : i + 1 \in DOMAIN q /\ Tail(q)[i] = q[i + 1]
         /\ \A i \in DOMAIN q \ {1} : i - 1 \in DOMAIN Tail(q) /\ Tail(q)[i - 1] = q[i]
OBVIOUS

\* What it is after a task has been appended.
LEMMA AppendIs ==
  ASSUME NEW T, NEW q \in Seq(T), NEW t \in T
  PROVE  /\ Append(q, t) \in Seq(T) /\ Len(Append(q, t)) = Len(q) + 1
         /\ DOMAIN Append(q, t) = DOMAIN q \cup {Len(q) + 1} /\ Len(q) + 1 \notin DOMAIN q
         /\ Append(q, t)[Len(q) + 1] = t
         /\ \A i \in DOMAIN q : Append(q, t)[i] = q[i]
OBVIOUS

\* The head of a sequence of tasks leaves the others as they are.
LEMMA TailTags ==
  ASSUME NEW q \in Seq(Task), q # <<>>, Distinct(q), NEW marked, Fresh(q, marked)
  PROVE  /\ Distinct(Tail(q)) /\ Fresh(Tail(q), marked)
         /\ TagsIn(Tail(q)) = IF Head(q).stage THEN TagsIn(q) \ {Head(q).tag} ELSE TagsIn(q)
         /\ Head(q).stage => /\ Head(q).tag \in TagsIn(q)
                             /\ marked[Head(q).tag].enqueuedCycle \in {0, Head(q).cycleID}
<1>1. /\ Head(q) = q[1] /\ Head(q) \in Task /\ 1 \in DOMAIN q
      /\ \A i \in DOMAIN Tail(q) : i + 1 \in DOMAIN q /\ Tail(q)[i] = q[i + 1]
      /\ \A i \in DOMAIN q \ {1} : i - 1 \in DOMAIN Tail(q) /\ Tail(q)[i - 1] = q[i]
  BY TailIs
<1>2. DOMAIN q \subseteq Nat /\ DOMAIN Tail(q) \subseteq Nat
  OBVIOUS
<1>3. \A i \in Staged(Tail(q)) : i + 1 \in Staged(q) /\ i + 1 # 1 /\ Tail(q)[i] = q[i + 1]
  BY <1>1, <1>2 DEF Staged
<1>4. \A i \in Staged(q) : i # 1 => i - 1 \in Staged(Tail(q)) /\ Tail(q)[i - 1] = q[i]
  BY <1>1, <1>2 DEF Staged
<1>5. Head(q) # None
  BY <1>1, NoneIsNoTask
<1>6. Head(q).stage => 1 \in Staged(q)
  BY <1>1, <1>5 DEF Staged
<1>7. ~Head(q).stage => 1 \notin Staged(q)
  BY <1>1 DEF Staged
<1>8. Distinct(Tail(q))
  <2>. SUFFICES ASSUME NEW x \in Staged(Tail(q)), NEW y \in Staged(Tail(q)), Tail(q)[x].tag = Tail(q)[y].tag
                PROVE  x = y
    BY Zenon DEF Distinct
  <2>1. x + 1 = y + 1
    BY <1>3, Zenon DEF Distinct
  <2>. QED  BY <1>2, <2>1 DEF Staged
<1>9. Fresh(Tail(q), marked)
  BY <1>3, Zenon DEF Fresh
<1>10. TagsIn(Tail(q)) \subseteq TagsIn(q) /\ (Head(q).stage => Head(q).tag \notin TagsIn(Tail(q)))
  <2>. SUFFICES ASSUME NEW x \in Staged(Tail(q))
                PROVE  Tail(q)[x].tag \in TagsIn(q) /\ (Head(q).stage => Head(q).tag # Tail(q)[x].tag)
    BY Zenon DEF TagsIn
  <2>1. Tail(q)[x].tag \in TagsIn(q)
    BY <1>3, Zenon DEF TagsIn
  <2>2. Head(q).stage => Head(q).tag # Tail(q)[x].tag
    BY <1>1, <1>3, <1>6, ZenonT(40) DEF Distinct
  <2>. QED  BY <2>1, <2>2, Zenon
<1>11. \A i \in Staged(q) : i # 1 => q[i].tag \in TagsIn(Tail(q))
  BY <1>4, Zenon DEF TagsIn
<1>12. Head(q).stage => TagsIn(q) \subseteq TagsIn(Tail(q)) \cup {Head(q).tag}
  <2>1. \A i \in Staged(q) : q[i].tag \in TagsIn(Tail(q)) \cup {Head(q).tag}
    BY <1>1, <1>11
  <2>. QED  BY <2>1, Zenon DEF TagsIn
<1>13. ~Head(q).stage => TagsIn(q) \subseteq TagsIn(Tail(q))
  BY <1>7, <1>11, Zenon DEF TagsIn
<1>14. Head(q).stage => Head(q).tag \in TagsIn(q) /\ marked[Head(q).tag].enqueuedCycle \in {0, Head(q).cycleID}
  BY <1>1, <1>6, Zenon DEF TagsIn, Fresh
<1>15. TagsIn(Tail(q)) = IF Head(q).stage THEN TagsIn(q) \ {Head(q).tag} ELSE TagsIn(q)
  BY <1>10, <1>12, <1>13, Zenon
<1>. QED  BY <1>8, <1>9, <1>14, <1>15, Zenon

\* A task of an outbound that has none in a sequence is appended to it.
LEMMA AppendTags ==
  ASSUME NEW q \in Seq(Task), NEW t \in Task, Distinct(q), NEW marked, Fresh(q, marked),
         t.stage => t.tag \notin TagsIn(q) /\ marked[t.tag].enqueuedCycle \in {0, t.cycleID}
  PROVE  /\ Distinct(Append(q, t)) /\ Fresh(Append(q, t), marked)
         /\ TagsIn(Append(q, t)) = IF t.stage THEN TagsIn(q) \cup {t.tag} ELSE TagsIn(q)
<1>. DEFINE n == Len(q) + 1
            a == Append(q, t)
<1>1. DOMAIN a = DOMAIN q \cup {n} /\ n \notin DOMAIN q /\ a[n] = t /\ \A i \in DOMAIN q : a[i] = q[i]
  BY AppendIs
<1>2. t # None
  BY NoneIsNoTask, Zenon
<1>. HIDE DEF a, n
<1>3. \A i \in Staged(q) : i \in Staged(a) /\ a[i] = q[i] /\ i # n
  BY <1>1, Zenon DEF Staged
<1>4. \A i \in Staged(a) : i # n => i \in Staged(q)
  BY <1>1 DEF Staged
<1>5. t.stage <=> n \in Staged(a)
  BY <1>1, <1>2 DEF Staged
<1>6. \A x \in Staged(q) : q[x].tag \in TagsIn(q)
  BY Zenon DEF TagsIn
<1>7. Distinct(a)
  <2>. SUFFICES ASSUME NEW x \in Staged(a), NEW y \in Staged(a), a[x].tag = a[y].tag PROVE x = y
    BY Zenon DEF Distinct
  <2>1. CASE x # n /\ y # n
    BY <1>3, <1>4, <2>1, Zenon DEF Distinct
  <2>2. CASE x = n /\ y # n
    BY <1>1, <1>3, <1>4, <1>5, <1>6, <2>2, Zenon
  <2>3. CASE x # n /\ y = n
    BY <1>1, <1>3, <1>4, <1>5, <1>6, <2>3, Zenon
  <2>. QED  BY <2>1, <2>2, <2>3, Zenon
<1>8. Fresh(a, marked)
  <2>. SUFFICES ASSUME NEW x \in Staged(a) PROVE marked[a[x].tag].enqueuedCycle \in {0, a[x].cycleID}
    BY Zenon DEF Fresh
  <2>1. CASE x = n
    BY <1>1, <1>5, <2>1
  <2>2. CASE x # n
    BY <1>3, <1>4, <2>2, Zenon DEF Fresh
  <2>. QED  BY <2>1, <2>2, Zenon
<1>9. TagsIn(a) = IF t.stage THEN TagsIn(q) \cup {t.tag} ELSE TagsIn(q)
  <2>1. TagsIn(q) \subseteq TagsIn(a)
    BY <1>3, Zenon DEF TagsIn
  <2>2. \A x \in Staged(a) : x # n => a[x].tag \in TagsIn(q)
    BY <1>3, <1>4, <1>6, Zenon
  <2>3. t.stage => t.tag \in TagsIn(a) /\ TagsIn(a) \subseteq TagsIn(q) \cup {t.tag}
    BY <1>1, <1>5, <2>2, Zenon DEF TagsIn
  <2>4. ~t.stage => TagsIn(a) \subseteq TagsIn(q)
    BY <1>5, <2>2, Zenon DEF TagsIn
  <2>. QED  BY <2>1, <2>3, <2>4, Zenon
<1>. QED  BY <1>7, <1>8, <1>9 DEF a

-----------------------------------------------------------------------------
(* Types *)

MarkRec == [queued : BOOLEAN, priorityQueued : BOOLEAN, enqueuedCycle : Nat, testing : BOOLEAN]
CycleRec == [pc : {"idle", "begin", "collect", "stage"}, tags : SUBSET Outbounds, left : SUBSET Outbounds,
             url : 1 .. setup.urls, expected : Nat, got : Nat, success : BOOLEAN]

\* What a step may use of the types.
Typed ==
  /\ setup \in Setups /\ SetupOK(setup)
  /\ ready \subseteq Outbounds /\ due \subseteq Outbounds
  /\ state \in [Outbounds -> MarkRec]
  /\ priorityQueue \in Seq(Task) /\ normalQueue \in Seq(Task) /\ retries \in Seq(Task)
  /\ Len(priorityQueue) <= PriorityCap /\ Len(normalQueue) <= NormalCap
  /\ work \in [Workers -> Task \cup {None}]
  /\ started \in BOOLEAN /\ ticker \in {"off", "on", "stopping"}
  /\ cycleSeq \in 0 .. setup.cycles /\ requests \in 0 .. setup.calls
  /\ cycle \in CycleRec /\ (cycle.pc = "begin" => cycleSeq < setup.cycles)
  /\ caller \subseteq Item \cup {Signal}
  /\ group \in [notified : BOOLEAN, timer : BOOLEAN, unseen : BOOLEAN]
  /\ closed \in BOOLEAN

\* It is what TLC checks, and what does not change.
LEMMA TypedIsTypeOK == Typed => MonitorTypeOK
<1>. SUFFICES ASSUME Typed PROVE MonitorTypeOK
  OBVIOUS
<1>1. {priorityQueue, normalQueue, retries} \subseteq Seq(Task)
  BY Zenon DEF Typed
<1>. QED  BY <1>1, Zenon DEF Typed, MonitorTypeOK, MarkRec, CycleRec

\* The marks that enqueueTask sets, and which it does not.
LEMMA MarkIs ==
  ASSUME state \in [Outbounds -> MarkRec], NEW t \in Task
  PROVE  /\ Mark(t) \in [Outbounds -> MarkRec]
         /\ \A o \in Outbounds \ {t.tag} : Mark(t)[o] = state[o]
         /\ t.priority => /\ Mark(t)[t.tag].queued = state[t.tag].queued
                          /\ Mark(t)[t.tag].enqueuedCycle = state[t.tag].enqueuedCycle
         /\ ~t.priority => Mark(t)[t.tag].enqueuedCycle = t.cycleID
<1>. DEFINE r == IF t.priority THEN [state[t.tag] EXCEPT !.priorityQueued = TRUE]
                 ELSE [[state[t.tag] EXCEPT !.queued = TRUE] EXCEPT !.enqueuedCycle = t.cycleID]
<1>1. t.tag \in Outbounds /\ t.cycleID \in Nat /\ t.priority \in BOOLEAN
  BY DEF Task
<1>2. state[t.tag] \in MarkRec
  BY <1>1, Zenon
<1>3. /\ r \in MarkRec
      /\ t.priority => r.queued = state[t.tag].queued /\ r.enqueuedCycle = state[t.tag].enqueuedCycle
      /\ ~t.priority => r.enqueuedCycle = t.cycleID
  BY <1>1, <1>2, Zenon DEF MarkRec
<1>4. Mark(t) = [state EXCEPT ![t.tag] = r]
  <2>1. CASE t.priority
    BY <2>1, Zenon DEF Mark
  <2>2. CASE ~t.priority
    <3>. DEFINE q == [state[t.tag] EXCEPT !.queued = TRUE]
                s == [state EXCEPT ![t.tag] = q]
    <3>1. s[t.tag] = q
      BY <1>1, Zenon
    <3>2. Mark(t) = [s EXCEPT ![t.tag] = [s[t.tag] EXCEPT !.enqueuedCycle = t.cycleID]]
      BY <2>2, Zenon DEF Mark
    <3>. HIDE DEF q
    <3>3. [s EXCEPT ![t.tag] = [q EXCEPT !.enqueuedCycle = t.cycleID]]
            = [state EXCEPT ![t.tag] = [q EXCEPT !.enqueuedCycle = t.cycleID]]
      BY <1>1, Zenon
    <3>. QED  BY <2>2, <3>1, <3>2, <3>3, Zenon DEF q
  <2>. QED  BY <2>1, <2>2, Zenon
<1>. HIDE DEF r
<1>. QED  BY <1>1, <1>3, <1>4

\* enqueueTask keeps marks and queues well formed.
LEMMA EnqueueTypes ==
  ASSUME Typed, NEW t \in Task, enqueueTask(t)
  PROVE  /\ state' \in [Outbounds -> MarkRec]
         /\ priorityQueue' \in Seq(Task) /\ normalQueue' \in Seq(Task)
         /\ Len(priorityQueue') <= PriorityCap /\ Len(normalQueue') <= NormalCap
<1>1. t.tag \in Outbounds /\ t.cycleID \in Nat
  BY DEF Task
<1>2. state' \in [Outbounds -> MarkRec]
  <2>1. state' = state \/ state' = Mark(t)
    BY Zenon DEF enqueueTask
  <2>2. state \in [Outbounds -> MarkRec]
    BY Zenon DEF Typed
  <2>. QED  BY <2>1, <2>2, MarkIs, Zenon
<1>3. priorityQueue' \in Seq(Task) /\ Len(priorityQueue') <= PriorityCap
  <2>1. \/ priorityQueue' = priorityQueue
        \/ priorityQueue' = Append(priorityQueue, t) /\ Len(priorityQueue) < PriorityCap
    BY Zenon DEF enqueueTask, Accepts, Room
  <2>2. priorityQueue \in Seq(Task) /\ Len(priorityQueue) <= PriorityCap
    BY Zenon DEF Typed
  <2>. QED  BY <2>1, <2>2, MonitoringAssumption
<1>4. normalQueue' \in Seq(Task) /\ Len(normalQueue') <= NormalCap
  <2>1. \/ normalQueue' = normalQueue
        \/ normalQueue' = Append(normalQueue, t) /\ Len(normalQueue) < NormalCap
    BY Zenon DEF enqueueTask, Accepts, Room
  <2>2. normalQueue \in Seq(Task) /\ Len(normalQueue) <= NormalCap
    BY Zenon DEF Typed
  <2>. QED  BY <2>1, <2>2, MonitoringAssumption
<1>. QED  BY <1>2, <1>3, <1>4

\* A worker takes a task, to test it or to have it retried.
LEMMA TakeTypes ==
  ASSUME Typed, NEW w \in Workers, NEW t \in Task, Take(w, t)
  PROVE  /\ state' \in [Outbounds -> MarkRec] /\ retries' \in Seq(Task)
         /\ work' \in [Workers -> Task \cup {None}]
<1>1. state \in [Outbounds -> MarkRec] /\ retries \in Seq(Task) /\ work \in [Workers -> Task \cup {None}]
  BY Zenon DEF Typed
<1>2. t.tag \in Outbounds
  BY DEF Task
<1>3. \E b \in BOOLEAN : state' = [state EXCEPT ![t.tag].testing = b]
  BY Zenon DEF Take
<1>4. state' \in [Outbounds -> MarkRec]
  <2>1. PICK b \in BOOLEAN : state' = [state EXCEPT ![t.tag].testing = b]
    BY <1>3, Zenon
  <2>2. state[t.tag] \in MarkRec
    BY <1>1, <1>2, Zenon
  <2>3. [state[t.tag] EXCEPT !.testing = b] \in MarkRec
    BY <2>2 DEF MarkRec
  <2>. QED  BY <1>1, <1>2, <2>1, <2>3, Zenon
<1>5. (retries' = retries \/ retries' = Append(retries, t)) /\ (work' = work \/ work' = [work EXCEPT ![w] = t])
  BY Zenon DEF Take
<1>. QED  BY <1>1, <1>4, <1>5

\* The types hold at the start.
LEMMA TypesInit == MonitorInit => Typed
<1>. SUFFICES ASSUME MonitorInit PROVE Typed
  OBVIOUS
<1>1. setup \in Setups /\ SetupOK(setup)
  BY MonitoringAssumption, Zenon DEF MonitorInit
<1>2. setup.urls \in Nat \ {0} /\ setup.cycles \in Nat \ {0} /\ setup.calls \in Nat \ {0} /\ setup.tunnels \subseteq Outbounds
  BY <1>1 DEF SetupOK, Outbounds
<1>3. cycle \in CycleRec /\ cycle.pc # "begin"
  <2>1. 1 \in 1 .. setup.urls /\ 0 \in Nat
    BY <1>2
  <2>. QED  BY <2>1, Zenon DEF MonitorInit, NoCycle, CycleRec
<1>4. state \in [Outbounds -> MarkRec]
  BY DEF MonitorInit, Cleared, MarkRec
<1>5. <<>> \in Seq(Task) /\ Len(<<>>) <= PriorityCap /\ Len(<<>>) <= NormalCap
  BY MonitoringAssumption
<1>6. 0 \in 0 .. setup.cycles /\ 0 \in 0 .. setup.calls
  BY <1>2
<1>7. ready \subseteq Outbounds
  BY <1>2, Zenon DEF MonitorInit
<1>8. group \in [notified : BOOLEAN, timer : BOOLEAN, unseen : BOOLEAN]
  BY DEF MonitorInit
<1>9. work \in [Workers -> Task \cup {None}]
  BY DEF MonitorInit
<1>. QED  BY <1>1, <1>3, <1>4, <1>5, <1>6, <1>7, <1>8, <1>9, Zenon DEF MonitorInit, Typed

\* The types after a step that keeps the setup.
LEMMA TypesKept ==
  ASSUME Typed, UNCHANGED setup,
         ready' \subseteq Outbounds, due' \subseteq Outbounds,
         state' \in [Outbounds -> MarkRec],
         priorityQueue' \in Seq(Task), normalQueue' \in Seq(Task), retries' \in Seq(Task),
         Len(priorityQueue') <= PriorityCap, Len(normalQueue') <= NormalCap,
         work' \in [Workers -> Task \cup {None}],
         started' \in BOOLEAN, ticker' \in {"off", "on", "stopping"},
         cycleSeq' \in 0 .. setup.cycles, requests' \in 0 .. setup.calls,
         cycle' \in CycleRec, cycle'.pc = "begin" => cycleSeq' < setup.cycles,
         caller' \subseteq Item \cup {Signal},
         group' \in [notified : BOOLEAN, timer : BOOLEAN, unseen : BOOLEAN],
         closed' \in BOOLEAN
  PROVE  Typed'
<1>1. UNCHANGED <<Outbounds, Workers>>
  BY DEF Outbounds, Workers
<1>2. UNCHANGED <<Task, Item>> /\ CycleRec' = CycleRec
  BY <1>1 DEF Task, Item, CycleRec
<1>. QED  BY <1>1, <1>2, Zenon DEF Typed, SetupOK, MarkRec

\* Touch keeps the types of what it writes.
LEMMA TouchTypes ==
  ASSUME Typed, Touch
  PROVE  /\ started' \in BOOLEAN /\ ticker' \in {"off", "on", "stopping"}
         /\ cycle' \in CycleRec /\ (cycle'.pc = "begin" => cycleSeq < setup.cycles)
<1>1. setup.urls \in Nat \ {0}
  BY DEF Typed, SetupOK
<1>2. 1 \in 1 .. setup.urls /\ 0 \in Nat
  BY <1>1
<1>3. NoCycle \in CycleRec
  BY <1>2, Zenon DEF NoCycle, CycleRec
<1>4. [NoCycle EXCEPT !.pc = "begin"] \in CycleRec
  BY <1>3, Zenon DEF CycleRec
<1>. QED  BY <1>4, Zenon DEF Typed, Touch, startCycleOnce

\* The callers' steps keep the types.
LEMMA CallerTypes ==
  ASSUME Typed,
         \/ \E o \in Outbounds : TestNow(o) \/ InvalidateTest(o) \/ ReadyChanges(o)
         \/ TestGroup \/ SignalChange \/ Look \/ SendSignal
         \/ \E i \in caller : testNow(i)
  PROVE  Typed'
<1>1. setup.calls \in Nat /\ requests \in 0 .. setup.calls /\ setup.tunnels \subseteq Outbounds
      /\ setup.parents \in [Outbounds -> SUBSET Outbounds]
  BY DEF Typed, SetupOK, Outbounds
<1>2. ASSUME NEW kind, NEW items, Asks(kind, items)
      PROVE  requests' \in 0 .. setup.calls
  BY <1>1, <1>2 DEF Asks
<1>. \A o \in Outbounds, b \in BOOLEAN : [tag |-> o, priority |-> b] \in Item
  BY Zenon DEF Item
<1>3. ASSUME NEW o \in Outbounds, TestNow(o) PROVE Typed'
  <2>1. setup.parents[o] \cup {o} \subseteq Outbounds
    BY <1>1, Zenon
  <2>2. {[tag |-> p, priority |-> TRUE] : p \in setup.parents[o] \cup {o}} \subseteq Item
    BY <2>1, Zenon
  <2>. QED  BY <1>2, <1>3, <2>2, TouchTypes, TypesKept, Zenon DEF TestNow, Asks, Typed, marks
<1>4. ASSUME NEW o \in Outbounds, InvalidateTest(o) PROVE Typed'
  <2>1. {[tag |-> o, priority |-> TRUE]} \subseteq Item
    BY Zenon
  <2>2. due \cup {o} \subseteq Outbounds
    BY Zenon DEF Typed
  <2>. QED  BY <1>2, <1>4, <2>1, <2>2, TypesKept, Zenon DEF InvalidateTest, Asks, Typed, marks, timing
<1>5. ASSUME NEW o \in Outbounds, ReadyChanges(o) PROVE Typed'
  <2>1. ready' \subseteq Outbounds
    BY <1>5, Zenon DEF ReadyChanges, Typed
  <2>. QED  BY <1>5, <2>1, TypesKept, Zenon DEF ReadyChanges, Typed, marks, timing, calls
<1>6. CASE TestGroup
  <2>1. {[tag |-> o, priority |-> FALSE] : o \in Outbounds} \subseteq Item
    BY Zenon
  <2>. QED  BY <1>2, <1>6, <2>1, TouchTypes, TypesKept, Zenon DEF TestGroup, Asks, Typed, marks
<1>7. CASE SignalChange
  BY <1>2, <1>7, TypesKept, Zenon DEF SignalChange, Asks, Typed, marks, timing
<1>8. CASE Look
  BY <1>8, TouchTypes, TypesKept, Zenon DEF Look, Typed, marks, calls
<1>9. CASE SendSignal
  <2>1. [group EXCEPT !.notified = TRUE] \in [notified : BOOLEAN, timer : BOOLEAN, unseen : BOOLEAN]
    BY Zenon DEF Typed
  <2>. QED  BY <1>9, <2>1, TypesKept, Zenon DEF SendSignal, Typed, marks, timing
<1>10. ASSUME NEW i \in caller, testNow(i) PROVE Typed'
  <2>1. i \in Item
    BY <1>10, Zenon DEF testNow, Typed
  <2>2. cycleSeq \in Nat
    BY DEF Typed, SetupOK
  <2>3. [tag |-> i.tag, priority |-> i.priority, cycleID |-> cycleSeq, stage |-> FALSE] \in Task
    BY <2>1, <2>2 DEF Item, Task
  <2>. QED  BY <1>10, <2>3, EnqueueTypes, TypesKept, Zenon DEF testNow, Typed, timing
<1>. QED  BY <1>3, <1>4, <1>5, <1>6, <1>7, <1>8, <1>9, <1>10, Zenon

\* The steps of workers and retries keep the types.
LEMMA WorkerTypes ==
  ASSUME Typed, (\E w \in Workers : WorkerStep(w)) \/ Retry
  PROVE  Typed'
<1>1. ASSUME NEW w \in Workers, TakePriority(w) PROVE Typed'
  <2>1. Head(priorityQueue) \in Task /\ priorityQueue' \in Seq(Task) /\ Len(priorityQueue') <= PriorityCap
    <3>1. priorityQueue \in Seq(Task) /\ priorityQueue # <<>> /\ Len(priorityQueue) <= PriorityCap
          /\ priorityQueue' = Tail(priorityQueue)
      BY <1>1, Zenon DEF Typed, TakePriority
    <3>. QED  BY <3>1, TailIs, MonitoringAssumption
  <2>. QED  BY <1>1, <2>1, TakeTypes, TypesKept, Zenon DEF TakePriority, Typed, timing, calls
<1>2. ASSUME NEW w \in Workers, TakeNormal(w) PROVE Typed'
  <2>1. Head(normalQueue) \in Task /\ normalQueue' \in Seq(Task) /\ Len(normalQueue') <= NormalCap
    <3>1. normalQueue \in Seq(Task) /\ normalQueue # <<>> /\ Len(normalQueue) <= NormalCap
          /\ normalQueue' = Tail(normalQueue)
      BY <1>2, Zenon DEF Typed, TakeNormal
    <3>. QED  BY <3>1, TailIs, MonitoringAssumption
  <2>. QED  BY <1>2, <2>1, TakeTypes, TypesKept, Zenon DEF TakeNormal, Typed, timing, calls
<1>3. ASSUME NEW w \in Workers, NEW success \in BOOLEAN, applyResult(w, success) PROVE Typed'
  <2>1. work[w] \in Task
    BY <1>3, Zenon DEF applyResult, EndTest, Typed
  <2>2. work[w].tag \in Outbounds /\ 0 \in Nat
    BY <2>1 DEF Task
  <2>3. Cleared \in MarkRec
    BY <2>2, Zenon DEF Cleared, MarkRec
  <2>4. state' \in [Outbounds -> MarkRec]
    BY <1>3, <2>2, <2>3, Zenon DEF applyResult, EndTest, Typed
  <2>5. due' \subseteq Outbounds /\ work' \in [Workers -> Task \cup {None}]
    BY <1>3, <2>2, Zenon DEF applyResult, EndTest, Typed
  <2>6. cycle' \in CycleRec /\ cycle'.pc = cycle.pc
    <3>. DEFINE new == [cycle EXCEPT !.got = cycle.got + 1, !.success = cycle.success \/ success]
    <3>1. cycle.got \in Nat /\ cycle.success \in BOOLEAN
      BY Zenon DEF Typed, CycleRec
    <3>2. cycle.got + 1 \in Nat /\ (cycle.success \/ success) \in BOOLEAN
      BY <3>1
    <3>3. new \in CycleRec /\ new.pc = cycle.pc
      BY <3>2, Zenon DEF Typed, CycleRec
    <3>. QED  BY <1>3, <3>3, Zenon DEF applyResult, EndTest, Typed
  <2>7. group' \in [notified : BOOLEAN, timer : BOOLEAN, unseen : BOOLEAN]
    BY <1>3, Zenon DEF applyResult, EndTest, emitGroupEvent, Typed
  <2>. QED  BY <1>3, <2>4, <2>5, <2>6, <2>7, TypesKept, Zenon DEF applyResult, EndTest, Typed, timing, calls
<1>4. CASE Retry
  <2>1. retries \in Seq(Task) /\ retries # <<>> /\ retries' = Tail(retries)
    BY <1>4, Zenon DEF Typed, Retry
  <2>2. Head(retries) \in Task /\ retries' \in Seq(Task)
    BY <2>1, TailIs, Zenon
  <2>3. Head(retries).cycleID + 1 \in Nat
    BY <2>2 DEF Task
  <2>4. [Head(retries) EXCEPT !.cycleID = @ + 1] \in Task
    BY <2>2, <2>3, Zenon DEF Task
  <2>. QED  BY <1>4, <2>2, <2>4, EnqueueTypes, TypesKept, Zenon DEF Retry, Typed, timing, calls
<1>. QED  BY <1>1, <1>2, <1>3, <1>4, Zenon DEF WorkerStep

\* The steps of a cycle keep the types.
LEMMA CycleTypes ==
  ASSUME Typed, CycleStep \/ \E idle \in BOOLEAN, old \in SUBSET Outbounds : Tick(idle, old)
  PROVE  Typed'
<1>1. cycle \in CycleRec /\ due \subseteq Outbounds /\ setup.urls \in Nat \ {0} /\ setup.cycles \in Nat
      /\ cycleSeq \in 0 .. setup.cycles
  BY DEF Typed, SetupOK
<1>2. 1 \in 1 .. setup.urls /\ 0 \in Nat /\ cycleSeq \in Nat
  BY <1>1
<1>3. NoCycle \in CycleRec /\ NoCycle.pc # "begin"
  BY <1>2, Zenon DEF NoCycle, CycleRec
<1>4. CASE runCycle
  <2>1. cycleSeq < setup.cycles
    BY <1>4, Zenon DEF runCycle, Typed
  <2>2. cycleSeq' \in 0 .. setup.cycles
    BY <1>1, <1>4, <2>1 DEF runCycle
  <2>3. cycle' \in CycleRec /\ cycle'.pc # "begin"
    BY <1>1, <1>4, Zenon DEF runCycle, CycleRec
  <2>. QED  BY <1>4, <2>2, <2>3, TypesKept, Zenon DEF runCycle, Typed, marks, calls
<1>5. CASE collectCycleTargets
  <2>. DEFINE tags == {o \in due : Unmarked(o)}
              new == [cycle EXCEPT !.pc = "stage", !.tags = tags, !.left = tags]
  <2>1. tags \in SUBSET Outbounds
    BY <1>1, Zenon
  <2>. HIDE DEF tags
  <2>2. new \in CycleRec /\ new.pc # "begin"
    BY <1>1, <2>1, Zenon DEF CycleRec
  <2>3. cycle' \in CycleRec /\ cycle'.pc # "begin"
    BY <1>3, <1>5, <2>2, Zenon DEF collectCycleTargets, tags
  <2>. QED  BY <1>5, <2>3, TypesKept, Zenon DEF collectCycleTargets, Typed, marks, timing, calls
<1>6. ASSUME NEW o \in Outbounds, runStage(o) PROVE Typed'
  <2>1. StageTask(o) \in Task
    BY <1>2, Zenon DEF StageTask, Task
  <2>2. cycle.expected + 1 \in Nat /\ cycle.expected \in Nat /\ cycle.left \ {o} \in SUBSET Outbounds
    BY <1>1 DEF CycleRec
  <2>3. ASSUME NEW n \in Nat
        PROVE  /\ [cycle EXCEPT !.left = cycle.left \ {o}, !.expected = n] \in CycleRec
               /\ [cycle EXCEPT !.left = cycle.left \ {o}, !.expected = n].pc = cycle.pc
    BY <1>1, <2>2, Zenon DEF CycleRec
  <2>4. cycle' \in CycleRec /\ cycle'.pc = cycle.pc
    BY <1>6, <2>2, <2>3, Zenon DEF runStage
  <2>. QED  BY <1>6, <2>1, <2>4, EnqueueTypes, TypesKept, Zenon DEF runStage, Typed, timing, calls
<1>7. CASE EndStage
  <2>. DEFINE new == [cycle EXCEPT !.url = cycle.url + 1, !.left = cycle.tags, !.expected = 0, !.got = 0]
  <2>1. cycle.url \in 1 .. setup.urls /\ cycle.tags \in SUBSET Outbounds
    BY <1>1, Zenon DEF CycleRec
  <2>2. cycle.url # setup.urls => cycle.url + 1 \in 1 .. setup.urls
    BY <1>1, <2>1
  <2>3. cycle.url # setup.urls => new \in CycleRec /\ new.pc = cycle.pc
    BY <1>1, <1>2, <2>1, <2>2, Zenon DEF CycleRec
  <2>4. cycle' \in CycleRec /\ cycle'.pc # "begin"
    BY <1>3, <1>7, <2>3, Zenon DEF EndStage
  <2>. QED  BY <1>7, <2>4, TypesKept, Zenon DEF EndStage, Typed, marks, timing, calls
<1>8. ASSUME NEW idle \in BOOLEAN, NEW old \in SUBSET Outbounds, Tick(idle, old) PROVE Typed'
  <2>1. due' \subseteq Outbounds
    BY <1>1, <1>8, Zenon DEF Tick
  <2>2. [NoCycle EXCEPT !.pc = "begin"] \in CycleRec
    BY <1>3, Zenon DEF CycleRec
  <2>3. cycle' \in CycleRec /\ (cycle'.pc = "begin" => cycleSeq < setup.cycles) /\ ticker' \in {"off", "on", "stopping"}
    BY <1>8, <2>2, Zenon DEF Tick, startCycleOnce, Typed
  <2>. QED  BY <1>8, <2>1, <2>3, TypesKept, Zenon DEF Tick, Typed, marks, calls
<1>. QED  BY <1>4, <1>5, <1>6, <1>7, <1>8, Zenon DEF CycleStep

\* Every step of the monitor keeps the types.
LEMMA TypesStep == Typed /\ [MonitorNext]_monitorVars => Typed'
<1>. SUFFICES ASSUME Typed, [MonitorNext]_monitorVars PROVE Typed'
  OBVIOUS
<1>1. CASE stopTimerWorkers
  BY <1>1, TypesKept, Zenon DEF stopTimerWorkers, Typed, marks, calls
<1>2. CASE Notified
  <2>1. group' \in [notified : BOOLEAN, timer : BOOLEAN, unseen : BOOLEAN]
    BY <1>2, Zenon DEF Notified, Typed
  <2>. QED  BY <1>2, <2>1, TypesKept, Zenon DEF Notified, Typed, marks, timing, calls
<1>3. CASE Publish
  <2>1. group' \in [notified : BOOLEAN, timer : BOOLEAN, unseen : BOOLEAN]
    BY <1>3, Zenon DEF Publish, Typed
  <2>. QED  BY <1>3, <2>1, TypesKept, Zenon DEF Publish, Typed, marks, timing, calls
<1>4. CASE Close
  BY <1>4, TypesKept, Zenon DEF Close, Typed, marks, timing, calls
<1>5. CASE UNCHANGED monitorVars
  BY <1>5, TypesKept, Zenon DEF monitorVars, Typed, marks, timing, calls
<1>. QED  BY <1>1, <1>2, <1>3, <1>4, <1>5, CallerTypes, WorkerTypes, CycleTypes, Zenon DEF MonitorNext, CallerStep

\* What the caller, the queues and the goroutines hold always has its type.
THEOREM MonitorTypes == MonitorSpec => []MonitorTypeOK
<1>1. MonitorSpec => []Typed
  BY TypesInit, TypesStep, PTL DEF MonitorSpec
<1>. QED  BY <1>1, TypedIsTypeOK, PTL

-----------------------------------------------------------------------------
(* The tasks of a stage *)

\* What tests of a single outbound ask for, and what cycles do
SingleTasks == {t \in Task : t.priority /\ ~t.stage}
StageTasks == {t \in Task : ~t.priority /\ t.stage}

\* Where each kind of task can be, if no test of the group is asked for.
Kinds ==
  /\ priorityQueue \in Seq(SingleTasks) /\ normalQueue \in Seq(StageTasks)
  /\ retries \in Seq(SingleTasks \cup StageTasks)
  /\ work \in [Workers -> SingleTasks \cup StageTasks \cup {None}]
  /\ \A i \in caller \ {Signal} : i.priority

\* An outbound has one task of the stage at most.
Once ==
  /\ Distinct(normalQueue) /\ Distinct(retries) /\ Distinct(work)
  /\ TagsIn(normalQueue) \cap TagsIn(retries) = {}
  /\ TagsIn(normalQueue) \cap TagsIn(work) = {}
  /\ TagsIn(retries) \cap TagsIn(work) = {}

\* The retry of a task will not be found superfluous.
Retriable == Fresh(normalQueue, state) /\ Fresh(retries, state)

Counting ==
  /\ cycle.expected = cycle.got + Cardinality(StageTags)
  /\ cycle.pc # "stage" => StageTags = {}
  /\ StageTags \cap cycle.left = {}

Marked == \A o \in Outbounds : state[o].queued => o \in StageTags

Stages == Kinds /\ Once /\ Retriable /\ Counting /\ Marked

\* A task stays as retriable as it was if its outbound's mark is cleared.
LEMMA FreshKept ==
  ASSUME NEW q, NEW m1, NEW m2, Fresh(q, m1),
         \A o \in TagsIn(q) : m2[o].enqueuedCycle \in {m1[o].enqueuedCycle, 0}
  PROVE  Fresh(q, m2)
<1>. SUFFICES ASSUME NEW x \in Staged(q) PROVE m2[q[x].tag].enqueuedCycle \in {0, q[x].cycleID}
  BY Zenon DEF Fresh
<1>1. q[x].tag \in TagsIn(q)
  BY Zenon DEF TagsIn
<1>2. m1[q[x].tag].enqueuedCycle \in {0, q[x].cycleID}
  BY Zenon DEF Fresh
<1>. QED  BY <1>1, <1>2, Zenon

\* The tasks of stages belong to outbounds, of which there are finitely many.
LEMMA StageTagsFinite ==
  ASSUME Typed
  PROVE  StageTags \subseteq Outbounds /\ IsFiniteSet(StageTags) /\ Cardinality(StageTags) \in Nat
<1>1. \A t \in Task : t.tag \in Outbounds
  BY Zenon DEF Task
<1>2. TagsIn(work) \subseteq Outbounds
  <2>. SUFFICES ASSUME NEW w \in Staged(work) PROVE work[w].tag \in Outbounds
    BY Zenon DEF TagsIn
  <2>1. w \in Workers /\ work[w] # None
    BY Zenon DEF Staged, Typed
  <2>. QED  BY <1>1, <2>1, Zenon DEF Typed
<1>3. ASSUME NEW q \in Seq(Task) PROVE TagsIn(q) \subseteq Outbounds
  <2>. SUFFICES ASSUME NEW i \in Staged(q) PROVE q[i].tag \in Outbounds
    BY Zenon DEF TagsIn
  <2>1. i \in DOMAIN q
    BY Zenon DEF Staged
  <2>2. q[i] \in Task
    BY <2>1
  <2>. QED  BY <1>1, <2>2, Zenon
<1>4. TagsIn(normalQueue) \subseteq Outbounds /\ TagsIn(retries) \subseteq Outbounds
  BY <1>3, Zenon DEF Typed
<1>5. StageTags \in SUBSET Outbounds
  BY <1>2, <1>4, Zenon DEF StageTags
<1>6. IsFiniteSet(Outbounds)
  BY Zenon DEF Typed, SetupOK, Outbounds
<1>. QED  BY <1>5, <1>6, FS_Subset, FS_CardinalityType, Zenon

\* A worker that has no task gets one.
LEMMA WorkTags ==
  ASSUME Typed, Distinct(work), NEW w \in Workers, work[w] = None,
         NEW t \in Task, t.stage => t.tag \notin TagsIn(work), work' = [work EXCEPT ![w] = t]
  PROVE  /\ Distinct(work')
         /\ TagsIn(work') = IF t.stage THEN TagsIn(work) \cup {t.tag} ELSE TagsIn(work)
<1>. DEFINE f == work
            g == work'
<1>1. DOMAIN f = Workers /\ DOMAIN g = Workers /\ g[w] = t /\ f[w] = None /\ \A x \in Workers \ {w} : g[x] = f[x]
  BY Zenon DEF Typed
<1>. t.stage => t.tag \notin TagsIn(f)
  BY Zenon
<1>. Distinct(f)
  BY Zenon
<1>. HIDE DEF f, g
<1>2. t # None
  BY NoneIsNoTask, Zenon
<1>3. \A x \in Staged(f) : x \in Staged(g) /\ g[x] = f[x] /\ x # w
  BY <1>1, Zenon DEF Staged
<1>4. \A x \in Staged(g) : x # w => x \in Staged(f)
  BY <1>1 DEF Staged
<1>5. t.stage <=> w \in Staged(g)
  BY <1>1, <1>2 DEF Staged
<1>6. \A x \in Staged(f) : f[x].tag \in TagsIn(f)
  BY Zenon DEF TagsIn
<1>7. Distinct(g)
  <2>. SUFFICES ASSUME NEW x \in Staged(g), NEW y \in Staged(g), g[x].tag = g[y].tag PROVE x = y
    BY Zenon DEF Distinct
  <2>1. CASE x # w /\ y # w
    BY <1>3, <1>4, <2>1, Zenon DEF Distinct
  <2>2. CASE x = w /\ y # w
    BY <1>1, <1>3, <1>4, <1>5, <1>6, <2>2, Zenon
  <2>3. CASE x # w /\ y = w
    BY <1>1, <1>3, <1>4, <1>5, <1>6, <2>3, Zenon
  <2>. QED  BY <2>1, <2>2, <2>3, Zenon
<1>8. TagsIn(f) \subseteq TagsIn(g)
  BY <1>3, Zenon DEF TagsIn
<1>9. \A x \in Staged(g) : x # w => g[x].tag \in TagsIn(f)
  BY <1>3, <1>4, <1>6, Zenon
<1>10. t.stage => t.tag \in TagsIn(g) /\ TagsIn(g) \subseteq TagsIn(f) \cup {t.tag}
  BY <1>1, <1>5, <1>9, Zenon DEF TagsIn
<1>11. ~t.stage => TagsIn(g) \subseteq TagsIn(f)
  BY <1>5, <1>9, Zenon DEF TagsIn
<1>12. TagsIn(g) = IF t.stage THEN TagsIn(f) \cup {t.tag} ELSE TagsIn(f)
  BY <1>8, <1>10, <1>11, Zenon
<1>. QED  BY <1>7, <1>12, Zenon DEF f, g

\* A worker gives its task back.
LEMMA DoneTags ==
  ASSUME NEW W, NEW f \in [W -> Task \cup {None}], NEW w \in W, f[w] # None, Distinct(f)
  PROVE  /\ Distinct([f EXCEPT ![w] = None])
         /\ TagsIn([f EXCEPT ![w] = None]) = IF f[w].stage THEN TagsIn(f) \ {f[w].tag} ELSE TagsIn(f)
         /\ f[w].stage => f[w].tag \in TagsIn(f)
<1>. DEFINE g == [f EXCEPT ![w] = None]
<1>1. DOMAIN f = W /\ DOMAIN g = W /\ g[w] = None /\ \A x \in W \ {w} : g[x] = f[x]
  BY Zenon
<1>. HIDE DEF g
<1>2. \A x \in Staged(g) : x \in Staged(f) /\ g[x] = f[x] /\ x # w
  BY <1>1, Zenon DEF Staged
<1>3. \A x \in Staged(f) : x # w => x \in Staged(g) /\ g[x] = f[x]
  BY <1>1 DEF Staged
<1>4. f[w].stage <=> w \in Staged(f)
  BY <1>1, Zenon DEF Staged
<1>5. Distinct(g)
  BY <1>2, Zenon DEF Distinct
<1>6. TagsIn(g) \subseteq TagsIn(f)
  BY <1>2, Zenon DEF TagsIn
<1>7. \A x \in Staged(f) : x # w => f[x].tag \in TagsIn(g)
  BY <1>3, Zenon DEF TagsIn
<1>8. f[w].stage => f[w].tag \in TagsIn(f) /\ f[w].tag \notin TagsIn(g)
  <2>1. f[w].stage => f[w].tag \in TagsIn(f)
    BY <1>4, Zenon DEF TagsIn
  <2>2. f[w].stage => \A x \in Staged(g) : g[x].tag # f[w].tag
    BY <1>2, <1>4, Zenon DEF Distinct
  <2>. QED  BY <2>1, <2>2, Zenon DEF TagsIn
<1>9. f[w].stage => TagsIn(f) \subseteq TagsIn(g) \cup {f[w].tag}
  BY <1>7, Zenon DEF TagsIn
<1>10. ~f[w].stage => TagsIn(f) \subseteq TagsIn(g)
  BY <1>4, <1>7, Zenon DEF TagsIn
<1>11. TagsIn(g) = IF f[w].stage THEN TagsIn(f) \ {f[w].tag} ELSE TagsIn(f)
  BY <1>6, <1>8, <1>9, <1>10
<1>. QED  BY <1>5, <1>8, <1>11, Zenon DEF g

\* normalQueue has room for the task of an outbound that has none in it, because
\* no other outbound has two.
LEMMA RoomForEvery ==
  ASSUME Typed, OnlyCycles, normalQueue \in Seq(StageTasks), Distinct(normalQueue),
         NEW o \in Outbounds, o \notin TagsIn(normalQueue)
  PROVE  Len(normalQueue) < NormalCap
<1>. DEFINE n == Len(normalQueue)
            f == [i \in 1 .. n |-> normalQueue[i].tag]
            others == Outbounds \ {o}
<1>. SUFFICES ASSUME ~(n < NormalCap) PROVE FALSE
  OBVIOUS
<1>1. n \in Nat /\ DOMAIN normalQueue = 1 .. n /\ \A i \in 1 .. n : normalQueue[i] \in StageTasks
  OBVIOUS
<1>. HIDE DEF n
<1>2. \A i \in 1 .. n : i \in Staged(normalQueue) /\ normalQueue[i].tag \in Outbounds
  BY <1>1, NoneIsNoTask, Zenon DEF Staged, StageTasks, Task
<1>3. f \in [1 .. n -> others]
  BY <1>2, Zenon DEF TagsIn
<1>4. IsFiniteSet(Outbounds) /\ Cardinality(Outbounds) <= NormalCap
  BY Zenon DEF Typed, SetupOK, Outbounds, OnlyCycles
<1>5. IsFiniteSet(others) /\ Cardinality(others) = Cardinality(Outbounds) - 1 /\ Cardinality(Outbounds) \in Nat
  BY <1>4, FS_RemoveElement, FS_CardinalityType, Zenon
<1>6. IsFiniteSet(1 .. n) /\ Cardinality(1 .. n) = n
  BY <1>1, FS_Interval
<1>7. Cardinality(others) < Cardinality(1 .. n)
  BY <1>1, <1>4, <1>5, <1>6, MonitoringAssumption
<1>8. \E x, y \in 1 .. n : x # y /\ f[x] = f[y]
  <2>. HIDE DEF f, others
  <2>. QED  BY <1>3, <1>5, <1>6, <1>7, FS_PigeonHole, Zenon
<1>. QED  BY <1>2, <1>8, Zenon DEF Distinct

\* enqueueTask of a test of a single outbound leaves the tasks of stages alone.
LEMMA EnqueueSingle ==
  ASSUME Typed, Kinds, NEW t \in SingleTasks, enqueueTask(t)
  PROVE  /\ normalQueue' = normalQueue /\ priorityQueue' \in Seq(SingleTasks)
         /\ \A o \in Outbounds : /\ state'[o].queued = state[o].queued
                                 /\ state'[o].enqueuedCycle = state[o].enqueuedCycle
<1>1. t \in Task /\ t.priority /\ state \in [Outbounds -> MarkRec] /\ priorityQueue \in Seq(SingleTasks)
  BY Zenon DEF SingleTasks, Typed, Kinds
<1>2. normalQueue' = normalQueue /\ (priorityQueue' = priorityQueue \/ priorityQueue' = Append(priorityQueue, t))
      /\ (state' = state \/ state' = Mark(t))
  <2>1. t.priority
    BY <1>1, Zenon
  <2>. QED  BY <2>1 DEF enqueueTask
<1>3. priorityQueue' \in Seq(SingleTasks)
  <2>1. Append(priorityQueue, t) \in Seq(SingleTasks)
    BY <1>1
  <2>. QED  BY <1>1, <1>2, <2>1, Zenon
<1>4. \A o \in Outbounds : Mark(t)[o].queued = state[o].queued /\ Mark(t)[o].enqueuedCycle = state[o].enqueuedCycle
  BY <1>1, MarkIs, Zenon
<1>. QED  BY <1>2, <1>3, <1>4, Zenon

\* enqueueTask takes a task of a stage unless it is superfluous.
LEMMA EnqueueStage ==
  ASSUME Typed, OnlyCycles, Stages, NEW t \in StageTasks, t.tag \notin TagsIn(normalQueue),
         state[t.tag].enqueuedCycle # t.cycleID, enqueueTask(t)
  PROVE  /\ Accepts(t) /\ priorityQueue' = priorityQueue
         /\ normalQueue' = Append(normalQueue, t) /\ normalQueue' \in Seq(StageTasks)
         /\ Distinct(normalQueue') /\ TagsIn(normalQueue') = TagsIn(normalQueue) \cup {t.tag}
         /\ \A o \in Outbounds \ {t.tag} : state'[o] = state[o]
         /\ Fresh(normalQueue', state')
<1>1. /\ t \in Task /\ ~t.priority /\ t.stage /\ state \in [Outbounds -> MarkRec]
      /\ normalQueue \in Seq(StageTasks) /\ normalQueue \in Seq(Task)
      /\ Distinct(normalQueue) /\ Fresh(normalQueue, state)
  BY Zenon DEF StageTasks, Typed, Stages, Kinds, Once, Retriable
<1>2. t.tag \in Outbounds
  BY <1>1, Zenon DEF Task
<1>3. Accepts(t)
  BY <1>1, <1>2, RoomForEvery, Zenon DEF Accepts, Superfluous, Room
<1>4. priorityQueue' = priorityQueue /\ normalQueue' = Append(normalQueue, t) /\ state' = Mark(t)
  BY <1>1, <1>3, Zenon DEF enqueueTask, Accepts
<1>5. state'[t.tag].enqueuedCycle = t.cycleID /\ \A o \in Outbounds \ {t.tag} : state'[o] = state[o]
  BY <1>1, <1>4, MarkIs, Zenon
<1>6. \A o \in TagsIn(normalQueue) : o \in Outbounds \ {t.tag}
  <2>1. TagsIn(normalQueue) \subseteq Outbounds
    BY StageTagsFinite, Zenon DEF StageTags
  <2>. QED  BY <2>1, Zenon
<1>7. Fresh(normalQueue, state')
  BY <1>1, <1>5, <1>6, FreshKept, Zenon
<1>8. Distinct(Append(normalQueue, t)) /\ Fresh(Append(normalQueue, t), state')
      /\ TagsIn(Append(normalQueue, t)) = TagsIn(normalQueue) \cup {t.tag}
  BY <1>1, <1>5, <1>7, AppendTags, Zenon
<1>9. Append(normalQueue, t) \in Seq(StageTasks)
  BY <1>1, AppendIs, Zenon
<1>. QED  BY <1>3, <1>4, <1>5, <1>8, <1>9, Zenon

\* A step that touches no task of a stage: the cycle goes on as it was, or one
\* without tasks changes.
LEMMA QuietKeeps ==
  ASSUME Typed, Stages, UNCHANGED <<setup, state, priorityQueue, normalQueue, retries, work>>,
         \A i \in caller' \ {Signal} : i.priority,
         cycle' = cycle \/ (StageTags = {} /\ cycle'.expected = cycle'.got /\ cycle'.got \in Nat)
  PROVE  Stages'
<1>1. UNCHANGED <<Outbounds, Workers>>
  BY DEF Outbounds, Workers
<1>2. UNCHANGED <<Task, StageTags>>
  BY <1>1, Zenon DEF Task, StageTags
<1>3. SingleTasks' = SingleTasks /\ StageTasks' = StageTasks
  BY <1>2, Zenon DEF SingleTasks, StageTasks
<1>4. Kinds' /\ Once' /\ Retriable' /\ Marked'
  BY <1>1, <1>2, <1>3, Zenon DEF Stages, Kinds, Once, Retriable, Marked
<1>5. Counting'
  <2>1. CASE cycle' = cycle
    BY <1>2, <2>1, Zenon DEF Stages, Counting
  <2>2. CASE StageTags = {} /\ cycle'.expected = cycle'.got /\ cycle'.got \in Nat
    <3>1. cycle'.expected = cycle'.got + 0
      BY <2>2
    <3>. QED  BY <1>2, <2>2, <3>1, FS_EmptySet, Zenon DEF Counting
  <2>. QED  BY <2>1, <2>2
<1>. QED  BY <1>4, <1>5, Zenon DEF Stages

\* A step that moves tasks about.
LEMMA MovedKeeps ==
  ASSUME Typed, Stages, UNCHANGED <<setup, cycle>>, Kinds', Once', Retriable', StageTags' = StageTags,
         \A o \in Outbounds : state'[o].queued => state[o].queued \/ o \in StageTags
  PROVE  Stages'
<1>1. UNCHANGED Outbounds
  BY DEF Outbounds
<1>. QED  BY <1>1, Zenon DEF Stages, Counting, Marked

\* The kinds of tasks are those of the setup.
LEMMA SameKinds ==
  ASSUME UNCHANGED setup
  PROVE  UNCHANGED <<Outbounds, Workers, Task, SingleTasks, StageTasks>>
<1>1. UNCHANGED <<Outbounds, Workers>>
  BY DEF Outbounds, Workers
<1>2. UNCHANGED Task
  BY <1>1, Zenon DEF Task
<1>. QED  BY <1>1, <1>2, Zenon DEF SingleTasks, StageTasks

\* A request for a test of a single outbound is put into priorityQueue.
LEMMA TestNowKeeps ==
  ASSUME Typed, Stages, NEW i \in caller, testNow(i)
  PROVE  Stages'
<1>. DEFINE t == [tag |-> i.tag, priority |-> i.priority, cycleID |-> cycleSeq, stage |-> FALSE]
<1>1. i \in Item /\ i.priority /\ cycleSeq \in Nat
  <2>1. i \in caller \ {Signal}
    BY Zenon DEF testNow
  <2>2. cycleSeq \in Nat
    BY DEF Typed, SetupOK
  <2>. QED  BY <2>1, <2>2, Zenon DEF Typed, Stages, Kinds
<1>2. t \in Task /\ t.priority /\ ~t.stage
  BY <1>1, Zenon DEF Item, Task
<1>3. t \in SingleTasks
  BY <1>2, Zenon DEF SingleTasks
<1>4. enqueueTask(t) /\ caller' = caller \ {i} /\ UNCHANGED <<setup, retries, work, cycle>>
  BY Zenon DEF testNow
<1>. HIDE DEF t
<1>5. /\ normalQueue' = normalQueue /\ priorityQueue' \in Seq(SingleTasks)
      /\ \A o \in Outbounds : state'[o].queued = state[o].queued /\ state'[o].enqueuedCycle = state[o].enqueuedCycle
  BY <1>3, <1>4, EnqueueSingle, Zenon DEF Stages
<1>6. Kinds'
  BY <1>4, <1>5, SameKinds, Zenon DEF Stages, Kinds
<1>7. Once' /\ StageTags' = StageTags
  BY <1>4, <1>5, Zenon DEF Stages, Once, StageTags
<1>8. Retriable'
  <2>1. \A o \in StageTags : state'[o].enqueuedCycle = state[o].enqueuedCycle
    BY <1>5, StageTagsFinite, Zenon
  <2>2. Fresh(normalQueue, state') /\ Fresh(retries, state')
    BY <2>1, FreshKept, Zenon DEF Stages, Retriable, StageTags
  <2>. QED  BY <1>4, <1>5, <2>2, Zenon DEF Retriable
<1>. QED  BY <1>4, <1>5, <1>6, <1>7, <1>8, MovedKeeps, Zenon

\* What a worker that takes a task leaves of the marks.
LEMMA TakeMarks ==
  ASSUME Typed, NEW w \in Workers, NEW t \in Task, Take(w, t)
  PROVE  \A o \in Outbounds : /\ state'[o].queued = state[o].queued
                              /\ state'[o].enqueuedCycle = state[o].enqueuedCycle
<1>1. state \in [Outbounds -> MarkRec] /\ t.tag \in Outbounds
  BY Zenon DEF Typed, Task
<1>2. PICK b \in BOOLEAN : state' = [state EXCEPT ![t.tag] = [state[t.tag] EXCEPT !.testing = b]]
  BY Zenon DEF Take
<1>3. state[t.tag] \in MarkRec
  BY <1>1, Zenon
<1>4. /\ [state[t.tag] EXCEPT !.testing = b].queued = state[t.tag].queued
      /\ [state[t.tag] EXCEPT !.testing = b].enqueuedCycle = state[t.tag].enqueuedCycle
  BY <1>3, Zenon DEF MarkRec
<1>5. /\ state'[t.tag] = [state[t.tag] EXCEPT !.testing = b]
      /\ \A o \in Outbounds \ {t.tag} : state'[o] = state[o]
  BY <1>1, <1>2, Zenon
<1>. QED  BY <1>4, <1>5, Zenon

\* A worker takes a test of a single outbound.
LEMMA TakePriorityKeeps ==
  ASSUME Typed, Stages, NEW w \in Workers, TakePriority(w)
  PROVE  Stages'
<1>. DEFINE t == Head(priorityQueue)
<1>1. /\ priorityQueue \in Seq(SingleTasks) /\ priorityQueue # <<>> /\ priorityQueue' = Tail(priorityQueue)
      /\ Take(w, t) /\ work[w] = None
      /\ UNCHANGED <<setup, normalQueue, cycle, caller>>
  BY Zenon DEF Stages, Kinds, TakePriority, calls
<1>2. t \in SingleTasks /\ priorityQueue' \in Seq(SingleTasks)
  BY <1>1, TailIs, Zenon
<1>. HIDE DEF t
<1>3. t \in Task /\ ~t.stage
  BY <1>2, Zenon DEF SingleTasks
<1>4. \A o \in Outbounds : state'[o].queued = state[o].queued /\ state'[o].enqueuedCycle = state[o].enqueuedCycle
  BY <1>1, <1>3, TakeMarks, Zenon
<1>5. \/ retries' = retries /\ work' = [work EXCEPT ![w] = t]
      \/ retries' = Append(retries, t) /\ work' = work
  BY <1>1, Zenon DEF Take
<1>6. Fresh(normalQueue, state') /\ Fresh(retries, state')
  <2>1. \A o \in StageTags : state'[o].enqueuedCycle = state[o].enqueuedCycle
    BY <1>4, StageTagsFinite, Zenon
  <2>. QED  BY <2>1, FreshKept, Zenon DEF Stages, Retriable, StageTags
<1>7. Distinct(retries') /\ TagsIn(retries') = TagsIn(retries) /\ Fresh(retries', state')
      /\ retries' \in Seq(SingleTasks \cup StageTasks)
  <2>1. retries \in Seq(Task) /\ retries \in Seq(SingleTasks \cup StageTasks) /\ Distinct(retries)
    BY Zenon DEF Typed, Stages, Kinds, Once
  <2>2. Append(retries, t) \in Seq(SingleTasks \cup StageTasks)
    BY <1>2, <2>1, AppendIs, Zenon
  <2>3. Distinct(Append(retries, t)) /\ TagsIn(Append(retries, t)) = TagsIn(retries) /\ Fresh(Append(retries, t), state')
    BY <1>3, <1>6, <2>1, AppendTags, Zenon
  <2>. QED  BY <1>5, <1>6, <2>1, <2>2, <2>3, Zenon
<1>8. Distinct(work') /\ TagsIn(work') = TagsIn(work) /\ work' \in [Workers -> SingleTasks \cup StageTasks \cup {None}]
  <2>1. /\ work \in [Workers -> Task \cup {None}] /\ Distinct(work)
        /\ work \in [Workers -> SingleTasks \cup StageTasks \cup {None}]
    BY Zenon DEF Typed, Stages, Kinds, Once
  <2>2. work' = [work EXCEPT ![w] = t] => Distinct(work') /\ TagsIn(work') = TagsIn(work)
    <3>. SUFFICES ASSUME work' = [work EXCEPT ![w] = t] PROVE Distinct(work') /\ TagsIn(work') = TagsIn(work)
      OBVIOUS
    <3>1. work[w] = None
      BY <1>1, Zenon
    <3>. QED  BY <1>3, <2>1, <3>1, WorkTags, Zenon
  <2>. QED  BY <1>2, <1>5, <2>1, <2>2, Zenon
<1>9. Kinds'
  BY <1>1, <1>2, <1>7, <1>8, SameKinds, Zenon DEF Stages, Kinds
<1>10. Once' /\ StageTags' = StageTags
  BY <1>1, <1>7, <1>8, Zenon DEF Stages, Once, StageTags
<1>11. Retriable'
  BY <1>1, <1>6, <1>7, Zenon DEF Retriable
<1>. QED  BY <1>1, <1>4, <1>9, <1>10, <1>11, MovedKeeps, Zenon

\* A worker takes a task of a stage, to test it or to have it retried.
LEMMA TakeNormalKeeps ==
  ASSUME Typed, Stages, NEW w \in Workers, TakeNormal(w)
  PROVE  Stages'
<1>. DEFINE t == Head(normalQueue)
<1>1. /\ normalQueue \in Seq(StageTasks) /\ normalQueue \in Seq(Task) /\ normalQueue # <<>>
      /\ normalQueue' = Tail(normalQueue)
      /\ Take(w, t) /\ work[w] = None
      /\ UNCHANGED <<setup, priorityQueue, cycle, caller>>
  BY Zenon DEF Typed, Stages, Kinds, TakeNormal, calls
<1>2. t \in StageTasks /\ normalQueue' \in Seq(StageTasks)
  BY <1>1, TailIs, Zenon
<1>3. Distinct(normalQueue) /\ Fresh(normalQueue, state)
  BY Zenon DEF Stages, Once, Retriable
<1>4. t.stage
  BY <1>2, Zenon DEF StageTasks
<1>5. /\ Distinct(normalQueue') /\ Fresh(normalQueue', state)
      /\ TagsIn(normalQueue') = TagsIn(normalQueue) \ {t.tag} /\ t.tag \in TagsIn(normalQueue)
      /\ state[t.tag].enqueuedCycle \in {0, t.cycleID}
  BY <1>1, <1>3, <1>4, TailTags, Zenon
<1>. HIDE DEF t
<1>6. t \in Task /\ t.tag \in Outbounds
  BY <1>2, Zenon DEF StageTasks, Task
<1>7. \A o \in Outbounds : state'[o].queued = state[o].queued /\ state'[o].enqueuedCycle = state[o].enqueuedCycle
  BY <1>1, <1>6, TakeMarks, Zenon
<1>8. \/ retries' = retries /\ work' = [work EXCEPT ![w] = t]
      \/ retries' = Append(retries, t) /\ work' = work
  BY <1>1, Zenon DEF Take
<1>9. Fresh(normalQueue', state') /\ Fresh(retries, state')
  <2>1. \A o \in StageTags : state'[o].enqueuedCycle = state[o].enqueuedCycle
    BY <1>7, StageTagsFinite, Zenon
  <2>2. TagsIn(normalQueue') \subseteq StageTags /\ TagsIn(retries) \subseteq StageTags
    BY <1>5, Zenon DEF StageTags
  <2>3. Fresh(normalQueue', state')
    BY <1>5, <2>1, <2>2, FreshKept, Zenon
  <2>4. Fresh(retries, state)
    BY Zenon DEF Stages, Retriable
  <2>5. Fresh(retries, state')
    BY <2>1, <2>2, <2>4, FreshKept, Zenon
  <2>. QED  BY <2>3, <2>5, Zenon
<1>10. t.tag \notin TagsIn(retries) /\ t.tag \notin TagsIn(work)
  BY <1>5, Zenon DEF Stages, Once
<1>11. CASE retries' = retries /\ work' = [work EXCEPT ![w] = t]
  <2>1. /\ work \in [Workers -> Task \cup {None}] /\ Distinct(work)
        /\ work \in [Workers -> SingleTasks \cup StageTasks \cup {None}]
    BY Zenon DEF Typed, Stages, Kinds, Once
  <2>2. Distinct(work') /\ TagsIn(work') = TagsIn(work) \cup {t.tag}
    <3>1. /\ work[w] = None /\ work \in [Workers -> Task \cup {None}] /\ Distinct(work)
          /\ t \in Task /\ t.tag \notin TagsIn(work)
      BY <1>1, <1>6, <1>10, <2>1, Zenon
    <3>2. work' = [work EXCEPT ![w] = t]
      BY <1>11, Zenon
    <3>. QED  BY <1>4, <3>1, <3>2, WorkTags, Zenon
  <2>3. work' \in [Workers -> SingleTasks \cup StageTasks \cup {None}]
    BY <1>2, <1>11, <2>1, Zenon
  <2>4. Kinds'
    BY <1>1, <1>2, <1>11, <2>3, SameKinds, Zenon DEF Stages, Kinds
  <2>5. Once'
    BY <1>5, <1>10, <1>11, <2>2, Zenon DEF Stages, Once
  <2>6. StageTags' = StageTags
    BY <1>5, <1>11, <2>2, Zenon DEF StageTags
  <2>7. Retriable'
    BY <1>9, <1>11, Zenon DEF Retriable
  <2>. QED  BY <1>1, <1>7, <2>4, <2>5, <2>6, <2>7, MovedKeeps, Zenon
<1>12. CASE retries' = Append(retries, t) /\ work' = work
  <2>1. retries \in Seq(Task) /\ retries \in Seq(SingleTasks \cup StageTasks) /\ Distinct(retries)
    BY Zenon DEF Typed, Stages, Kinds, Once
  <2>2. state'[t.tag].enqueuedCycle \in {0, t.cycleID}
    BY <1>5, <1>6, <1>7, Zenon
  <2>3. Distinct(retries') /\ TagsIn(retries') = TagsIn(retries) \cup {t.tag} /\ Fresh(retries', state')
    BY <1>4, <1>6, <1>9, <1>10, <1>12, <2>1, <2>2, AppendTags, Zenon
  <2>4. retries' \in Seq(SingleTasks \cup StageTasks)
    BY <1>2, <1>12, <2>1, AppendIs, Zenon
  <2>5. Kinds'
    BY <1>1, <1>2, <1>12, <2>4, SameKinds, Zenon DEF Stages, Kinds
  <2>6. Once'
    BY <1>5, <1>10, <1>12, <2>3, Zenon DEF Stages, Once
  <2>7. StageTags' = StageTags
    BY <1>5, <1>12, <2>3, Zenon DEF StageTags
  <2>8. Retriable'
    BY <1>9, <2>3, Zenon DEF Retriable
  <2>. QED  BY <1>1, <1>7, <2>5, <2>6, <2>7, <2>8, MovedKeeps, Zenon
<1>. QED  BY <1>8, <1>11, <1>12, Zenon

\* The retry of a task of a stage is accepted: the task is not lost.
LEMMA RetryKeeps ==
  ASSUME Typed, OnlyCycles, Stages, Retry
  PROVE  Stages'
<1>. DEFINE h == Head(retries)
            t == [h EXCEPT !.cycleID = @ + 1]
<1>1. /\ retries \in Seq(SingleTasks \cup StageTasks) /\ retries \in Seq(Task) /\ retries # <<>>
      /\ retries' = Tail(retries) /\ enqueueTask(t)
      /\ UNCHANGED <<setup, work, cycle, caller>>
  BY Zenon DEF Typed, Stages, Kinds, Retry, calls
<1>2. h \in SingleTasks \cup StageTasks /\ retries' \in Seq(SingleTasks \cup StageTasks)
  BY <1>1, TailIs, Zenon
<1>3. Distinct(retries) /\ Fresh(retries, state)
  BY Zenon DEF Stages, Once, Retriable
<1>4. /\ Distinct(retries') /\ Fresh(retries', state)
      /\ TagsIn(retries') = IF h.stage THEN TagsIn(retries) \ {h.tag} ELSE TagsIn(retries)
      /\ h.stage => h.tag \in TagsIn(retries) /\ state[h.tag].enqueuedCycle \in {0, h.cycleID}
  BY <1>1, <1>3, TailTags, Zenon
<1>. HIDE DEF h
<1>5. h \in Task
  BY <1>2, Zenon DEF SingleTasks, StageTasks
<1>6. h.cycleID \in Nat /\ h.tag \in Outbounds
  BY <1>5, Zenon DEF Task
<1>7. h.cycleID + 1 \in Nat /\ h.cycleID + 1 # 0 /\ h.cycleID + 1 # h.cycleID
  BY <1>6
<1>8. t \in Task /\ t.tag = h.tag /\ t.stage = h.stage /\ t.priority = h.priority /\ t.cycleID = h.cycleID + 1
  BY <1>5, <1>7, Zenon DEF Task
<1>. HIDE DEF t
<1>9. CASE h \in SingleTasks
  <2>1. t \in SingleTasks /\ ~h.stage
    BY <1>8, <1>9, Zenon DEF SingleTasks
  <2>2. /\ normalQueue' = normalQueue /\ priorityQueue' \in Seq(SingleTasks)
        /\ \A o \in Outbounds : state'[o].queued = state[o].queued /\ state'[o].enqueuedCycle = state[o].enqueuedCycle
    BY <1>1, <2>1, EnqueueSingle, Zenon DEF Stages
  <2>3. TagsIn(retries') = TagsIn(retries)
    BY <1>4, <2>1, Zenon
  <2>4. Kinds'
    BY <1>1, <1>2, <2>2, SameKinds, Zenon DEF Stages, Kinds
  <2>5. Once' /\ StageTags' = StageTags
    BY <1>1, <1>4, <2>2, <2>3, Zenon DEF Stages, Once, StageTags
  <2>6. Retriable'
    <3>1. \A o \in StageTags : state'[o].enqueuedCycle = state[o].enqueuedCycle
      BY <2>2, StageTagsFinite, Zenon
    <3>2. Fresh(normalQueue, state') /\ Fresh(retries', state')
      BY <1>4, <2>3, <3>1, FreshKept, ZenonT(40) DEF Stages, Retriable, StageTags
    <3>. QED  BY <2>2, <3>2, Zenon DEF Retriable
  <2>. QED  BY <1>1, <2>2, <2>4, <2>5, <2>6, MovedKeeps, Zenon
<1>10. CASE h \in StageTasks
  <2>1. t \in StageTasks /\ h.stage
    BY <1>8, <1>10, Zenon DEF StageTasks
  <2>2. h.tag \in TagsIn(retries) /\ state[h.tag].enqueuedCycle # t.cycleID
    BY <1>4, <1>7, <1>8, <2>1, Zenon
  <2>3. t.tag \notin TagsIn(normalQueue) /\ t.tag \notin TagsIn(work)
    BY <1>8, <2>2, Zenon DEF Stages, Once
  <2>4. /\ priorityQueue' = priorityQueue
        /\ normalQueue' \in Seq(StageTasks)
        /\ Distinct(normalQueue') /\ TagsIn(normalQueue') = TagsIn(normalQueue) \cup {t.tag}
        /\ \A o \in Outbounds \ {t.tag} : state'[o] = state[o]
        /\ Fresh(normalQueue', state')
    BY <1>1, <1>8, <2>1, <2>2, <2>3, EnqueueStage, Zenon
  <2>5. TagsIn(retries') = TagsIn(retries) \ {t.tag}
    BY <1>4, <1>8, <2>1, Zenon
  <2>6. Kinds'
    BY <1>1, <1>2, <2>4, SameKinds, Zenon DEF Stages, Kinds
  <2>7. Once'
    BY <1>1, <1>4, <2>3, <2>4, <2>5, Zenon DEF Stages, Once
  <2>8. StageTags' = StageTags
    BY <1>1, <1>8, <2>2, <2>4, <2>5, Zenon DEF StageTags
  <2>9. Fresh(retries', state')
    <3>1. TagsIn(retries') \subseteq Outbounds \ {t.tag}
      BY <2>5, StageTagsFinite, Zenon DEF StageTags
    <3>. QED  BY <1>4, <2>4, <3>1, FreshKept, Zenon
  <2>10. \A o \in Outbounds : state'[o].queued => state[o].queued \/ o \in StageTags
    BY <1>8, <2>2, <2>4, Zenon DEF StageTags
  <2>. QED  BY <1>1, <2>4, <2>6, <2>7, <2>8, <2>9, <2>10, MovedKeeps, Zenon DEF Retriable
<1>. QED  BY <1>2, <1>9, <1>10, Zenon

\* A test ends: its result is counted once, if it is one of the stage.
LEMMA EndTestKeeps ==
  ASSUME Typed, Stages, NEW w \in Workers, NEW success \in BOOLEAN, applyResult(w, success)
  PROVE  Stages'
<1>. DEFINE t == work[w]
<1>1. /\ t # None /\ state' = [state EXCEPT ![t.tag] = Cleared] /\ work' = [work EXCEPT ![w] = None]
      /\ cycle' = IF t.stage THEN [cycle EXCEPT !.got = @ + 1, !.success = @ \/ success] ELSE cycle
      /\ UNCHANGED <<setup, priorityQueue, normalQueue, retries, caller>>
  BY Zenon DEF applyResult, EndTest, calls
<1>2. /\ work \in [Workers -> Task \cup {None}] /\ Distinct(work)
      /\ work \in [Workers -> SingleTasks \cup StageTasks \cup {None}]
      /\ state \in [Outbounds -> MarkRec] /\ cycle \in CycleRec
  BY Zenon DEF Typed, Stages, Kinds, Once
<1>3. t \in Task /\ t.tag \in Outbounds
  BY <1>1, <1>2, Zenon DEF Task
<1>4. /\ Distinct(work') /\ TagsIn(work') = IF t.stage THEN TagsIn(work) \ {t.tag} ELSE TagsIn(work)
      /\ t.stage => t.tag \in TagsIn(work)
  BY <1>1, <1>2, DoneTags, Zenon
<1>5. work' \in [Workers -> SingleTasks \cup StageTasks \cup {None}]
  BY <1>1, <1>2, Zenon
<1>. HIDE DEF t
<1>6. /\ state'[t.tag] = Cleared /\ \A o \in Outbounds \ {t.tag} : state'[o] = state[o]
  BY <1>1, <1>2, <1>3, Zenon
<1>7. Cleared.queued = FALSE /\ Cleared.enqueuedCycle = 0
  BY Zenon DEF Cleared
<1>8. Kinds'
  BY <1>1, <1>5, SameKinds, Zenon DEF Stages, Kinds
<1>9. TagsIn(work') \subseteq TagsIn(work)
  BY <1>4, Zenon
<1>10. Once'
  BY <1>1, <1>4, <1>9, Zenon DEF Stages, Once
<1>11. Retriable'
  <2>1. \A o \in StageTags : state'[o].enqueuedCycle \in {state[o].enqueuedCycle, 0}
    BY <1>6, <1>7, StageTagsFinite, Zenon
  <2>2. Fresh(normalQueue, state) /\ Fresh(retries, state)
    BY Zenon DEF Stages, Retriable
  <2>3. TagsIn(normalQueue) \subseteq StageTags /\ TagsIn(retries) \subseteq StageTags
    BY Zenon DEF StageTags
  <2>4. Fresh(normalQueue, state') /\ Fresh(retries, state')
    BY <2>1, <2>2, <2>3, FreshKept, Zenon
  <2>. QED  BY <1>1, <2>4, Zenon DEF Retriable
<1>12. CASE ~t.stage
  <2>1. StageTags' = StageTags /\ cycle' = cycle
    BY <1>1, <1>4, <1>12, Zenon DEF StageTags
  <2>2. \A o \in Outbounds : state'[o].queued => state[o].queued
    BY <1>6, <1>7, Zenon
  <2>. QED  BY <1>1, <1>8, <1>10, <1>11, <2>1, <2>2, MovedKeeps, Zenon
<1>13. CASE t.stage
  <2>1. t.tag \in StageTags
    BY <1>4, <1>13, Zenon DEF StageTags
  <2>2. t.tag \notin TagsIn(normalQueue) /\ t.tag \notin TagsIn(retries)
    BY <1>4, <1>13, Zenon DEF Stages, Once
  <2>3. StageTags' = StageTags \ {t.tag}
    BY <1>1, <1>4, <1>13, <2>2, Zenon DEF StageTags
  <2>4. Cardinality(StageTags') = Cardinality(StageTags) - 1 /\ Cardinality(StageTags) \in Nat
    BY <2>1, <2>3, StageTagsFinite, FS_RemoveElement, Zenon
  <2>5. cycle'.got = cycle.got + 1 /\ cycle'.expected = cycle.expected /\ cycle'.pc = cycle.pc /\ cycle'.left = cycle.left
    <3>. DEFINE new == [cycle EXCEPT !.got = cycle.got + 1, !.success = cycle.success \/ success]
    <3>1. new.got = cycle.got + 1 /\ new.expected = cycle.expected /\ new.pc = cycle.pc /\ new.left = cycle.left
      BY <1>2, Zenon DEF CycleRec
    <3>. QED  BY <1>1, <1>13, <3>1, Zenon
  <2>6. cycle'.expected = cycle'.got + Cardinality(StageTags')
    <3>1. cycle.got \in Nat /\ cycle.expected = cycle.got + Cardinality(StageTags)
      BY <1>2, Zenon DEF CycleRec, Stages, Counting
    <3>. QED  BY <2>4, <2>5, <3>1
  <2>7. cycle.pc = "stage" /\ StageTags \cap cycle.left = {}
    BY <2>1, Zenon DEF Stages, Counting
  <2>8. Counting'
    BY <2>3, <2>5, <2>6, <2>7, Zenon DEF Counting
  <2>9. Marked'
    BY <1>1, <1>6, <1>7, <2>3, SameKinds, Zenon DEF Stages, Marked
  <2>. QED  BY <1>8, <1>10, <1>11, <2>8, <2>9, Zenon DEF Stages
<1>. QED  BY <1>12, <1>13, Zenon

\* runStage counts a task exactly if enqueueTask takes it.
LEMMA RunStageKeeps ==
  ASSUME Typed, OnlyCycles, Stages, NEW o \in Outbounds, runStage(o)
  PROVE  Stages'
<1>. DEFINE t == StageTask(o)
            n == IF Accepts(t) THEN cycle.expected + 1 ELSE cycle.expected
<1>1. /\ cycle.pc = "stage" /\ o \in cycle.left /\ enqueueTask(t)
      /\ cycle' = [cycle EXCEPT !.left = cycle.left \ {o}, !.expected = n]
      /\ UNCHANGED <<setup, retries, work, caller>>
  BY Zenon DEF runStage, calls
<1>2. cycle \in CycleRec /\ cycleSeq \in Nat
  BY DEF Typed, SetupOK
<1>3. t \in Task /\ t.tag = o /\ ~t.priority /\ t.stage
  BY <1>2, Zenon DEF StageTask, Task
<1>4. t \in StageTasks
  BY <1>3, Zenon DEF StageTasks
<1>. HIDE DEF t, n
<1>5. cycle'.pc = "stage" /\ cycle'.left = cycle.left \ {o} /\ cycle'.expected = n /\ cycle'.got = cycle.got
  BY <1>1, <1>2, Zenon DEF CycleRec
<1>6. o \notin StageTags
  BY <1>1, Zenon DEF Stages, Counting
<1>7. cycle.expected = cycle.got + Cardinality(StageTags) /\ StageTags \cap cycle.left = {}
  BY Zenon DEF Stages, Counting
<1>8. CASE Superfluous(t)
  <2>1. UNCHANGED <<state, priorityQueue, normalQueue>> /\ n = cycle.expected
    BY <1>1, <1>8, Zenon DEF enqueueTask, Accepts, n
  <2>2. Kinds' /\ Once' /\ Retriable' /\ StageTags' = StageTags /\ Marked'
    BY <1>1, <2>1, SameKinds, Zenon DEF Stages, Kinds, Once, Retriable, Marked, StageTags
  <2>3. Counting'
    BY <1>5, <1>7, <2>1, <2>2, Zenon DEF Counting
  <2>. QED  BY <2>2, <2>3, Zenon DEF Stages
<1>9. CASE ~Superfluous(t)
  <2>1. t.tag \notin TagsIn(normalQueue) /\ state[t.tag].enqueuedCycle # t.cycleID
    BY <1>3, <1>6, <1>9, Zenon DEF Superfluous, StageTags
  <2>2. /\ Accepts(t) /\ priorityQueue' = priorityQueue
        /\ normalQueue' \in Seq(StageTasks)
        /\ Distinct(normalQueue') /\ TagsIn(normalQueue') = TagsIn(normalQueue) \cup {o}
        /\ \A p \in Outbounds \ {o} : state'[p] = state[p]
        /\ Fresh(normalQueue', state')
    BY <1>1, <1>3, <1>4, <2>1, EnqueueStage, Zenon
  <2>3. StageTags' = StageTags \cup {o}
    BY <1>1, <2>2, Zenon DEF StageTags
  <2>4. Kinds'
    BY <1>1, <2>2, SameKinds, Zenon DEF Stages, Kinds
  <2>5. Once'
    BY <1>1, <1>6, <2>2, Zenon DEF Stages, Once, StageTags
  <2>6. Fresh(retries, state')
    <3>1. TagsIn(retries) \subseteq Outbounds \ {o} /\ Fresh(retries, state)
      BY <1>6, StageTagsFinite, Zenon DEF StageTags, Stages, Retriable
    <3>. QED  BY <2>2, <3>1, FreshKept, Zenon
  <2>7. Retriable'
    BY <1>1, <2>2, <2>6, Zenon DEF Retriable
  <2>8. Marked'
    BY <1>1, <2>2, <2>3, SameKinds, Zenon DEF Stages, Marked
  <2>9. Cardinality(StageTags') = Cardinality(StageTags) + 1 /\ Cardinality(StageTags) \in Nat
    BY <1>6, <2>3, StageTagsFinite, FS_AddElement, Zenon
  <2>10. n = cycle.got + Cardinality(StageTags')
    <3>1. cycle.got \in Nat /\ n = cycle.expected + 1
      BY <1>2, <2>2, Zenon DEF CycleRec, n
    <3>. QED  BY <1>7, <2>9, <3>1
  <2>11. Counting'
    BY <1>5, <1>7, <2>3, <2>10, Zenon DEF Counting
  <2>. QED  BY <2>4, <2>5, <2>7, <2>8, <2>11, Zenon DEF Stages
<1>. QED  BY <1>8, <1>9, Zenon

\* The other steps of a cycle: a stage ends only when none of its tasks is left.
LEMMA CycleKeeps ==
  ASSUME Typed, Stages, runCycle \/ collectCycleTargets \/ EndStage
  PROVE  Stages'
<1>1. /\ cycle \in CycleRec /\ cycle.got \in Nat
      /\ cycle.expected = cycle.got + Cardinality(StageTags)
      /\ cycle.pc # "stage" => StageTags = {}
      /\ \A i \in caller \ {Signal} : i.priority
  BY Zenon DEF Typed, CycleRec, Stages, Counting, Kinds
<1>2. IsFiniteSet(StageTags) /\ Cardinality(StageTags) \in Nat
  BY StageTagsFinite, Zenon
<1>3. StageTags = {} => cycle.expected = cycle.got
  <2>1. StageTags = {} => Cardinality(StageTags) = 0
    BY FS_EmptySet, Zenon
  <2>. QED  BY <1>1, <1>2, <2>1
<1>4. cycle.expected = cycle.got => StageTags = {}
  <2>1. cycle.expected = cycle.got => Cardinality(StageTags) = 0
    BY <1>1, <1>2
  <2>. QED  BY <1>2, <2>1, FS_EmptySet, Zenon
<1>5. NoCycle.expected = 0 /\ NoCycle.got = 0 /\ 0 \in Nat
  BY Zenon DEF NoCycle
<1>6. UNCHANGED <<setup, state, priorityQueue, normalQueue, retries, work, caller>>
  BY Zenon DEF runCycle, collectCycleTargets, EndStage, marks, calls
<1>7. CASE runCycle
  <2>1. cycle'.expected = cycle.expected /\ cycle'.got = cycle.got /\ cycle.pc # "stage"
    BY <1>1, <1>7, Zenon DEF runCycle, CycleRec
  <2>. QED  BY <1>1, <1>3, <1>6, <2>1, QuietKeeps, Zenon
<1>8. CASE collectCycleTargets
  <2>. DEFINE tags == {o \in due : Unmarked(o)}
              new == [cycle EXCEPT !.pc = "stage", !.tags = tags, !.left = tags]
  <2>1. cycle.pc # "stage" /\ (cycle' = NoCycle \/ cycle' = new)
    BY <1>8, Zenon DEF collectCycleTargets
  <2>. HIDE DEF tags
  <2>2. new.expected = cycle.expected /\ new.got = cycle.got
    BY <1>1, Zenon DEF CycleRec
  <2>3. cycle'.expected = cycle'.got /\ cycle'.got \in Nat /\ StageTags = {}
    BY <1>1, <1>3, <1>5, <2>1, <2>2, Zenon
  <2>. QED  BY <1>1, <1>6, <2>3, QuietKeeps, Zenon
<1>9. CASE EndStage
  <2>. DEFINE new == [cycle EXCEPT !.url = cycle.url + 1, !.left = cycle.tags, !.expected = 0, !.got = 0]
  <2>1. cycle.got = cycle.expected /\ (cycle' = NoCycle \/ cycle' = new)
    BY <1>9, Zenon DEF EndStage
  <2>2. new.expected = 0 /\ new.got = 0
    BY <1>1, Zenon DEF CycleRec
  <2>3. cycle'.expected = cycle'.got /\ cycle'.got \in Nat /\ StageTags = {}
    BY <1>4, <1>5, <2>1, <2>2, Zenon
  <2>. QED  BY <1>1, <1>6, <2>3, QuietKeeps, Zenon
<1>. QED  BY <1>7, <1>8, <1>9, Zenon

\* A cycle starts when none is running, by a tick or by a caller.
LEMMA StartKeeps ==
  ASSUME Typed, Stages, UNCHANGED <<setup, state, priorityQueue, normalQueue, retries, work>>,
         \A i \in caller' \ {Signal} : i.priority,
         cycle' = cycle \/ startCycleOnce
  PROVE  Stages'
<1>1. cycle.pc # "stage" => StageTags = {}
  BY Zenon DEF Stages, Counting
<1>2. [NoCycle EXCEPT !.pc = "begin"].expected = 0 /\ [NoCycle EXCEPT !.pc = "begin"].got = 0 /\ 0 \in Nat
  BY Zenon DEF NoCycle
<1>3. cycle' = cycle \/ (cycle.pc # "stage" /\ cycle' = [NoCycle EXCEPT !.pc = "begin"])
  BY Zenon DEF startCycleOnce
<1>. QED  BY <1>1, <1>2, <1>3, QuietKeeps, Zenon

\* Every step of the monitor keeps the tasks of the stage in order.
LEMMA StagesStep ==
  ASSUME Typed, OnlyCycles, Stages, [MonitorNext]_monitorVars
  PROVE  Stages'
<1>1. "group" \notin setup.kinds /\ \A i \in caller \ {Signal} : i.priority
  BY Zenon DEF OnlyCycles, Stages, Kinds
<1>2. Touch => cycle' = cycle \/ startCycleOnce
  BY Zenon DEF Touch
<1>3. ASSUME NEW o \in Outbounds, TestNow(o) PROVE Stages'
  <2>1. \A p : [tag |-> p, priority |-> TRUE].priority
    OBVIOUS
  <2>2. \A i \in caller' \ {Signal} : i.priority
    BY <1>3, <2>1, Zenon DEF TestNow, Asks
  <2>. QED  BY <1>2, <1>3, <2>2, StartKeeps, Zenon DEF TestNow, marks
<1>4. ASSUME NEW o \in Outbounds, InvalidateTest(o) PROVE Stages'
  <2>1. \A i \in {[tag |-> o, priority |-> TRUE]} : i.priority
    OBVIOUS
  <2>2. \A i \in caller' \ {Signal} : i.priority
    BY <1>4, <2>1, Zenon DEF InvalidateTest, Asks
  <2>. QED  BY <1>4, <2>2, StartKeeps, Zenon DEF InvalidateTest, marks
<1>5. CASE SignalChange
  <2>1. \A i \in caller' \ {Signal} : i.priority
    BY <1>5, Zenon DEF SignalChange, Asks
  <2>. QED  BY <1>5, <2>1, StartKeeps, Zenon DEF SignalChange, marks
<1>6. CASE SendSignal
  <2>1. \A i \in caller' \ {Signal} : i.priority
    BY <1>6, Zenon DEF SendSignal
  <2>. QED  BY <1>6, <2>1, StartKeeps, Zenon DEF SendSignal, marks
<1>7. CASE TestGroup
  BY <1>1, <1>7, Zenon DEF TestGroup, Asks
<1>8. CASE Look
  BY <1>1, <1>2, <1>8, StartKeeps, Zenon DEF Look, marks, calls
<1>9. ASSUME NEW idle \in BOOLEAN, NEW old \in SUBSET Outbounds, Tick(idle, old) PROVE Stages'
  BY <1>1, <1>9, StartKeeps, Zenon DEF Tick, marks, calls
<1>10. CASE stopTimerWorkers \/ Notified \/ Publish \/ Close \/ UNCHANGED monitorVars
       \/ \E o \in Outbounds : ReadyChanges(o)
  <2>1. UNCHANGED <<setup, state, priorityQueue, normalQueue, retries, work, cycle, caller>>
    BY <1>10, Zenon DEF stopTimerWorkers, Notified, Publish, Close, monitorVars, ReadyChanges, marks, calls
  <2>. QED  BY <1>1, <2>1, StartKeeps, Zenon
<1>. QED  BY <1>3, <1>4, <1>5, <1>6, <1>7, <1>8, <1>9, <1>10, TestNowKeeps, TakePriorityKeeps, TakeNormalKeeps,
            RetryKeeps, EndTestKeeps, RunStageKeeps, CycleKeeps, Zenon
       DEF MonitorNext, CallerStep, WorkerStep, CycleStep

\* At the start there are no tasks and no marks.
LEMMA StagesInit == MonitorInit => Stages
<1>. SUFFICES ASSUME MonitorInit PROVE Stages
  OBVIOUS
<1>1. <<>> \in Seq(SingleTasks) /\ <<>> \in Seq(StageTasks) /\ <<>> \in Seq(SingleTasks \cup StageTasks)
      /\ DOMAIN <<>> = {}
  OBVIOUS
<1>2. Kinds
  BY <1>1, Zenon DEF MonitorInit, Kinds
<1>3. Staged(normalQueue) = {} /\ Staged(retries) = {} /\ Staged(work) = {}
  <2>1. \A w \in DOMAIN work : work[w] = None
    BY Zenon DEF MonitorInit
  <2>. QED  BY <1>1, <2>1, Zenon DEF MonitorInit, Staged
<1>4. StageTags = {} /\ TagsIn(normalQueue) = {} /\ TagsIn(retries) = {} /\ TagsIn(work) = {}
  BY <1>3, Zenon DEF StageTags, TagsIn
<1>5. Once /\ Retriable
  BY <1>3, <1>4, Zenon DEF Once, Retriable, Distinct, Fresh
<1>6. Counting
  <2>1. cycle.expected = 0 /\ cycle.got = 0 /\ cycle.left = {}
    BY Zenon DEF MonitorInit, NoCycle
  <2>2. Cardinality(StageTags) = 0
    BY <1>4, FS_EmptySet, Zenon
  <2>3. cycle.expected = cycle.got + Cardinality(StageTags)
    BY <2>1, <2>2
  <2>. QED  BY <1>4, <2>3, Zenon DEF Counting
<1>7. Marked
  BY DEF MonitorInit, Marked, Cleared
<1>. QED  BY <1>2, <1>5, <1>6, <1>7, Zenon DEF Stages

\* The setup of a behaviour does not change.
LEMMA SetupStays == [MonitorNext]_monitorVars => UNCHANGED setup
<1>. SUFFICES ASSUME [MonitorNext]_monitorVars PROVE setup' = setup
  BY Zenon
<1>. QED  BY Zenon DEF MonitorNext, monitorVars, TestNow, InvalidateTest, ReadyChanges, TestGroup, SignalChange, Look,
            CallerStep, testNow, SendSignal, WorkerStep, TakePriority, TakeNormal, applyResult, EndTest, Retry,
            CycleStep, runCycle, collectCycleTargets, runStage, EndStage, Tick, stopTimerWorkers,
            Notified, Publish, Close

\* The inductive invariant of the stages, where they are the only tasks of
\* normalQueue.
StageInv == Typed /\ (OnlyCycles => Stages)

\* It holds in every state: Stages is kept where it is needed, and no step changes
\* the setup that decides whether it is.
LEMMA StageInvariant == MonitorSpec => []StageInv
<1>1. MonitorInit => StageInv
  BY TypesInit, StagesInit, Zenon DEF StageInv
<1>2. StageInv /\ [MonitorNext]_monitorVars => StageInv'
  <2>. SUFFICES ASSUME StageInv, [MonitorNext]_monitorVars PROVE StageInv'
    OBVIOUS
  <2>1. UNCHANGED setup
    BY SetupStays, Zenon
  <2>2. UNCHANGED Outbounds
    BY <2>1 DEF Outbounds
  <2>3. OnlyCycles' => OnlyCycles
    BY <2>1, <2>2, Zenon DEF OnlyCycles
  <2>. QED  BY <2>3, TypesStep, StagesStep, Zenon DEF StageInv
<1>. QED  BY <1>1, <1>2, PTL DEF MonitorSpec

\* runStage waits for exactly the tasks that are still about: none of those it
\* counted is lost between queue, retries and tests, and none is left behind
\* when it returns, for any number of outbounds, workers, cycles and requests.
THEOREM StagesCounted == MonitorSpec => []StageCounted
<1>1. StageInv => StageCounted
  BY Zenon DEF StageInv, Stages, Counting, StageCounted
<1>. QED  BY <1>1, StageInvariant, PTL

\* No outbound stays marked as queued with no task to take the mark away, so
\* none is kept out of all later cycles by its mark.
THEOREM QueuedHaveTasks == MonitorSpec => []QueuedHasTask
<1>1. StageInv => QueuedHasTask
  BY Zenon DEF StageInv, Stages, Marked, QueuedHasTask
<1>. QED  BY <1>1, StageInvariant, PTL

\* groupNotifierLoop drops no result: one that is not published has its
\* notification in the channel or its timer running.
THEOREM UnseenArePending == MonitorSpec => []UnseenIsPending
<1>. DEFINE I == Typed /\ UnseenIsPending
<1>1. MonitorInit => I
  <2>1. [notified |-> FALSE, timer |-> FALSE, unseen |-> FALSE].unseen = FALSE
    OBVIOUS
  <2>. QED  BY <2>1, TypesInit, Zenon DEF MonitorInit, UnseenIsPending
<1>2. I /\ [MonitorNext]_monitorVars => UnseenIsPending'
  <2>. SUFFICES ASSUME Typed, UnseenIsPending, [MonitorNext]_monitorVars PROVE UnseenIsPending'
    OBVIOUS
  <2>1. group \in [notified : BOOLEAN, timer : BOOLEAN, unseen : BOOLEAN]
    BY Zenon DEF Typed
  <2>2. CASE SendSignal
    BY <2>1, <2>2 DEF SendSignal, UnseenIsPending
  <2>3. CASE Notified
    BY <2>1, <2>3 DEF Notified, UnseenIsPending
  <2>4. CASE Publish
    BY <2>1, <2>4 DEF Publish, UnseenIsPending
  <2>5. ASSUME NEW w \in Workers, NEW success \in BOOLEAN, applyResult(w, success) PROVE UnseenIsPending'
    <3>1. group' = emitGroupEvent
      BY <2>5, Zenon DEF applyResult, EndTest
    <3>. QED  BY <2>1, <3>1 DEF emitGroupEvent, UnseenIsPending
  <2>6. SendSignal \/ Notified \/ Publish \/ group' = group
        \/ \E w \in Workers, success \in BOOLEAN : applyResult(w, success)
    BY Zenon DEF MonitorNext, monitorVars, TestNow, InvalidateTest, ReadyChanges, TestGroup, SignalChange, Look,
         CallerStep, testNow, WorkerStep, TakePriority, TakeNormal, Retry,
         CycleStep, runCycle, collectCycleTargets, runStage, EndStage, Tick, stopTimerWorkers, Close
  <2>. QED  BY <2>2, <2>3, <2>4, <2>5, <2>6, Zenon DEF UnseenIsPending
<1>3. I /\ [MonitorNext]_monitorVars => I'
  BY <1>2, TypesStep, Zenon
<1>4. I => UnseenIsPending
  BY Zenon
<1>. HIDE DEF I
<1>. QED  BY <1>1, <1>3, <1>4, PTL DEF MonitorSpec

-----------------------------------------------------------------------------
(* The marks, with tests of the group *)

\* The task that enqueueTask noted in a mark is still about.
Noted ==
  \A o \in Outbounds : state[o].queued => \E t \in NormalTasks : t.tag = o /\ t.cycleID = state[o].enqueuedCycle

\* Taking the head of a sequence leaves the other tasks.
LEMMA TailTasks ==
  ASSUME NEW q \in Seq(Task), q # <<>>
  PROVE  /\ NormalIn(q) \subseteq NormalIn(Tail(q)) \cup {Head(q)}
         /\ Head(q).priority => NormalIn(q) \subseteq NormalIn(Tail(q))
<1>1. /\ Head(q) = q[1]
      /\ \A i \in DOMAIN q \ {1} : i - 1 \in DOMAIN Tail(q) /\ Tail(q)[i - 1] = q[i]
  BY TailIs
<1>2. ASSUME NEW i \in DOMAIN q, q[i] # None, ~q[i].priority, i # 1
      PROVE  q[i] \in NormalIn(Tail(q))
  BY <1>1, <1>2, Zenon DEF NormalIn
<1>. QED  BY <1>1, <1>2, Zenon DEF NormalIn

\* Appending a task leaves the tasks that were there.
LEMMA AppendTasks ==
  ASSUME NEW q \in Seq(Task), NEW t \in Task
  PROVE  /\ NormalIn(q) \subseteq NormalIn(Append(q, t))
         /\ ~t.priority => t \in NormalIn(Append(q, t))
<1>1. /\ DOMAIN Append(q, t) = DOMAIN q \cup {Len(q) + 1}
      /\ Append(q, t)[Len(q) + 1] = t
      /\ \A i \in DOMAIN q : Append(q, t)[i] = q[i]
  BY AppendIs
<1>2. t # None
  BY NoneIsNoTask, Zenon
<1>. QED  BY <1>1, <1>2, Zenon DEF NormalIn

\* A worker's task is about, and the tasks of other workers stay so.
LEMMA WorkTasks ==
  ASSUME Typed, NEW w \in Workers, NEW t \in Task \cup {None}, work' = [work EXCEPT ![w] = t]
  PROVE  /\ NormalIn(work) \subseteq NormalIn(work') \cup {work[w]}
         /\ work[w] = None => NormalIn(work) \subseteq NormalIn(work')
         /\ t # None /\ ~t.priority => t \in NormalIn(work')
<1>1. DOMAIN work = Workers /\ DOMAIN work' = Workers /\ work'[w] = t /\ \A x \in Workers \ {w} : work'[x] = work[x]
  BY Zenon DEF Typed
<1>. QED  BY <1>1, Zenon DEF NormalIn

\* A step that lets no task go and sets no mark keeps them noted.
LEMMA NotedKept ==
  ASSUME Noted, UNCHANGED setup, NormalTasks \subseteq NormalTasks',
         \A o \in Outbounds : /\ state'[o].queued = state[o].queued
                              /\ state'[o].enqueuedCycle = state[o].enqueuedCycle
  PROVE  Noted'
<1>1. UNCHANGED Outbounds
  BY DEF Outbounds
<1>. QED  BY <1>1 DEF Noted

\* enqueueTask notes the task that it accepts, and lets no other go.
LEMMA EnqueueNotes ==
  ASSUME Typed, Noted, HasRoom, NEW t \in Task, enqueueTask(t), UNCHANGED <<setup, work>>,
         \A o \in Outbounds : state[o].queued =>
           \E s \in NormalTasks : /\ s.tag = o /\ s.cycleID = state[o].enqueuedCycle
                                  /\ \/ s \in NormalIn(normalQueue) \cup NormalIn(work) \cup NormalIn(retries')
                                     \/ ~t.priority /\ t.tag = o /\ t.cycleID # s.cycleID
  PROVE  Noted'
<1>1. UNCHANGED Outbounds
  BY DEF Outbounds
<1>2. t.tag \in Outbounds /\ t.priority \in BOOLEAN /\ state \in [Outbounds -> MarkRec] /\ normalQueue \in Seq(Task)
  BY Zenon DEF Typed, Task
<1>3. NormalIn(normalQueue) \cup NormalIn(work) \cup NormalIn(retries') \subseteq NormalTasks'
  <2>1. normalQueue' = normalQueue \/ normalQueue' = Append(normalQueue, t)
    BY Zenon DEF enqueueTask
  <2>2. NormalIn(normalQueue) \subseteq NormalIn(normalQueue')
    BY <1>2, <2>1, AppendTasks, Zenon
  <2>. QED  BY <2>2, Zenon DEF NormalTasks
<1>4. CASE Superfluous(t) \/ t.priority
  <2>1. \A o \in Outbounds : state'[o].queued = state[o].queued /\ state'[o].enqueuedCycle = state[o].enqueuedCycle
    <3>1. state' = state \/ (t.priority /\ state' = Mark(t))
      BY <1>4, Zenon DEF enqueueTask
    <3>. QED  BY <1>2, <3>1, MarkIs
  <2>2. ~t.priority => state[t.tag].enqueuedCycle = t.cycleID
    BY <1>4, Zenon DEF Superfluous
  <2>. SUFFICES ASSUME NEW o \in Outbounds, state[o].queued
                PROVE  \E s \in NormalTasks' : s.tag = o /\ s.cycleID = state[o].enqueuedCycle
    BY <1>1, <2>1 DEF Noted
  <2>3. PICK s \in NormalTasks : /\ s.tag = o /\ s.cycleID = state[o].enqueuedCycle
                                 /\ \/ s \in NormalIn(normalQueue) \cup NormalIn(work) \cup NormalIn(retries')
                                    \/ ~t.priority /\ t.tag = o /\ t.cycleID # s.cycleID
    BY Zenon
  <2>4. s \in NormalTasks'
    BY <1>3, <2>2, <2>3, Zenon
  <2>. QED  BY <2>3, <2>4, Zenon
<1>5. CASE ~Superfluous(t) /\ ~t.priority
  <2>1. state' = Mark(t) /\ normalQueue' = Append(normalQueue, t)
    BY <1>5, Zenon DEF enqueueTask, Accepts, Room, HasRoom
  <2>2. t \in NormalTasks'
    BY <1>2, <1>5, <2>1, AppendTasks, Zenon DEF NormalTasks
  <2>3. state'[t.tag].enqueuedCycle = t.cycleID /\ \A o \in Outbounds \ {t.tag} : state'[o] = state[o]
    BY <1>2, <1>5, <2>1, MarkIs, Zenon
  <2>. SUFFICES ASSUME NEW o \in Outbounds, o # t.tag, state[o].queued
                PROVE  \E s \in NormalTasks' : s.tag = o /\ s.cycleID = state[o].enqueuedCycle
    BY <1>1, <2>2, <2>3 DEF Noted
  <2>4. PICK s \in NormalTasks : /\ s.tag = o /\ s.cycleID = state[o].enqueuedCycle
                                 /\ s \in NormalIn(normalQueue) \cup NormalIn(work) \cup NormalIn(retries')
    BY Zenon
  <2>. QED  BY <1>3, <2>4, Zenon
<1>. QED  BY <1>4, <1>5, Zenon

\* A worker that takes a task, to test it or to have it retried, lets none go.
LEMMA TakeNotes ==
  ASSUME Typed, Noted, NEW w \in Workers, TakePriority(w) \/ TakeNormal(w)
  PROVE  Noted'
<1>1. priorityQueue \in Seq(Task) /\ normalQueue \in Seq(Task) /\ retries \in Seq(Task) /\ work[w] = None /\ UNCHANGED setup
  BY Zenon DEF Typed, TakePriority, TakeNormal
<1>2. PICK t \in Task : /\ Take(w, t)
                        /\ NormalIn(normalQueue) \subseteq NormalIn(normalQueue') \cup {t}
                        /\ t.priority => NormalIn(normalQueue) \subseteq NormalIn(normalQueue')
  <2>1. CASE TakePriority(w)
    <3>1. priorityQueue # <<>> /\ Take(w, Head(priorityQueue)) /\ normalQueue' = normalQueue
      BY <2>1, Zenon DEF TakePriority
    <3>2. Head(priorityQueue) \in Task
      BY <1>1, <3>1, TailIs, Zenon
    <3>. QED  BY <3>1, <3>2, Zenon
  <2>2. CASE TakeNormal(w)
    <3>1. normalQueue # <<>> /\ Take(w, Head(normalQueue)) /\ normalQueue' = Tail(normalQueue)
      BY <2>2, Zenon DEF TakeNormal
    <3>2. Head(normalQueue) \in Task
      BY <1>1, <3>1, TailIs, Zenon
    <3>3. /\ NormalIn(normalQueue) \subseteq NormalIn(normalQueue') \cup {Head(normalQueue)}
          /\ Head(normalQueue).priority => NormalIn(normalQueue) \subseteq NormalIn(normalQueue')
      BY <1>1, <3>1, TailTasks, Zenon
    <3>. QED  BY <3>1, <3>2, <3>3, Zenon
  <2>. QED  BY <2>1, <2>2, Zenon
<1>3. /\ NormalIn(retries) \subseteq NormalIn(retries') /\ NormalIn(work) \subseteq NormalIn(work')
      /\ ~t.priority => t \in NormalIn(retries') \cup NormalIn(work')
  <2>1. \/ retries' = retries /\ work' = [work EXCEPT ![w] = t]
        \/ retries' = Append(retries, t) /\ work' = work
    BY <1>2, Zenon DEF Take
  <2>2. t # None
    BY NoneIsNoTask, Zenon
  <2>. QED  BY <1>1, <2>1, <2>2, AppendTasks, WorkTasks, Zenon
<1>4. NormalTasks \subseteq NormalTasks'
  BY <1>2, <1>3, Zenon DEF NormalTasks
<1>5. \A o \in Outbounds : state'[o].queued = state[o].queued /\ state'[o].enqueuedCycle = state[o].enqueuedCycle
  BY <1>2, TakeMarks, Zenon
<1>. QED  BY <1>1, <1>4, <1>5, NotedKept, Zenon

\* The result of a task clears the mark of its outbound; other outbounds keep
\* the tasks they had.
LEMMA ResultNotes ==
  ASSUME Typed, Noted, NEW w \in Workers, NEW success \in BOOLEAN, applyResult(w, success)
  PROVE  Noted'
<1>. DEFINE t == work[w]
<1>1. /\ t # None /\ state' = [state EXCEPT ![t.tag] = Cleared] /\ work' = [work EXCEPT ![w] = None]
      /\ UNCHANGED <<setup, normalQueue, retries>>
  BY Zenon DEF applyResult, EndTest
<1>2. t \in Task /\ state \in [Outbounds -> MarkRec]
  BY <1>1, Zenon DEF Typed
<1>3. t.tag \in Outbounds
  BY <1>2, Zenon DEF Task
<1>4. NormalIn(work) \subseteq NormalIn(work') \cup {t}
  BY <1>1, WorkTasks, Zenon
<1>. HIDE DEF t
<1>5. NormalTasks \subseteq NormalTasks' \cup {t}
  BY <1>1, <1>4, Zenon DEF NormalTasks
<1>6. ~state'[t.tag].queued /\ \A o \in Outbounds \ {t.tag} : state'[o] = state[o]
  BY <1>1, <1>2, <1>3, Zenon DEF Cleared
<1>7. UNCHANGED Outbounds
  BY <1>1 DEF Outbounds
<1>. SUFFICES ASSUME NEW o \in Outbounds, o # t.tag, state[o].queued
              PROVE  \E s \in NormalTasks' : s.tag = o /\ s.cycleID = state[o].enqueuedCycle
  BY <1>6, <1>7 DEF Noted
<1>8. PICK s \in NormalTasks : s.tag = o /\ s.cycleID = state[o].enqueuedCycle
  BY Zenon DEF Noted
<1>. QED  BY <1>5, <1>8, Zenon

\* A retry that enqueueTask refuses has another task of its outbound to thank for it.
LEMMA RetryNotes ==
  ASSUME Typed, Noted, HasRoom, Retry
  PROVE  Noted'
<1>. DEFINE h == Head(retries)
            t == [h EXCEPT !.cycleID = @ + 1]
<1>1. retries \in Seq(Task) /\ retries # <<>> /\ retries' = Tail(retries) /\ enqueueTask(t) /\ UNCHANGED <<setup, work>>
  BY Zenon DEF Typed, Retry
<1>2. h \in Task /\ NormalIn(retries) \subseteq NormalIn(retries') \cup {h}
      /\ (h.priority => NormalIn(retries) \subseteq NormalIn(retries'))
  BY <1>1, TailIs, TailTasks, Zenon
<1>. HIDE DEF h
<1>3. h.cycleID + 1 \in Nat /\ h.cycleID + 1 # h.cycleID
  BY <1>2 DEF Task
<1>4. t \in Task /\ t.tag = h.tag /\ t.priority = h.priority /\ t.cycleID = h.cycleID + 1
  BY <1>2, <1>3, Zenon DEF Task
<1>. HIDE DEF t
<1>5. ASSUME NEW o \in Outbounds, state[o].queued
      PROVE  \E s \in NormalTasks : /\ s.tag = o /\ s.cycleID = state[o].enqueuedCycle
                                    /\ \/ s \in NormalIn(normalQueue) \cup NormalIn(work) \cup NormalIn(retries')
                                       \/ ~t.priority /\ t.tag = o /\ t.cycleID # s.cycleID
  <2>1. PICK s \in NormalTasks : s.tag = o /\ s.cycleID = state[o].enqueuedCycle
    BY <1>5, Zenon DEF Noted
  <2>2. \/ s \in NormalIn(normalQueue) \cup NormalIn(work) \cup NormalIn(retries')
        \/ ~t.priority /\ t.tag = o /\ t.cycleID # s.cycleID
    BY <1>2, <1>3, <1>4, <2>1, Zenon DEF NormalTasks
  <2>. QED  BY <2>1, <2>2, Zenon
<1>. QED  BY <1>1, <1>4, <1>5, EnqueueNotes, Zenon

\* Requests and stages are noted when they are enqueued.
LEMMA AskedNotes ==
  ASSUME Typed, Noted, HasRoom, (\E i \in caller : testNow(i)) \/ (\E o \in Outbounds : runStage(o))
  PROVE  Noted'
<1>1. cycleSeq \in Nat
  BY DEF Typed, SetupOK
<1>2. PICK t \in Task : enqueueTask(t) /\ UNCHANGED <<setup, retries, work>>
  <2>1. ASSUME NEW i \in caller, testNow(i)
        PROVE  \E t \in Task : enqueueTask(t) /\ UNCHANGED <<setup, retries, work>>
    <3>1. i \in Item
      BY <2>1, Zenon DEF testNow, Typed
    <3>2. [tag |-> i.tag, priority |-> i.priority, cycleID |-> cycleSeq, stage |-> FALSE] \in Task
      BY <1>1, <3>1, Zenon DEF Item, Task
    <3>. QED  BY <2>1, <3>2, Zenon DEF testNow
  <2>2. ASSUME NEW o \in Outbounds, runStage(o)
        PROVE  \E t \in Task : enqueueTask(t) /\ UNCHANGED <<setup, retries, work>>
    <3>1. StageTask(o) \in Task
      BY <1>1, Zenon DEF StageTask, Task
    <3>. QED  BY <2>2, <3>1, Zenon DEF runStage
  <2>. QED  BY <2>1, <2>2, Zenon
<1>3. ASSUME NEW o \in Outbounds, state[o].queued
      PROVE  \E s \in NormalTasks : /\ s.tag = o /\ s.cycleID = state[o].enqueuedCycle
                                    /\ \/ s \in NormalIn(normalQueue) \cup NormalIn(work) \cup NormalIn(retries')
                                       \/ ~t.priority /\ t.tag = o /\ t.cycleID # s.cycleID
  <2>1. PICK s \in NormalTasks : s.tag = o /\ s.cycleID = state[o].enqueuedCycle
    BY <1>3, Zenon DEF Noted
  <2>. QED  BY <1>2, <2>1, Zenon DEF NormalTasks
<1>. QED  BY <1>2, <1>3, EnqueueNotes, Zenon

\* Every step keeps the marks noted, while normalQueue has room.
LEMMA NotedStep == Typed /\ Noted /\ HasRoom /\ [MonitorNext]_monitorVars => Noted'
<1>. SUFFICES ASSUME Typed, Noted, HasRoom, [MonitorNext]_monitorVars PROVE Noted'
  OBVIOUS
<1>1. ASSUME UNCHANGED <<setup, state, normalQueue, retries, work>> PROVE Noted'
  BY <1>1, NotedKept, Zenon DEF NormalTasks
<1>2. CASE \/ \E o \in Outbounds : TestNow(o) \/ InvalidateTest(o) \/ ReadyChanges(o)
           \/ TestGroup \/ SignalChange \/ Look \/ SendSignal
  BY <1>1, <1>2, Zenon DEF TestNow, InvalidateTest, ReadyChanges, TestGroup, SignalChange, Look, SendSignal, marks
<1>3. CASE \/ runCycle \/ collectCycleTargets \/ EndStage \/ stopTimerWorkers \/ Notified \/ Publish \/ Close
           \/ \E idle \in BOOLEAN, old \in SUBSET Outbounds : Tick(idle, old)
  BY <1>1, <1>3, Zenon DEF runCycle, collectCycleTargets, EndStage, stopTimerWorkers, Notified, Publish, Close, Tick, marks
<1>4. CASE UNCHANGED monitorVars
  BY <1>1, <1>4, Zenon DEF monitorVars, marks
<1>5. CASE (\E i \in caller : testNow(i)) \/ (\E o \in Outbounds : runStage(o))
  BY <1>5, AskedNotes, Zenon
<1>6. CASE \E w \in Workers : WorkerStep(w)
  BY <1>6, TakeNotes, ResultNotes, Zenon DEF WorkerStep
<1>7. CASE Retry
  BY <1>7, RetryNotes, Zenon
<1>. QED  BY <1>2, <1>3, <1>4, <1>5, <1>6, <1>7, Zenon DEF MonitorNext, CallerStep, CycleStep

\* While normalQueue has room, an outbound marked as queued has a task that will
\* clear the mark, whatever retries of stages and of group tests enqueueTask
\* refuses because they come to carry the same cycleID (executeTask, line 621).
THEOREM MarkedHaveTasks == MonitorSpec /\ []HasRoom => []MarkedHasTask
<1>1. MonitorInit => Noted
  BY DEF MonitorInit, Cleared, Noted
<1>2. Noted => MarkedHasTask
  BY Zenon DEF Noted, MarkedHasTask
<1>. QED  BY <1>1, <1>2, TypesInit, TypesStep, NotedStep, PTL DEF MonitorSpec

=============================================================================

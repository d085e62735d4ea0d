------------------------ MODULE ConnPoolDials_proofs ------------------------
(***************************************************************************)
(* The inductive invariant of ConnPool, for any callers and any bounds,    *)
(* and that these steps preserve it: callers which take, join, wait and    *)
(* leave; and the dials, their start, the end of their context, their      *)
(* return, and connectSingle under the lock.                               *)
(***************************************************************************)
EXTENDS ConnPool, TLAPS

Live(d) == dial[d].pc \in {"dialing", "late", "install"}

\* Where a dial is decides what may be known of its connection.
Dialled ==
  \A d \in Conns :
    /\ dial[d].pc = "none" <=> d > dials
    /\ Live(d) => dial[d].state \in 1 .. states
    /\ dial[d].pc # "done" => claims[d] = 0
    /\ d \in open => dial[d].pc = "done" \/ (dial[d].pc = "install" /\ dial[d].err = "none")

\* closeState works on replaced state objects only.
Staged == \A s \in States : s = cur \/ s > states => stage[s] = "none"

\* In single mode a dial for the current state is the one the pool knows, and
\* claimed tells whether the shared connection was handed out.
Sharing ==
  /\ connecting <= dials
  /\ mode = "ordered" => shared = 0
  /\ mode = "single" =>
       /\ \A d \in Conns : Live(d) /\ dial[d].state = cur => connecting = d /\ shared = 0
       /\ shared = 0 => claimed = 0
       /\ shared # 0 => dial[shared].pc = "done" /\ claims[shared] = claimed

\* A connection somebody has, or had and gave back, was created once.
Owned ==
  /\ \A p \in Callers : call[p].pc = "got" =>
       call[p].conn \in Conns /\ dial[call[p].conn].pc = "done" /\ claims[call[p].conn] = 1
  /\ \A c \in Conns : claims[c] <= 1
  /\ \A i \in DOMAIN idle : dial[idle[i]].pc = "done" /\ claims[idle[i]] = 1

\* In ordered mode the caller of a dial waits for it.
OrderedDials ==
  mode = "ordered" =>
    \A d \in Conns : Live(d) =>
      /\ dial[d].by \in Callers
      /\ call[dial[d].by].pc = "dial"
      /\ call[dial[d].by].conn = d
      /\ dial[d].pc = "install" => dial[d].err = "none"

\* A caller that waits has a state object, and the dial it waits for.
Waiting ==
  \A p \in Callers :
    /\ call[p].pc \in {"slot", "dial"} => mode = "ordered"
    /\ call[p].pc \in {"start", "join", "slot", "dial"} => call[p].state \in 1 .. states
    /\ call[p].pc \in {"start", "join", "dial"} => call[p].conn \in 1 .. dials

\* Whoever started a dial and waits for it knows why it may be cut short.
Started ==
  \A p \in Callers : call[p].pc \in {"start", "dial"} =>
    /\ dial[call[p].conn].state = call[p].state
    /\ Live(call[p].conn) => dial[call[p].conn].by = p
    /\ dial[call[p].conn].pc = "late" => p \in expired
    /\ dial[call[p].conn].err = "cut" => p \in expired \/ call[p].state # cur

PoolInv ==
  /\ PoolTypeOK /\ Dialled /\ Staged /\ Sharing /\ Owned /\ OrderedDials /\ Waiting /\ Started
  /\ NoConnLost /\ ExclusiveUse

\* What is shared is a connection.
LEMMA SharedConn ==
  ASSUME PoolInv
  PROVE  shared # 0 => shared \in Conns
<1>1. shared \in 0 .. MaxDials
  BY Zenon DEF PoolInv, PoolTypeOK
<1>2. QED
  BY <1>1, PoolAssumption DEF Conns

-----------------------------------------------------------------------------
(* The idle list *)

\* The idle list without c has elements of the idle list only (removeConn).
LEMMA UnlistedSeq ==
  ASSUME idle \in Seq(Conns), NEW c \in Conns
  PROVE  /\ Unlisted(c) \in Seq(Conns)
         /\ \A i \in DOMAIN Unlisted(c) : \E j \in DOMAIN idle : Unlisted(c)[i] = idle[j]
<1>1. CASE \E i \in DOMAIN idle : idle[i] = c
  <2>1. Len(idle) - 1 \in Nat /\ DOMAIN idle = 1 .. Len(idle)
    BY <1>1
  <2>2. \A i \in 1 .. Len(idle) - 1 : i \in DOMAIN idle /\ i + 1 \in DOMAIN idle
    BY <2>1
  <2>3. Unlisted(c) = [i \in 1 .. Len(idle) - 1 |->
          IF \E j \in 1 .. i : idle[j] = c THEN idle[i + 1] ELSE idle[i]]
    BY <1>1 DEF Unlisted
  <2>4. /\ DOMAIN Unlisted(c) = 1 .. Len(idle) - 1
        /\ \A i \in 1 .. Len(idle) - 1 : Unlisted(c)[i] \in {idle[i], idle[i + 1]}
    BY <2>3
  <2>5. \A i \in 1 .. Len(idle) - 1 : Unlisted(c)[i] \in Conns
    BY <2>2, <2>4
  <2>6. Unlisted(c) \in Seq(Conns)
    BY <2>1, <2>3, <2>5
  <2>7. QED
    BY <2>2, <2>4, <2>6
<1>2. CASE ~ \E i \in DOMAIN idle : idle[i] = c
  BY <1>2 DEF Unlisted
<1>3. QED
  BY <1>1, <1>2

\* It has none of them twice.
LEMMA UnlistedOnce ==
  ASSUME idle \in Seq(Conns), NEW c \in Conns,
         \A i, j \in DOMAIN idle : idle[i] = idle[j] => i = j
  PROVE  \A i, j \in DOMAIN Unlisted(c) : Unlisted(c)[i] = Unlisted(c)[j] => i = j
<1>1. CASE \E i \in DOMAIN idle : idle[i] = c
  <2>1. Len(idle) - 1 \in Nat /\ DOMAIN idle = 1 .. Len(idle)
    BY <1>1
  <2>2. Unlisted(c) = [i \in 1 .. Len(idle) - 1 |->
          IF \E j \in 1 .. i : idle[j] = c THEN idle[i + 1] ELSE idle[i]]
    BY <1>1 DEF Unlisted
  <2>3. SUFFICES ASSUME NEW i \in 1 .. Len(idle) - 1, NEW j \in 1 .. Len(idle) - 1, i < j
                 PROVE  Unlisted(c)[i] # Unlisted(c)[j]
    BY <2>1, <2>2
  <2>4. CASE \E k \in 1 .. i : idle[k] = c
    <3>1. Unlisted(c)[i] = idle[i + 1] /\ Unlisted(c)[j] = idle[j + 1]
      BY <2>2, <2>3, <2>4
    <3>2. QED
      BY <2>1, <2>3, <3>1
  <2>5. CASE ~ \E k \in 1 .. i : idle[k] = c
    <3>1. Unlisted(c)[i] = idle[i] /\ Unlisted(c)[j] \in {idle[j], idle[j + 1]}
      BY <2>2, <2>3, <2>5
    <3>2. QED
      BY <2>1, <2>3, <3>1
  <2>6. QED
    BY <2>4, <2>5
<1>2. CASE ~ \E i \in DOMAIN idle : idle[i] = c
  BY <1>2 DEF Unlisted
<1>3. QED
  BY <1>1, <1>2

\* What waits in the idle list is a connection.
LEMMA IdleConns == PoolInv => \A i \in DOMAIN idle : idle[i] \in Conns
BY DEF PoolInv, PoolTypeOK

-----------------------------------------------------------------------------
(* Callers that move *)

\* Callers and dials are well formed.
LEMMA Records ==
  /\ \A pc \in {"idle", "acquire", "start", "join", "slot", "dial", "got"}, t \in 0 .. MaxStates,
        c \in 0 .. MaxDials : Caller(pc, t, c) \in CallerRec
  /\ \A pc \in {"none", "dialing", "late", "install", "done"}, t \in 0 .. MaxStates,
        p \in Callers \cup {0}, err \in {"none", "cut", "dial"} : Dial(pc, t, p, err) \in DialRec
BY DEF Caller, CallerRec, Dial, DialRec

\* The callers stay as they are, or go back to their transport or to the
\* begin of their Acquire; none that dials itself does.
Steady ==
  /\ call' \in [Callers -> CallerRec]
  /\ expired' \subseteq Callers
  /\ \A q \in Callers : \/ call'[q] = call[q] /\ (q \in expired' <=> q \in expired)
                        \/ call[q].pc # "dial" /\ call'[q].pc \in {"idle", "acquire"}

\* A step that moves no caller.
LEMMA Stays ==
  ASSUME PoolInv, UNCHANGED callVars
  PROVE  Steady
BY DEF PoolInv, PoolTypeOK, Steady, callVars

\* A caller goes back to its transport, or begins its Acquire again.
LEMMA Moves ==
  ASSUME PoolInv, NEW p \in Callers, call[p].pc # "dial", Back(p) \/ Again(p)
  PROVE  Steady
<1>1. call \in [Callers -> CallerRec] /\ expired \subseteq Callers
  BY DEF PoolInv, PoolTypeOK
<1>2. CASE Back(p)
  <2>1. Caller("idle", 0, 0) \in CallerRec /\ Caller("idle", 0, 0).pc = "idle"
    BY Records, PoolAssumption DEF Caller
  <2>2. QED
    BY <1>1, <1>2, <2>1 DEF Back, Steady
<1>3. CASE Again(p)
  <2>1. Caller("acquire", 0, 0) \in CallerRec /\ Caller("acquire", 0, 0).pc = "acquire"
    BY Records, PoolAssumption DEF Caller
  <2>2. QED
    BY <1>1, <1>3, <2>1 DEF Again, Steady
<1>4. QED
  BY <1>2, <1>3

\* The invariants on the callers.
LEMMA MovedCallers ==
  ASSUME PoolInv, Steady, UNCHANGED <<mode, cur, states, dials, dial>>
  PROVE  OrderedDials' /\ Waiting' /\ Started'
<1>1. \A q \in Callers : \/ call'[q] = call[q] /\ (q \in expired' <=> q \in expired)
                         \/ call[q].pc # "dial" /\ call'[q].pc \in {"idle", "acquire"}
  BY DEF Steady
<1>2. \A q \in Callers : call[q].pc = "dial" => call'[q] = call[q]
  BY <1>1
<1>3. \A d \in Conns : mode = "ordered" /\ Live(d) =>
        dial[d].by \in Callers /\ call[dial[d].by].pc = "dial"
  BY DEF PoolInv, OrderedDials
<1>4. OrderedDials'
  BY <1>2, <1>3 DEF PoolInv, OrderedDials, Live
<1>5. Waiting'
  BY <1>1 DEF PoolInv, Waiting
<1>6. Started'
  BY <1>1 DEF PoolInv, Started, Live
<1>7. QED
  BY <1>4, <1>5, <1>6

\* A caller moves, and connections may be closed.
LEMMA Moved ==
  ASSUME PoolInv, Steady, open' \subseteq open,
         UNCHANGED <<stateVars, fieldVars, dialVars, dead, cut, claims>>
  PROVE  PoolInv'
<1> USE PoolAssumption DEF stateVars, fieldVars, dialVars
<1>1. /\ call' \in [Callers -> CallerRec]
      /\ expired' \subseteq Callers
      /\ \A q \in Callers : call'[q] = call[q] \/ call'[q].pc \in {"idle", "acquire"}
  BY DEF Steady
<1>2. PoolTypeOK'
  BY <1>1 DEF PoolInv, PoolTypeOK
<1>3. Dialled' /\ Staged' /\ Sharing' /\ NoConnLost'
  BY DEF PoolInv, Dialled, Staged, Sharing, NoConnLost, Live, Tracked, Closed, Retired
<1>4. Owned' /\ ExclusiveUse'
  BY <1>1 DEF PoolInv, Owned, ExclusiveUse
<1>5. OrderedDials' /\ Waiting' /\ Started'
  BY MovedCallers
<1>6. QED
  BY <1>2, <1>3, <1>4, <1>5 DEF PoolInv

\* A connection is taken out of the current state.
LEMMA Removed ==
  ASSUME PoolInv, Steady, NEW c \in Conns, ~Closed, RemoveConn(c), UNCHANGED <<dialVars, claims>>
  PROVE  PoolInv'
<1> USE PoolAssumption DEF stateVars, fieldVars, dialVars
<1>1. /\ call' \in [Callers -> CallerRec]
      /\ expired' \subseteq Callers
      /\ \A q \in Callers : call'[q] = call[q] \/ call'[q].pc \in {"idle", "acquire"}
  BY DEF Steady
<1>2. /\ cur \in States
      /\ all' = [all EXCEPT ![cur] = @ \ {c}]
      /\ open' = open \ {c}
      /\ UNCHANGED <<mode, cur, states, stage, connecting, dead, dials, dial, slots, claims>>
      /\ \/ UNCHANGED <<shared, claimed, cut>>
         \/ shared' = 0 /\ claimed' = 0 /\ cut' = cut \cup {c}
  <2>1. cur \in States
    BY DEF Closed, PoolInv, PoolTypeOK, States
  <2>2. QED
    BY <2>1 DEF RemoveConn
<1>3. /\ idle' \in Seq(Conns)
      /\ \A i \in DOMAIN idle' : \E j \in DOMAIN idle : idle'[i] = idle[j]
  <2>1. idle \in Seq(Conns) /\ idle' = Unlisted(c)
    BY DEF RemoveConn, PoolInv, PoolTypeOK
  <2>2. QED
    BY <2>1, UnlistedSeq
<1>4. PoolTypeOK'
  BY <1>1, <1>2, <1>3 DEF PoolInv, PoolTypeOK
<1>5. Dialled' /\ Staged'
  BY <1>2 DEF PoolInv, Dialled, Staged, Live
<1>6. Sharing'
  BY <1>2 DEF PoolInv, Sharing, Live
<1>7. NoConnLost'
  BY <1>2 DEF PoolInv, PoolTypeOK, NoConnLost, Tracked, Closed, Retired
<1>8. Owned'
  BY <1>1, <1>2, <1>3 DEF PoolInv, Owned
<1>9. ExclusiveUse'
  <2>1. CASE mode = "ordered"
    <3>1. \A i, j \in DOMAIN idle' : idle'[i] = idle'[j] => i = j
      <4>1. /\ idle \in Seq(Conns) /\ idle' = Unlisted(c)
            /\ \A i, j \in DOMAIN idle : idle[i] = idle[j] => i = j
        BY <2>1 DEF RemoveConn, PoolInv, PoolTypeOK, ExclusiveUse
      <4>2. QED
        BY <4>1, UnlistedOnce
    <3>2. QED
      BY <1>1, <1>2, <1>3, <3>1 DEF PoolInv, ExclusiveUse
  <2>2. QED
    BY <1>2, <2>1 DEF ExclusiveUse
<1>10. OrderedDials' /\ Waiting' /\ Started'
  BY <1>2, MovedCallers
<1>11. QED
  BY <1>4, <1>5, <1>6, <1>7, <1>8, <1>9, <1>10 DEF PoolInv

-----------------------------------------------------------------------------
(* Acquire *)

\* The invariants on the callers, when only p changes and was not dialling.
LEMMA OtherCallers ==
  ASSUME PoolInv, NEW p \in Callers, call[p].pc # "dial",
         \A q \in Callers \ {p} : call'[q] = call[q],
         UNCHANGED <<mode, dial>>
  PROVE  OrderedDials'
BY DEF PoolInv, OrderedDials, Live

\* The shared connection is handed out.
LEMMA HandsShared ==
  ASSUME PoolInv, NEW p \in Callers, call[p].pc # "dial", mode = "single", shared \in Conns,
         Hand(p, shared, 1 - claimed), claimed' = 1,
         UNCHANGED <<stateVars, idle, shared, connecting, dialVars, connVars>>
  PROVE  PoolInv'
<1> USE PoolAssumption DEF stateVars, dialVars, connVars
<1>1. /\ call' \in [Callers -> CallerRec]
      /\ call'[p].pc = "got" /\ call'[p].conn = shared
      /\ \A q \in Callers \ {p} : call'[q] = call[q]
      /\ expired' = expired
  <2>1. call \in [Callers -> CallerRec] /\ 0 \in 0 .. MaxStates /\ shared \in 0 .. MaxDials
    BY DEF PoolInv, PoolTypeOK
  <2>2. call' = [call EXCEPT ![p] = Caller("got", 0, shared)] /\ expired' = expired
    BY DEF Hand
  <2>3. QED
    BY <2>1, <2>2 DEF Caller, CallerRec
<1>2. /\ claims[shared] = claimed /\ claimed \in 0 .. 1 /\ dial[shared].pc = "done"
      /\ claims' = [claims EXCEPT ![shared] = @ + (1 - claimed)]
      /\ claims \in [Conns -> Nat]
  BY DEF Hand, PoolInv, PoolTypeOK, Sharing, Conns
<1>3. claims' \in [Conns -> Nat] /\ claims'[shared] = 1
      /\ \A c \in Conns \ {shared} : claims'[c] = claims[c]
  BY <1>2
<1>4. PoolTypeOK'
  BY <1>1, <1>3 DEF PoolInv, PoolTypeOK
<1>5. Dialled'
  BY <1>2, <1>3 DEF PoolInv, Dialled, Live
<1>6. Staged' /\ NoConnLost' /\ ExclusiveUse'
  BY DEF PoolInv, Staged, NoConnLost, Tracked, Closed, Retired, ExclusiveUse
<1>7. Sharing'
  BY <1>2, <1>3 DEF PoolInv, Sharing, Live, Conns
<1>8. Owned'
  BY <1>1, <1>2, <1>3 DEF PoolInv, Owned
<1>9. OrderedDials'
  BY <1>1, OtherCallers
<1>10. Waiting' /\ Started'
  BY <1>1 DEF PoolInv, Waiting, Started, Live
<1>11. QED
  BY <1>4, <1>5, <1>6, <1>7, <1>8, <1>9, <1>10 DEF PoolInv

\* The first idle connection is handed out.
LEMMA HandsIdle ==
  ASSUME PoolInv, NEW p \in Callers, TakeIdle(p)
  PROVE  PoolInv'
<1> USE PoolAssumption DEF stateVars, dialVars, connVars
<1>1. idle \in Seq(Conns) /\ idle # <<>> /\ mode = "ordered" /\ call[p].pc = "acquire"
  BY DEF TakeIdle, AtOrdered, PoolInv, PoolTypeOK
<1>2. /\ Head(idle) = idle[1] /\ 1 \in DOMAIN idle /\ Head(idle) \in Conns
      /\ idle' = Tail(idle) /\ idle' \in Seq(Conns)
      /\ \A i \in DOMAIN idle' : i + 1 \in DOMAIN idle /\ idle'[i] = idle[i + 1] /\ i + 1 # 1
      /\ \A i, j \in DOMAIN idle' : i + 1 = j + 1 => i = j
  BY <1>1 DEF TakeIdle
<1>3. /\ call' \in [Callers -> CallerRec]
      /\ call'[p].pc = "got" /\ call'[p].conn = Head(idle)
      /\ \A q \in Callers \ {p} : call'[q] = call[q]
      /\ expired' = expired
  <2>1. call \in [Callers -> CallerRec] /\ 0 \in 0 .. MaxStates /\ Head(idle) \in 0 .. MaxDials
    BY <1>2 DEF PoolInv, PoolTypeOK, Conns
  <2>2. call' = [call EXCEPT ![p] = Caller("got", 0, Head(idle))] /\ expired' = expired
    BY DEF Hand, TakeIdle
  <2>3. QED
    BY <2>1, <2>2 DEF Caller, CallerRec
<1>4. claims' = claims
  BY <1>2 DEF TakeIdle, Hand, PoolInv, PoolTypeOK
<1>5. UNCHANGED <<stateVars, shared, claimed, connecting, dialVars, connVars>>
  BY DEF TakeIdle
<1>6. PoolTypeOK'
  BY <1>2, <1>3, <1>4, <1>5 DEF PoolInv, PoolTypeOK
<1>7. Dialled' /\ Staged' /\ NoConnLost' /\ Sharing'
  BY <1>4, <1>5 DEF PoolInv, Dialled, Staged, NoConnLost, Tracked, Closed, Retired, Sharing, Live
<1>8. Owned'
  BY <1>2, <1>3, <1>4, <1>5 DEF PoolInv, Owned
<1>9. ExclusiveUse'
  <2>1. \A i, j \in DOMAIN idle : idle[i] = idle[j] => i = j
    BY <1>1 DEF PoolInv, ExclusiveUse
  <2>2. \A q \in Callers : call[q].pc = "got" => \A i \in DOMAIN idle : idle[i] # call[q].conn
    BY <1>1 DEF PoolInv, ExclusiveUse
  <2>3. \A i, j \in DOMAIN idle' : idle'[i] = idle'[j] => i = j
    BY <1>2, <2>1
  <2>4. \A i \in DOMAIN idle' : idle'[i] # Head(idle)
    BY <1>2, <2>1
  <2>5. \A q \in Callers \ {p} : call'[q].pc = "got" =>
          call'[q].conn # Head(idle) /\ \A i \in DOMAIN idle' : idle'[i] # call'[q].conn
    BY <1>2, <1>3, <2>2
  <2>6. QED
    BY <1>1, <1>3, <1>5, <2>3, <2>4, <2>5 DEF PoolInv, ExclusiveUse
<1>10. OrderedDials'
  BY <1>1, <1>3, <1>5, OtherCallers, Zenon
<1>11. Waiting' /\ Started'
  BY <1>3, <1>5 DEF PoolInv, Waiting, Started, Live
<1>12. QED
  BY <1>6, <1>7, <1>8, <1>9, <1>10, <1>11 DEF PoolInv

\* A caller joins a dial or waits for a slot.
LEMMA Queues ==
  ASSUME PoolInv, NEW p \in Callers, JoinDial(p) \/ WantSlot(p)
  PROVE  PoolInv'
<1> USE PoolAssumption DEF stateVars, fieldVars, dialVars, connVars
<1>1. /\ cur \in 1 .. states /\ cur \in 0 .. MaxStates /\ connecting \in 0 .. MaxDials
      /\ call[p].pc = "acquire" /\ 0 \in 0 .. MaxDials
      /\ UNCHANGED <<stateVars, fieldVars, dialVars, expired, connVars, claims>>
  BY DEF JoinDial, WantSlot, AtShared, AtOrdered, Closed, PoolInv, PoolTypeOK, States
<1>2. /\ call' \in [Callers -> CallerRec]
      /\ call'[p].pc \in {"join", "slot"} /\ call'[p].state = cur
      /\ call'[p].pc = "join" => call'[p].conn = connecting /\ connecting # 0
      /\ \A q \in Callers \ {p} : call'[q] = call[q]
  <2>1. call \in [Callers -> CallerRec]
    BY DEF PoolInv, PoolTypeOK
  <2>2. CASE JoinDial(p)
    <3>1. call' = [call EXCEPT ![p] = Caller("join", cur, connecting)] /\ connecting # 0
      BY <2>2 DEF JoinDial
    <3>2. QED
      BY <1>1, <2>1, <3>1 DEF Caller, CallerRec
  <2>3. CASE WantSlot(p)
    <3>1. call' = [call EXCEPT ![p] = Caller("slot", cur, 0)]
      BY <2>3 DEF WantSlot
    <3>2. QED
      BY <1>1, <2>1, <3>1 DEF Caller, CallerRec
  <2>4. QED
    BY <2>2, <2>3
<1>3. PoolTypeOK'
  BY <1>1, <1>2 DEF PoolInv, PoolTypeOK
<1>4. Dialled' /\ Staged' /\ NoConnLost' /\ Sharing'
  BY <1>1, Zenon DEF PoolInv, Dialled, Staged, NoConnLost, Tracked, Closed, Retired, Sharing, Live
<1>5. Owned' /\ ExclusiveUse'
  BY <1>1, <1>2 DEF PoolInv, Owned, ExclusiveUse
<1>6. OrderedDials'
  BY <1>1, <1>2, OtherCallers
<1>7. call'[p].pc = "slot" => mode = "ordered"
  <2>1. call \in [Callers -> CallerRec]
    BY DEF PoolInv, PoolTypeOK
  <2>2. QED
    BY <2>1 DEF JoinDial, WantSlot, AtOrdered, Caller
<1>8. Waiting'
  <2>1. /\ call'[p].state \in 1 .. states
        /\ call'[p].pc = "join" => call'[p].conn \in 1 .. dials
    BY <1>1, <1>2 DEF PoolInv, PoolTypeOK, Sharing
  <2>2. QED
    BY <1>1, <1>2, <1>7, <2>1 DEF PoolInv, Waiting
<1>9. Started'
  BY <1>1, <1>2 DEF PoolInv, Started, Live
<1>10. QED
  BY <1>3, <1>4, <1>5, <1>6, <1>8, <1>9 DEF PoolInv

-----------------------------------------------------------------------------
(* The dials *)

\* A dial begins.
LEMMA StartFacts ==
  ASSUME PoolInv, NEW p \in Callers, NEW s \in 1 .. states, NEW pc \in {"start", "dial"},
         StartDial(p, s, pc)
  PROVE  /\ dials + 1 \in Conns /\ dials' = dials + 1 /\ dials \in Nat
         /\ dial[dials + 1].pc = "none" /\ claims[dials + 1] = 0 /\ dials + 1 \notin open
         /\ call' \in [Callers -> CallerRec] /\ dial' \in [Conns -> DialRec]
         /\ call'[p].pc = pc /\ call'[p].state = s /\ call'[p].conn = dials + 1
         /\ \A q \in Callers \ {p} : call'[q] = call[q]
         /\ dial'[dials + 1].pc = (IF p \in expired THEN "late" ELSE "dialing")
         /\ dial'[dials + 1].state = s /\ dial'[dials + 1].by = p /\ dial'[dials + 1].err = "none"
         /\ \A d \in Conns \ {dials + 1} : dial'[d] = dial[d]
<1> USE PoolAssumption
<1>1. /\ dials \in Nat /\ dials + 1 \in Conns /\ dials + 1 > dials /\ s \in 0 .. MaxStates
      /\ call \in [Callers -> CallerRec] /\ dial \in [Conns -> DialRec]
  BY DEF StartDial, PoolInv, PoolTypeOK, Conns, States
<1>2. dial[dials + 1].pc = "none" /\ claims[dials + 1] = 0 /\ dials + 1 \notin open
  BY <1>1 DEF PoolInv, Dialled
<1>3. /\ call' \in [Callers -> CallerRec]
      /\ call'[p].pc = pc /\ call'[p].state = s /\ call'[p].conn = dials + 1
      /\ \A q \in Callers \ {p} : call'[q] = call[q]
  BY <1>1 DEF StartDial, Caller, CallerRec, Conns
<1>4. /\ dial' \in [Conns -> DialRec]
      /\ dial'[dials + 1].pc = (IF p \in expired THEN "late" ELSE "dialing")
      /\ dial'[dials + 1].state = s /\ dial'[dials + 1].by = p /\ dial'[dials + 1].err = "none"
      /\ \A d \in Conns \ {dials + 1} : dial'[d] = dial[d]
  BY <1>1 DEF StartDial, Dial, DialRec
<1>5. QED
  BY <1>1, <1>2, <1>3, <1>4 DEF StartDial

\* A dial begins, shared or in a slot of its own.
LEMMA Starts ==
  ASSUME PoolInv, NEW p \in Callers, NEW s \in 1 .. states, NEW pc \in {"start", "dial"},
         StartDial(p, s, pc), call[p].pc \in {"acquire", "slot"},
         pc = "dial" <=> mode = "ordered",
         mode = "single" => connecting' = dials + 1 /\ connecting = 0 /\ shared = 0 /\ s = cur,
         mode = "ordered" => connecting' = connecting,
         slots' \in Nat,
         UNCHANGED <<stateVars, idle, shared, claimed, expired, connVars, claims>>
  PROVE  PoolInv'
<1> USE PoolAssumption DEF stateVars, connVars
<1> DEFINE d == dials + 1
<1>1. /\ d \in Conns /\ dials' = d /\ dials \in Nat /\ dial[d].pc = "none" /\ claims[d] = 0
      /\ d \notin open /\ call' \in [Callers -> CallerRec] /\ dial' \in [Conns -> DialRec]
      /\ call'[p].pc = pc /\ call'[p].state = s /\ call'[p].conn = d
      /\ \A q \in Callers \ {p} : call'[q] = call[q]
      /\ dial'[d].pc = (IF p \in expired THEN "late" ELSE "dialing")
      /\ dial'[d].state = s /\ dial'[d].by = p /\ dial'[d].err = "none"
      /\ \A e \in Conns \ {d} : dial'[e] = dial[e]
  BY StartFacts
<1> HIDE DEF d
<1>2. dials + 1 = d /\ mode \in {"single", "ordered"}
  BY DEF d, PoolInv, PoolTypeOK
<1>3. connecting' \in 0 .. MaxDials /\ connecting' <= d
  <2>1. connecting \in 0 .. MaxDials /\ connecting <= dials /\ dials \in Nat /\ d \in Conns
    BY <1>1, Zenon DEF PoolInv, PoolTypeOK, Sharing
  <2>2. connecting' = d \/ connecting' = connecting
    BY <1>2, Zenon
  <2>3. QED
    BY <1>2, <2>1, <2>2 DEF Conns
<1>4. PoolTypeOK'
  <2>1. dials' \in 0 .. MaxDials
    BY <1>1, SMTT(40) DEF Conns
  <2>2. QED
    BY <1>1, <1>3, <2>1, Zenon DEF PoolInv, PoolTypeOK
<1>5. Dialled'
  BY <1>1, <1>2 DEF PoolInv, Dialled, Live, Conns
<1>6. Staged'
  BY DEF PoolInv, Staged
<1>7. NoConnLost'
  BY <1>1, Zenon DEF PoolInv, NoConnLost, Tracked, Closed, Retired, PoolTypeOK
<1>8. Sharing'
  <2>1. CASE mode = "single"
    <3>1. shared = 0 /\ \A e \in Conns : Live(e) => dial[e].state # cur
      BY <2>1, <1>1 DEF PoolInv, Sharing, Live, Conns
    <3>2. claimed = 0
      BY <2>1, <3>1, Zenon DEF PoolInv, Sharing
    <3>3. QED
      BY <1>1, <1>2, <1>3, <2>1, <3>1, <3>2 DEF Sharing, Live
  <2>2. CASE mode = "ordered"
    BY <1>1, <1>3, <2>2, Zenon DEF PoolInv, Sharing
  <2>3. QED
    BY <1>2, <2>1, <2>2
<1>9. Owned' /\ ExclusiveUse'
  <2>1. /\ \A i \in DOMAIN idle : idle[i] # d /\ idle[i] \in Conns
        /\ \A q \in Callers : call[q].pc = "got" => call[q].conn # d
    BY <1>1, IdleConns DEF PoolInv, Owned
  <2>2. Owned /\ ExclusiveUse
    BY Zenon DEF PoolInv
  <2>3. QED
    BY <1>1, <2>1, <2>2 DEF Owned, ExclusiveUse
<1>10. OrderedDials'
  <2>1. OrderedDials
    BY Zenon DEF PoolInv
  <2>2. QED
    BY <1>1, <1>2, <2>1 DEF OrderedDials, Live
<1>11. Waiting'
  <2>1. Waiting
    BY Zenon DEF PoolInv
  <2>2. QED
    BY <1>1, <1>2, <2>1 DEF Waiting, Conns
<1>12. Started'
  <2>1. \A q \in Callers \ {p} : call[q].pc \in {"start", "dial"} =>
          call[q].conn # d /\ call[q].conn \in Conns
    <3>1. Waiting
      BY Zenon DEF PoolInv
    <3>2. QED
      BY <1>1, <1>2, <3>1 DEF Waiting, Conns
  <2>2. Started
    BY Zenon DEF PoolInv
  <2>3. QED
    BY <1>1, <2>1, <2>2 DEF Started, Live
<1>13. QED
  BY <1>4, <1>5, <1>6, <1>7, <1>8, <1>9, <1>10, <1>11, <1>12 DEF PoolInv

\* acquireShared starts the dial that others will join.
LEMMA StartsShared ==
  ASSUME PoolInv, NEW p \in Callers, StartShared(p)
  PROVE  PoolInv'
<1>1. cur \in 1 .. states /\ slots' \in Nat
  BY DEF StartShared, AtShared, Closed, PoolInv, PoolTypeOK, States
<1>2. QED
  BY <1>1, Starts DEF StartShared, AtShared

\* acquireOrdered has a slot and dials.
LEMMA TakesSlot ==
  ASSUME PoolInv, NEW p \in Callers, TakeSlot(p)
  PROVE  PoolInv'
<1>1. call[p].state \in 1 .. states /\ mode = "ordered" /\ slots' \in Nat
  BY DEF TakeSlot, PoolInv, PoolTypeOK, Waiting
<1>2. QED
  BY <1>1, Starts DEF TakeSlot, fieldVars

\* The context of a caller ends.
LEMMA Expires ==
  ASSUME PoolInv, NEW p \in Callers, Expire(p)
  PROVE  PoolInv'
<1> USE PoolAssumption DEF stateVars, fieldVars, connVars
<1>1. /\ expired' = expired \cup {p}
      /\ dial \in [Conns -> DialRec]
      /\ UNCHANGED <<stateVars, fieldVars, slots, dials, call, connVars, claims>>
  BY SMTT(40) DEF Expire, PoolInv, PoolTypeOK
<1>2. \A d \in Conns :
        /\ dial'[d] \in DialRec /\ dial'[d].state = dial[d].state /\ dial'[d].by = dial[d].by
        /\ \/ dial'[d] = dial[d]
           \/ dial'[d].pc = "late" /\ dial[d].pc = "dialing" /\ dial[d].by = p /\ dial'[d].err = "none"
  BY <1>1, ZenonT(40) DEF Expire, Dial, DialRec
<1>3. dial' \in [Conns -> DialRec]
  BY <1>2, Zenon DEF Expire
<1>4. PoolTypeOK'
  BY <1>1, <1>3, Zenon DEF PoolInv, PoolTypeOK
<1>5. Dialled' /\ Staged'
  BY <1>1, <1>2, ZenonT(40) DEF PoolInv, Dialled, Staged, Live
<1>6. Sharing'
  <2>1. shared # 0 => shared \in Conns
    BY SharedConn, Zenon
  <2>2. QED
    BY <1>1, <1>2, <2>1 DEF PoolInv, Sharing, Live
<1>7. NoConnLost'
  BY <1>1, <1>2, Zenon DEF PoolInv, NoConnLost, Tracked, Closed, Retired, PoolTypeOK
<1>8. Owned' /\ ExclusiveUse'
  <2>1. Owned /\ ExclusiveUse /\ \A i \in DOMAIN idle : idle[i] \in Conns
    BY IdleConns, Zenon DEF PoolInv
  <2>2. QED
    BY <1>1, <1>2, <2>1 DEF Owned, ExclusiveUse
<1>9. OrderedDials' /\ Waiting'
  <2>1. OrderedDials /\ Waiting
    BY Zenon DEF PoolInv
  <2>2. QED
    BY <1>1, <1>2, <2>1 DEF OrderedDials, Waiting, Live
<1>10. Started'
  <2>1. \A q \in Callers : call[q].pc \in {"start", "dial"} => call[q].conn \in Conns
    BY DEF PoolInv, Waiting, Conns, PoolTypeOK
  <2>2. QED
    BY <1>1, <1>2, <2>1, SMTT(40) DEF PoolInv, Started, Live
<1>11. QED
  BY <1>4, <1>5, <1>6, <1>7, <1>8, <1>9, <1>10 DEF PoolInv

-----------------------------------------------------------------------------
(* The dial *)

\* The dial d of connectSingle, or a successful one of dialAndInstall, moves
\* on; connections other than d stay as they are.
LEMMA DialStays ==
  ASSUME PoolInv, NEW d \in Conns, Live(d), dial' \in [Conns -> DialRec],
         \A e \in Conns \ {d} : dial'[e] = dial[e],
         dial'[d].pc \in {"install", "done"},
         dial'[d].state = dial[d].state,
         dial'[d].pc = "install" => dial'[d].by = dial[d].by,
         mode = "ordered" => dial'[d].pc = "install" /\ dial'[d].err = "none",
         dial'[d].err = "cut" => dial[d].err = "cut" \/ dial[d].pc = "late" \/ dial[d].state # cur,
         d \in open' => dial'[d].err = "none",
         \A e \in Conns \ {d} : e \in open' <=> e \in open,
         UNCHANGED <<mode, cur, states, stage, idle, dials, callVars, claims>>
  PROVE  Dialled' /\ Staged' /\ Owned' /\ OrderedDials' /\ Waiting' /\ Started' /\ ExclusiveUse'
<1> USE PoolAssumption DEF callVars
<1>1. ~(d > dials)
  BY DEF PoolInv, Dialled, Live
<1>2. Dialled'
  <2>1. dial'[d].pc # "none"
    OBVIOUS
  <2>2. Live(d)' \/ dial'[d].pc = "done"
    BY DEF Live
  <2>3. \A e \in Conns \ {d} : Live(e)' <=> Live(e)
    BY Zenon DEF Live
  <2>4. claims[d] = 0 /\ dial[d].state \in 1 .. states
    BY Zenon DEF PoolInv, Dialled, Live
  <2>5. \A e \in Conns \ {d} :
          /\ dial'[e].pc = "none" <=> e > dials
          /\ Live(e)' => dial'[e].state \in 1 .. states
          /\ dial'[e].pc # "done" => claims[e] = 0
          /\ e \in open' => dial'[e].pc = "done" \/ (dial'[e].pc = "install" /\ dial'[e].err = "none")
    <3>1. TAKE e \in Conns \ {d}
    <3>2. dial'[e] = dial[e] /\ (e \in open' <=> e \in open)
      BY Zenon
    <3>3. QED
      BY <2>3, <3>2 DEF PoolInv, Dialled
  <2>6. QED
    BY <1>1, <2>1, <2>2, <2>4, <2>5, Zenon DEF Dialled
<1>3. Staged' /\ ExclusiveUse' /\ Waiting'
  BY SMTT(40) DEF PoolInv, Staged, ExclusiveUse, Waiting
<1>4. Owned'
  BY <1>1, IdleConns, ZenonT(40) DEF PoolInv, Owned, Live
<1>5. OrderedDials'
  BY <1>1 DEF PoolInv, OrderedDials, Live
<1>6. Started'
  <2>1. SUFFICES ASSUME NEW q \in Callers, call[q].pc \in {"start", "dial"}
                 PROVE  /\ dial'[call[q].conn].state = call[q].state
                        /\ dial'[call[q].conn].pc \in {"dialing", "late", "install"}
                             => dial'[call[q].conn].by = q
                        /\ dial'[call[q].conn].pc = "late" => q \in expired
                        /\ dial'[call[q].conn].err = "cut" => q \in expired \/ call[q].state # cur
    BY DEF Started, Live
  <2>2. call[q].conn \in Conns
    <3>1. call[q].conn \in 1 .. dials /\ dials \in 0 .. MaxDials
      BY <2>1, Zenon DEF PoolInv, PoolTypeOK, Waiting
    <3>2. QED
      BY <3>1, PoolAssumption DEF Conns
  <2>3. CASE call[q].conn = d
    BY <1>1, <2>1, <2>3, Zenon DEF PoolInv, Started, Live
  <2>4. CASE call[q].conn # d
    BY <1>1, <2>1, <2>2, <2>4 DEF PoolInv, Started, Live
  <2>5. QED
    BY <2>3, <2>4, Zenon
<1>7. QED
  BY <1>2, <1>3, <1>4, <1>5, <1>6, Zenon

\* dial returns to connectSingle, or with a connection to dialAndInstall.
LEMMA Returned ==
  ASSUME PoolInv, NEW d \in Conns, NEW e \in {"none", "dial"}, DialReturns(d, e),
         mode = "single" \/ DialError(d, e) = "none"
  PROVE  PoolInv'
<1> USE PoolAssumption DEF stateVars, fieldVars
<1> DEFINE err == DialError(d, e)
<1>1. err \in {"none", "cut", "dial"} /\ d \notin open /\ (mode = "ordered" => err = "none")
  BY DEF DialError, DialReturns, PoolInv, Dialled
<1>2. /\ dial' = [dial EXCEPT ![d] = Dial("install", dial[d].state, dial[d].by, err)]
      /\ open' = (IF err = "none" THEN open \cup {d} ELSE open)
      /\ dial[d].pc \in {"dialing", "late"} /\ Live(d)
      /\ UNCHANGED <<stateVars, fieldVars, slots, dials, callVars, dead, cut, claims>>
  BY DEF DialReturns, Live
<1>3. dial \in [Conns -> DialRec] /\ dial[d].state \in 1 .. states
  BY <1>2 DEF PoolInv, PoolTypeOK, Dialled
<1>4. err = "cut" => dial[d].pc = "late" \/ dial[d].state # cur
  <2>1. dial[d].state \in States
    BY <1>3 DEF PoolInv, PoolTypeOK, States
  <2>2. QED
    BY <1>2, <2>1 DEF DialError, StateDone, PoolInv, Staged
<1> HIDE DEF err
<1>5. /\ dial' \in [Conns -> DialRec]
      /\ dial'[d].pc = "install" /\ dial'[d].state = dial[d].state
      /\ dial'[d].by = dial[d].by /\ dial'[d].err = err
      /\ \A c \in Conns \ {d} : dial'[c] = dial[c]
  BY <1>1, <1>2, <1>3, Zenon DEF Dial, DialRec
<1>6. Dialled' /\ Staged' /\ Owned' /\ OrderedDials' /\ Waiting' /\ Started' /\ ExclusiveUse'
  BY <1>1, <1>2, <1>4, <1>5, DialStays
<1>7. PoolTypeOK'
  BY <1>2, <1>5, Zenon DEF PoolInv, PoolTypeOK, callVars
<1>8. NoConnLost'
  <2>1. NoConnLost /\ open \subseteq Conns
    BY Zenon DEF PoolInv, PoolTypeOK
  <2>2. UNCHANGED <<cur, states, all, stage>>
    BY <1>2, Zenon
  <2>3. dial'[d].pc = "install" /\ (\A c \in Conns \ {d} : dial'[c] = dial[c]) /\ open' \subseteq open \cup {d}
    BY <1>2, <1>5, Zenon
  <2>4. QED
    BY <2>1, <2>2, <2>3, Zenon DEF NoConnLost, Tracked, Closed, Retired
<1>9. Sharing'
  <2>1. shared # 0 => shared \in Conns
    BY SharedConn, Zenon
  <2>2. QED
    BY <1>2, <1>5, <2>1 DEF PoolInv, Sharing, Live
<1>10. QED
  BY <1>6, <1>7, <1>8, <1>9, Zenon DEF PoolInv

\* connectSingle under the lock.
LEMMA Installed ==
  ASSUME PoolInv, NEW d \in Conns, InstallError(d) \/ InstallStale(d) \/ InstallShared(d)
  PROVE  PoolInv'
<1> USE PoolAssumption DEF stateVars, connVars
<1>1. /\ mode = "single" /\ dial[d].pc = "install" /\ Live(d)
      /\ connecting' = (IF cur = dial[d].state THEN 0 ELSE connecting)
      /\ UNCHANGED <<mode, cur, states, stage, idle, claimed, slots, dials, callVars, dead, cut, claims>>
  BY ZenonT(40) DEF InstallError, InstallStale, InstallShared, AtInstall, Live
<1>2. PICK err \in {"none", "cut", "dial"} :
        /\ dial' = [dial EXCEPT ![d] = Dial("done", dial[d].state, 0, err)]
        /\ \/ /\ err # "none" /\ open' = open \ {d} /\ UNCHANGED <<all, shared>>
              /\ err = "cut" => dial[d].err = "cut" \/ dial[d].state # cur
           \/ /\ err = "none" /\ open' = open /\ cur = dial[d].state
              /\ all' = [all EXCEPT ![cur] = @ \cup {d}] /\ shared' = d
  <2>1. CASE InstallError(d)
    <3>1. dial[d].err \in {"cut", "dial"} /\ d \notin open
      BY <1>1, <2>1 DEF InstallError, PoolInv, PoolTypeOK, DialRec, Dialled
    <3>2. QED
      BY <2>1, <3>1, Zenon DEF InstallError, DialOver
  <2>2. CASE InstallStale(d)
    BY <2>2 DEF InstallStale, DialOver
  <2>3. CASE InstallShared(d)
    BY <2>3 DEF InstallShared, DialOver
  <2>4. QED
    BY <2>1, <2>2, <2>3
<1>3. /\ dial' \in [Conns -> DialRec]
      /\ dial'[d].pc = "done" /\ dial'[d].state = dial[d].state /\ dial'[d].err = err
      /\ \A c \in Conns \ {d} : dial'[c] = dial[c]
      /\ d <= dials
  <2>1. dial \in [Conns -> DialRec] /\ dials \in Nat
    BY DEF PoolInv, PoolTypeOK
  <2>2. d <= dials
    BY <1>1, <2>1 DEF PoolInv, Dialled, Conns
  <2>3. QED
    BY <1>2, <2>1, <2>2 DEF Dial, DialRec
<1>4. dial[d].state \in 1 .. states /\ claims[d] = 0 /\ claimed \in 0 .. 1 /\ cur \in 0 .. states
  BY <1>1, Zenon DEF PoolInv, Dialled, Live, PoolTypeOK
<1>5. Dialled' /\ Staged' /\ Owned' /\ OrderedDials' /\ Waiting' /\ Started' /\ ExclusiveUse'
  BY <1>1, <1>2, <1>3, DialStays
<1>6. CASE /\ err # "none" /\ open' = open \ {d} /\ UNCHANGED <<all, shared>>
  <2>1. PoolTypeOK'
    BY <1>1, <1>3, <1>6 DEF PoolInv, PoolTypeOK, callVars
  <2>2. NoConnLost'
    <3>1. open \subseteq Conns
      BY Zenon DEF PoolInv, PoolTypeOK
    <3>2. QED
      BY <1>1, <1>3, <1>6, <3>1 DEF PoolInv, NoConnLost, Tracked, Closed, Retired
  <2>3. Sharing'
    <3>1. shared # 0 => shared \in Conns
      BY SharedConn, Zenon
    <3>2. \A c \in Conns \ {d} : Live(c) /\ dial[c].state = cur => connecting' = connecting
      BY <1>1, <1>4 DEF PoolInv, Sharing
    <3>3. connecting' <= dials
      BY <1>1 DEF PoolInv, PoolTypeOK, Sharing
    <3>4. QED
      BY <1>1, <1>3, <1>6, <3>1, <3>2, <3>3 DEF PoolInv, Sharing, Live
  <2>4. QED
    BY <1>5, <2>1, <2>2, <2>3, Zenon DEF PoolInv
<1>7. CASE /\ err = "none" /\ open' = open /\ cur = dial[d].state
           /\ all' = [all EXCEPT ![cur] = @ \cup {d}] /\ shared' = d
  <2>1. cur \in States /\ connecting' = 0 /\ cur # 0
    BY <1>1, <1>4, <1>7 DEF PoolInv, PoolTypeOK, States
  <2>2. PoolTypeOK'
    <3>1. all' \in [States -> SUBSET Conns] /\ shared' \in 0 .. MaxDials
      BY <1>7, <2>1, SMTT(40) DEF PoolInv, PoolTypeOK, Conns
    <3>2. 0 \in 0 .. MaxDials
      OBVIOUS
    <3>3. QED
      BY <1>1, <1>3, <1>7, <2>1, <3>1, <3>2, Zenon DEF PoolInv, PoolTypeOK, callVars
  <2>3. NoConnLost'
    <3>1. \A c \in Conns, t \in States : c \in all[t] => c \in all'[t]
      BY <1>7, <2>1 DEF PoolInv, PoolTypeOK
    <3>2. d \in all'[cur] /\ open \subseteq Conns
      BY <1>7, <2>1 DEF PoolInv, PoolTypeOK
    <3>3. QED
      BY <1>1, <1>3, <1>7, <2>1, <3>1, <3>2, ZenonT(40) DEF PoolInv, NoConnLost, Tracked, Closed, Retired
  <2>4. Sharing'
    <3>1. connecting = d /\ shared = 0 /\ claimed = 0
      <4>1. mode = "single" /\ Live(d) /\ dial[d].state = cur /\ Sharing
        BY <1>1, <1>7, Zenon DEF PoolInv
      <4>2. QED
        BY <4>1 DEF Sharing
    <3>2. \A c \in Conns \ {d} : ~(Live(c) /\ dial[c].state = cur)
      BY <1>1, <3>1, Zenon DEF PoolInv, Sharing
    <3>3. 0 <= dials /\ d # 0
      BY DEF PoolInv, PoolTypeOK, Conns
    <3>4. /\ connecting' <= dials' /\ mode' = "single" /\ shared' = d /\ d # 0
          /\ cur' = cur /\ claims' = claims /\ claimed' = claimed
      BY <1>1, <1>7, <2>1, <3>3, Zenon
    <3>5. dial'[shared'].pc = "done" /\ claims'[shared'] = claimed'
      BY <1>3, <1>4, <3>1, <3>4
    <3>6. ASSUME NEW c \in Conns, Live(c)', dial'[c].state = cur' PROVE FALSE
      <4>1. CASE c = d
        BY <1>3, <3>6, <4>1 DEF Live
      <4>2. CASE c # d
        BY <1>3, <3>2, <3>4, <3>6, <4>2, Zenon DEF Live
      <4>3. QED
        BY <4>1, <4>2, Zenon
    <3>7. QED
      BY <3>4, <3>5, <3>6, Zenon DEF Sharing
  <2>5. QED
    BY <1>5, <2>2, <2>3, <2>4 DEF PoolInv
<1>8. QED
  BY <1>2, <1>6, <1>7

=============================================================================

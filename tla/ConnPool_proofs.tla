-------------------------- MODULE ConnPool_proofs ---------------------------
(***************************************************************************)
(* dialAndInstall under the lock, Release, Reset, Close and closeState     *)
(* preserve the invariant of ConnPool, and what follows from it for any    *)
(* callers and any bounds.                                                 *)
(***************************************************************************)
EXTENDS ConnPoolDials_proofs

\* A dial of dialAndInstall is over: its caller, and nobody else, goes on.
LEMMA Finishes ==
  ASSUME PoolInv, NEW d \in Conns, Live(d), mode = "ordered",
         dial' = [dial EXCEPT ![d] = dial'[d]], dial'[d].pc = "done",
         \A q \in Callers \ {dial[d].by} : call'[q] = call[q] /\ (q \in expired' <=> q \in expired),
         call'[dial[d].by].pc \in {"idle", "got"},
         UNCHANGED <<mode, cur, states, stage, dials>>
  PROVE  OrderedDials' /\ Waiting' /\ Started' /\ Staged'
<1>1. /\ dial[d].by \in Callers /\ call[dial[d].by].pc = "dial" /\ call[dial[d].by].conn = d
      /\ \A e \in Conns : Live(e) => call[dial[e].by].conn = e /\ dial[e].by \in Callers
  BY DEF PoolInv, OrderedDials
<1>2. \A e \in Conns \ {d} : dial'[e] = dial[e]
  BY DEF PoolInv, PoolTypeOK
<1>3. \A e \in Conns \ {d} : Live(e) => dial[e].by \in Callers \ {dial[d].by}
  BY <1>1
<1>4. OrderedDials'
  BY <1>1, <1>2, <1>3 DEF PoolInv, OrderedDials, Live
<1>5. Waiting' /\ Staged'
  BY <1>1 DEF PoolInv, Waiting, Staged
<1>6. Started'
  <2>1. SUFFICES ASSUME NEW q \in Callers, call'[q].pc \in {"start", "dial"}
                 PROVE  /\ dial'[call'[q].conn].state = call'[q].state
                        /\ Live(call[q].conn)' => dial'[call'[q].conn].by = q
                        /\ dial'[call'[q].conn].pc = "late" => q \in expired'
                        /\ dial'[call'[q].conn].err = "cut" => q \in expired' \/ call'[q].state # cur'
    BY Zenon DEF Started
  <2>2. q # dial[d].by /\ call'[q] = call[q] /\ (q \in expired' <=> q \in expired)
    BY <2>1
  <2>3. call[q].conn \in Conns \ {d}
    <3>1. call[q].conn \in Conns
      BY <2>1, <2>2, PoolAssumption DEF PoolInv, Waiting, Conns, PoolTypeOK
    <3>2. QED
      BY <2>1, <2>2, <3>1 DEF PoolInv, Started
  <2>4. QED
    BY <1>2, <2>1, <2>2, <2>3 DEF PoolInv, Started, Live
<1>7. QED
  BY <1>4, <1>5, <1>6

\* dialAndInstall returns an error.
LEMMA GivesUp ==
  ASSUME PoolInv, NEW d \in Conns, Live(d), mode = "ordered",
         NEW err \in {"cut", "dial"}, GiveUp(d, err), open' = open \ {d},
         UNCHANGED <<stateVars, fieldVars, dials, dead, cut, claims>>
  PROVE  PoolInv'
<1> USE PoolAssumption DEF stateVars, fieldVars
<1>1. /\ dial[d].by \in Callers /\ dial \in [Conns -> DialRec] /\ call \in [Callers -> CallerRec]
      /\ expired \subseteq Callers /\ open \subseteq Conns /\ slots \in Nat
  BY DEF PoolInv, OrderedDials, PoolTypeOK
<1>2. /\ dial' = [dial EXCEPT ![d] = dial'[d]] /\ dial'[d].pc = "done"
      /\ dial'[d].state = dial[d].state
      /\ dial' \in [Conns -> DialRec]
  BY <1>1 DEF GiveUp, DialOver, Dial, DialRec
<1>3. /\ call' \in [Callers -> CallerRec] /\ expired' \subseteq Callers
      /\ call'[dial[d].by].pc = "idle"
      /\ \A q \in Callers \ {dial[d].by} : call'[q] = call[q] /\ (q \in expired' <=> q \in expired)
  BY <1>1 DEF GiveUp, Back, Caller, CallerRec
<1>4. OrderedDials' /\ Waiting' /\ Started' /\ Staged'
  BY <1>2, <1>3, Finishes
<1>5. \A e \in Conns \ {d} : dial'[e] = dial[e]
  BY <1>1, <1>2
<1>6. PoolTypeOK'
  <2>1. slots' \in Nat /\ open' \subseteq Conns
    BY <1>1 DEF GiveUp
  <2>2. QED
    BY <1>2, <1>3, <2>1 DEF PoolInv, PoolTypeOK
<1>7. Dialled'
  <2>1. ~(d > dials)
    BY DEF PoolInv, Dialled, Live
  <2>2. QED
    BY <1>2, <1>5, <2>1 DEF PoolInv, Dialled, Live
<1>8. Sharing'
  BY DEF PoolInv, Sharing
<1>9. Owned'
  BY <1>1, <1>3, <1>2, <1>5, IdleConns DEF PoolInv, Owned, Live
<1>10. NoConnLost'
  BY <1>1, <1>5 DEF PoolInv, NoConnLost, Tracked, Closed, Retired
<1>11. ExclusiveUse'
  BY <1>1, <1>3 DEF PoolInv, ExclusiveUse
<1>12. QED
  BY <1>4, <1>6, <1>7, <1>8, <1>9, <1>10, <1>11 DEF PoolInv

\* dialAndInstall puts its connection into the state and returns it.
LEMMA Installs ==
  ASSUME PoolInv, NEW d \in Conns, InstallOrdered(d)
  PROVE  PoolInv'
<1> USE PoolAssumption DEF stateVars, fieldVars, connVars
<1>1. /\ mode = "ordered" /\ dial[d].pc = "install" /\ Live(d) /\ cur = dial[d].state
      /\ all' = [all EXCEPT ![cur] = @ \cup {d}]
      /\ UNCHANGED <<mode, cur, states, stage, fieldVars, dials, connVars>>
  BY DEF InstallOrdered, Live
<1>2. /\ dial[d].by \in Callers /\ dial \in [Conns -> DialRec] /\ call \in [Callers -> CallerRec]
      /\ claims \in [Conns -> Nat] /\ open \subseteq Conns /\ slots \in Nat
      /\ d \in 0 .. MaxDials /\ all \in [States -> SUBSET Conns]
  BY <1>1 DEF PoolInv, OrderedDials, PoolTypeOK, Conns
<1>3. claims[d] = 0 /\ cur \in States /\ cur # 0 /\ ~(d > dials)
  BY <1>1 DEF PoolInv, Dialled, PoolTypeOK, States
<1>4. /\ dial' = [dial EXCEPT ![d] = dial'[d]] /\ dial'[d].pc = "done"
      /\ dial' \in [Conns -> DialRec]
      /\ \A e \in Conns \ {d} : dial'[e] = dial[e]
  BY <1>2 DEF InstallOrdered, DialOver, Dial, DialRec
<1>5. /\ call' \in [Callers -> CallerRec] /\ expired' = expired
      /\ call'[dial[d].by].pc = "got" /\ call'[dial[d].by].conn = d
      /\ \A q \in Callers \ {dial[d].by} : call'[q] = call[q]
  BY <1>2 DEF InstallOrdered, Hand, Caller, CallerRec
<1>6. /\ claims' \in [Conns -> Nat] /\ claims'[d] = 1
      /\ \A e \in Conns \ {d} : claims'[e] = claims[e]
  BY <1>2, <1>3 DEF InstallOrdered, Hand
<1>7. OrderedDials' /\ Waiting' /\ Started' /\ Staged'
  BY <1>1, <1>4, <1>5, Finishes
<1>8. PoolTypeOK'
  <2>1. slots' \in Nat /\ all' \in [States -> SUBSET Conns]
    BY <1>1, <1>2, <1>3 DEF InstallOrdered
  <2>2. QED
    BY <1>1, <1>4, <1>5, <1>6, <2>1 DEF PoolInv, PoolTypeOK
<1>9. Dialled'
  <2>1. \A e \in Conns \ {d} : Live(e)' <=> Live(e)
    BY <1>4 DEF Live
  <2>2. ~Live(d)'
    BY <1>4 DEF Live
  <2>3. \A e \in Conns \ {d} :
          /\ dial'[e].pc = "none" <=> e > dials
          /\ Live(e)' => dial'[e].state \in 1 .. states
          /\ dial'[e].pc # "done" => claims'[e] = 0
          /\ e \in open => dial'[e].pc = "done" \/ (dial'[e].pc = "install" /\ dial'[e].err = "none")
    <3>1. TAKE e \in Conns \ {d}
    <3>2. dial'[e] = dial[e] /\ claims'[e] = claims[e]
      BY <1>4, <1>6
    <3>3. QED
      BY <2>1, <3>2 DEF PoolInv, Dialled
  <2>4. QED
    BY <1>1, <1>3, <1>4, <2>2, <2>3, Zenon DEF Dialled
<1>10. Sharing'
  BY <1>1 DEF PoolInv, Sharing
<1>11. \A i \in DOMAIN idle : idle[i] \in Conns /\ idle[i] # d
  BY <1>3, IdleConns DEF PoolInv, Owned
<1>12. \A q \in Callers : call[q].pc = "got" => call[q].conn \in Conns /\ call[q].conn # d
  BY <1>3 DEF PoolInv, Owned
<1>13. Owned'
  <2>1. \A q \in Callers : call'[q].pc = "got" =>
          call'[q].conn \in Conns /\ dial'[call'[q].conn].pc = "done" /\ claims'[call'[q].conn] = 1
    BY <1>4, <1>5, <1>6, <1>12 DEF PoolInv, Owned
  <2>2. \A c \in Conns : claims'[c] <= 1
    BY <1>6 DEF PoolInv, Owned
  <2>3. \A i \in DOMAIN idle : dial'[idle[i]].pc = "done" /\ claims'[idle[i]] = 1
    BY <1>4, <1>6, <1>11, Zenon DEF PoolInv, Owned
  <2>4. QED
    BY <1>1, <2>1, <2>2, <2>3 DEF Owned
<1>14. ExclusiveUse'
  BY <1>1, <1>2, <1>5, <1>11, <1>12 DEF PoolInv, ExclusiveUse
<1>15. NoConnLost'
  <2>1. \A c \in Conns, t \in States : c \in all[t] => c \in all'[t]
    BY <1>1, <1>2, <1>3
  <2>2. d \in all'[cur]
    BY <1>1, <1>2, <1>3
  <2>3. QED
    BY <1>1, <1>2, <1>3, <1>4, <2>1, <2>2 DEF PoolInv, NoConnLost, Tracked, Closed, Retired
<1>16. QED
  BY <1>7, <1>8, <1>9, <1>10, <1>13, <1>14, <1>15 DEF PoolInv

-----------------------------------------------------------------------------
(* Release, Reset, Close *)

\* A connection comes back to the idle list.
LEMMA Reused ==
  ASSUME PoolInv, NEW p \in Callers, ReleaseReuse(p)
  PROVE  PoolInv'
<1> USE PoolAssumption DEF stateVars, dialVars, connVars
<1>1. /\ call[p].pc = "got" /\ call[p].conn \in Conns /\ dial[call[p].conn].pc = "done"
      /\ claims[call[p].conn] = 1
      /\ UNCHANGED <<stateVars, shared, claimed, connecting, dialVars, connVars, claims>>
  BY DEF ReleaseReuse, PoolInv, Owned
<1>2. /\ call' \in [Callers -> CallerRec] /\ expired' \subseteq Callers
      /\ call'[p].pc = "idle" /\ \A q \in Callers \ {p} : call'[q] = call[q]
  <2>1. call \in [Callers -> CallerRec] /\ expired \subseteq Callers
    BY DEF PoolInv, PoolTypeOK
  <2>2. QED
    BY <2>1 DEF ReleaseReuse, Back, Caller, CallerRec
<1>3. OrderedDials' /\ Waiting' /\ Started'
  BY <1>1, Moves, MovedCallers DEF ReleaseReuse
<1>4. Dialled' /\ Staged' /\ NoConnLost' /\ Sharing'
  BY <1>1 DEF PoolInv, Dialled, Staged, NoConnLost, Tracked, Closed, Retired, Sharing, Live
<1>5. idle \in Seq(Conns)
  BY DEF PoolInv, PoolTypeOK
<1>6. CASE mode = "ordered" /\ \A i \in DOMAIN idle : idle[i] # call[p].conn
  <2>1. /\ idle' = Append(idle, call[p].conn) /\ idle' \in Seq(Conns)
        /\ DOMAIN idle' = 1 .. Len(idle) + 1 /\ DOMAIN idle = 1 .. Len(idle) /\ Len(idle) \in Nat
        /\ idle'[Len(idle) + 1] = call[p].conn
        /\ \A i \in DOMAIN idle : idle'[i] = idle[i]
    BY <1>1, <1>5, <1>6 DEF ReleaseReuse
  <2>2. \A i \in DOMAIN idle' : i \in DOMAIN idle \/ i = Len(idle) + 1
    BY <2>1
  <2>3. PoolTypeOK'
    BY <1>1, <1>2, <2>1 DEF PoolInv, PoolTypeOK
  <2>4. Owned'
    BY <1>1, <1>2, <2>1, <2>2 DEF PoolInv, Owned
  <2>5. ExclusiveUse'
    <3>1. /\ \A i, j \in DOMAIN idle : idle[i] = idle[j] => i = j
          /\ \A q \in Callers : call[q].pc = "got" => \A i \in DOMAIN idle : idle[i] # call[q].conn
          /\ \A q \in Callers : \A r \in Callers \ {q} :
               call[q].pc = "got" /\ call[r].pc = "got" => call[r].conn # call[q].conn
      BY <1>6 DEF PoolInv, ExclusiveUse
    <3>2. \A i, j \in DOMAIN idle' : idle'[i] = idle'[j] => i = j
      BY <1>6, <2>1, <2>2, <3>1
    <3>3. \A q \in Callers : call'[q].pc = "got" => \A i \in DOMAIN idle' : idle'[i] # call'[q].conn
      BY <1>1, <1>2, <2>1, <2>2, <3>1
    <3>4. \A q \in Callers : \A r \in Callers \ {q} :
            call'[q].pc = "got" /\ call'[r].pc = "got" => call'[r].conn # call'[q].conn
      BY <1>2, <3>1
    <3>5. QED
      BY <3>2, <3>3, <3>4, Zenon DEF ExclusiveUse
  <2>6. QED
    BY <1>3, <1>4, <2>3, <2>4, <2>5 DEF PoolInv
<1>7. CASE ~(mode = "ordered" /\ \A i \in DOMAIN idle : idle[i] # call[p].conn)
  <2>1. idle' = idle
    BY <1>7 DEF ReleaseReuse
  <2>2. PoolTypeOK'
    BY <1>1, <1>2, <2>1 DEF PoolInv, PoolTypeOK
  <2>3. Owned' /\ ExclusiveUse'
    BY <1>1, <1>2, <2>1 DEF PoolInv, Owned, ExclusiveUse
  <2>4. QED
    BY <1>3, <1>4, <2>2, <2>3 DEF PoolInv
<1>8. QED
  BY <1>6, <1>7

\* Reset and Close: the current state object is replaced by a new one or none.
LEMMA Replaced ==
  ASSUME PoolInv, Reset \/ Close
  PROVE  PoolInv'
<1> USE PoolAssumption DEF dialVars, callVars, connVars
<1>1. /\ cur \in 1 .. states /\ states \in States /\ cur' \in 0 .. states'
      /\ states' \in States /\ states <= states' /\ (cur' = 0 \/ cur' > states)
      /\ \A s \in States : s = cur' \/ s > states' => s > states
  BY DEF Reset, Close, Replace, Closed, PoolInv, PoolTypeOK, States
<1>2. /\ idle' = <<>> /\ shared' = 0 /\ claimed' = 0 /\ connecting' = 0
      /\ UNCHANGED <<mode, all, stage, dialVars, callVars, connVars, claims>>
  BY DEF Reset, Close, Replace
<1>3. PoolTypeOK'
  BY <1>1, <1>2 DEF PoolInv, PoolTypeOK
<1>4. \A t \in 1 .. states : t \in 1 .. states' /\ t # cur'
  BY <1>1 DEF States
<1>5. Dialled'
  BY <1>2, <1>4 DEF PoolInv, Dialled, Live
<1>6. Staged'
  BY <1>1, <1>2 DEF PoolInv, Staged
<1>7. Sharing'
  BY <1>2, <1>4 DEF PoolInv, Sharing, Dialled, Live, PoolTypeOK
<1>8. Owned' /\ ExclusiveUse'
  BY <1>2 DEF PoolInv, Owned, ExclusiveUse
<1>9. OrderedDials' /\ Waiting' /\ Started'
  BY <1>2, <1>4 DEF PoolInv, OrderedDials, Waiting, Started, Live
<1>10. NoConnLost'
  <2>1. cur \in States /\ stage[cur] = "none"
    BY <1>1 DEF PoolInv, Staged, States
  <2>2. cur \in 1 .. states' /\ cur # cur' /\ stage'[cur] # "closed" /\ all'[cur] = all[cur]
    BY <1>1, <1>2, <1>4, <2>1
  <2>3. QED
    BY <1>1, <1>2, <1>4, <2>1, <2>2 DEF PoolInv, NoConnLost, Tracked, Closed, Retired
<1>11. QED
  BY <1>3, <1>5, <1>6, <1>7, <1>8, <1>9, <1>10 DEF PoolInv

\* closeState.
LEMMA ClosesState ==
  ASSUME PoolInv, NEW s \in States, CloseStep(s)
  PROVE  PoolInv'
<1> USE PoolAssumption DEF fieldVars, dialVars, callVars, connVars
<1>1. /\ s # cur /\ ~(s > states)
      /\ open' \subseteq open /\ stage' = [stage EXCEPT ![s] = stage'[s]]
      /\ stage'[s] \in {"cancelled", "closed"}
      /\ stage'[s] = "closed" => open' = open \ all[s]
      /\ UNCHANGED <<mode, cur, states, all, fieldVars, dialVars, callVars, dead, cut, claims>>
  <2>1. stage \in [States -> {"none", "cancelled", "closed"}] /\ states \in Nat
    <3>1. stage \in [States -> {"none", "cancelled", "closed"}] /\ states \in States
      BY Zenon DEF PoolInv, PoolTypeOK
    <3>2. QED
      BY <3>1 DEF States
  <2>2. CASE CancelState(s)
    BY <2>1, <2>2 DEF CancelState, Retired
  <2>3. CASE CloseStateConns(s)
    BY <2>1, <2>3 DEF CloseStateConns, PoolInv, Staged
  <2>4. QED
    BY <2>2, <2>3 DEF CloseStep
<1>2. /\ stage' \in [States -> {"none", "cancelled", "closed"}]
      /\ \A t \in States \ {s} : stage'[t] = stage[t]
  BY <1>1 DEF PoolInv, PoolTypeOK
<1>3. PoolTypeOK'
  BY <1>1, <1>2 DEF PoolInv, PoolTypeOK
<1>4. Dialled' /\ Sharing'
  BY <1>1, Zenon DEF PoolInv, Dialled, Sharing, Live
<1>5. Staged'
  BY <1>1, <1>2, Zenon DEF PoolInv, Staged
<1>6. Owned' /\ ExclusiveUse' /\ OrderedDials' /\ Waiting' /\ Started'
  <2>1. Owned' /\ ExclusiveUse'
    BY <1>1, Zenon DEF PoolInv, Owned, ExclusiveUse
  <2>2. OrderedDials' /\ Waiting'
    BY <1>1, Zenon DEF PoolInv, OrderedDials, Waiting, Live
  <2>3. Started'
    BY <1>1, Zenon DEF PoolInv, Started, Live
  <2>4. QED
    BY <2>1, <2>2, <2>3
<1>7. NoConnLost'
  BY <1>1, <1>2 DEF PoolInv, NoConnLost, Tracked, Closed, Retired
<1>8. QED
  BY <1>3, <1>4, <1>5, <1>6, <1>7 DEF PoolInv

\* IsAlive turns false for a connection.
LEMMA Dies ==
  ASSUME PoolInv, NEW c \in Conns, Die(c)
  PROVE  PoolInv'
<1> USE DEF Die, stateVars, fieldVars, dialVars, callVars
<1>1. PoolTypeOK'
  BY Zenon DEF PoolInv, PoolTypeOK
<1>2. Dialled' /\ Staged' /\ Sharing' /\ Owned' /\ OrderedDials'
  BY DEF PoolInv, Dialled, Staged, Sharing, Owned, OrderedDials, Live
<1>3. Waiting' /\ Started' /\ NoConnLost' /\ ExclusiveUse'
  BY DEF PoolInv, Waiting, Started, NoConnLost, ExclusiveUse, Live, Tracked, Closed, Retired
<1>4. QED
  BY <1>1, <1>2, <1>3 DEF PoolInv

-----------------------------------------------------------------------------
(* The invariant *)

\* A new pool has one empty state object.
LEMMA PoolInitial == PoolInit => PoolInv
<1> SUFFICES ASSUME PoolInit PROVE PoolInv
  OBVIOUS
<1> USE PoolAssumption DEF PoolInit
<1>1. PoolTypeOK
  <2>1. dial \in [Conns -> DialRec] /\ call \in [Callers -> CallerRec]
    BY DEF Dial, DialRec, Caller, CallerRec
  <2>2. QED
    BY <2>1 DEF PoolTypeOK, States
<1>2. Dialled /\ OrderedDials
  BY DEF Dialled, OrderedDials, Live, Dial, Conns
<1>3. Staged /\ NoConnLost
  BY DEF Staged, NoConnLost
<1>4. Sharing
  BY DEF Sharing, Live, Dial
<1>5. Owned /\ ExclusiveUse /\ Waiting /\ Started
  BY DEF Owned, ExclusiveUse, Waiting, Started, Caller
<1>6. QED
  BY <1>1, <1>2, <1>3, <1>4, <1>5 DEF PoolInv

\* The steps of Acquire, in both modes, keep the invariant of the pool.
LEMMA AcquireKeeps ==
  ASSUME PoolInv, NEW p \in Callers, AcquireStep(p) \/ DropDeadIdle(p)
  PROVE  PoolInv'
<1> USE DEF AtShared, AtOrdered, AtCollected, AtCollect, AtWait
<1>1. CASE AcquireClosed(p) \/ WaitExpires(p) \/ CollectReplaced(p) \/ SlotFails(p)
  BY <1>1, Moves, Moved DEF AcquireClosed, WaitExpires, CollectReplaced, SlotFails, connVars
<1>2. CASE WaitCancelled(p) \/ CollectError(p) \/ CollectNothing(p)
  BY <1>2, Moves, Moved DEF WaitCancelled, CollectError, CollectNothing, connVars
<1>3. CASE TakeShared(p)
  BY <1>3, HandsShared DEF TakeShared
<1>4. CASE CollectShared(p)
  <2>1. mode = "single"
    BY <1>4, PoolAssumption DEF CollectShared, PoolInv, PoolTypeOK, Sharing, Conns
  <2>2. QED
    BY <1>4, <2>1, HandsShared DEF CollectShared
<1>5. CASE DropDeadShared(p)
  BY <1>5, Stays, Removed, Zenon DEF DropDeadShared, PoolInv, PoolTypeOK
<1>6. CASE CollectDead(p)
  <2>1. ~Closed
    BY <1>6 DEF CollectDead, Closed, PoolInv, Waiting
  <2>2. QED
    BY <1>6, <2>1, Moves, Removed, Zenon DEF CollectDead, PoolInv, PoolTypeOK
<1>7. CASE DropDeadIdle(p)
  <2>1. Head(idle) \in Conns
    BY <1>7 DEF DropDeadIdle, PoolInv, PoolTypeOK
  <2>2. QED
    BY <1>7, <2>1, Stays, Removed, Zenon DEF DropDeadIdle
<1>8. CASE JoinDial(p) \/ WantSlot(p)
  BY <1>8, Queues
<1>9. CASE StartShared(p)
  BY <1>9, StartsShared
<1>10. CASE TakeSlot(p)
  BY <1>10, TakesSlot
<1>11. CASE TakeIdle(p)
  BY <1>11, HandsIdle
<1>12. QED
  BY <1>1, <1>2, <1>3, <1>4, <1>5, <1>6, <1>7, <1>8, <1>9, <1>10, <1>11 DEF AcquireStep

\* The steps of a dial keep it.
LEMMA DialKeeps ==
  ASSUME PoolInv, NEW d \in Conns, DialStep(d)
  PROVE  PoolInv'
<1>1. CASE \E err \in {"none", "dial"} : DialReturns(d, err)
  <2>1. PICK err \in {"none", "dial"} : DialReturns(d, err)
    BY <1>1
  <2>2. CASE mode = "single" \/ DialError(d, err) = "none"
    BY <2>1, <2>2, Returned
  <2>3. CASE ~(mode = "single" \/ DialError(d, err) = "none")
    <3>1. /\ Live(d) /\ mode = "ordered" /\ open' = open \ {d}
          /\ DialError(d, err) \in {"cut", "dial"} /\ GiveUp(d, DialError(d, err))
          /\ UNCHANGED <<stateVars, fieldVars, dials, dead, cut, claims>>
      BY <2>1, <2>3 DEF DialReturns, DialError, Live, PoolInv, PoolTypeOK, Dialled
    <3>2. QED
      BY <3>1, GivesUp
  <2>4. QED
    BY <2>2, <2>3
<1>2. CASE InstallError(d) \/ InstallStale(d) \/ InstallShared(d)
  BY <1>2, Installed
<1>3. CASE OrderedStale(d)
  BY <1>3, GivesUp DEF OrderedStale, Live
<1>4. CASE InstallOrdered(d)
  BY <1>4, Installs
<1>5. QED
  BY <1>1, <1>2, <1>3, <1>4 DEF DialStep

\* Release, Invalidate and what else a caller does keep it.
LEMMA UserKeeps ==
  ASSUME PoolInv, NEW p \in Callers, UserStep(p)
  PROVE  PoolInv'
<1>1. ASSUME NEW reuse \in BOOLEAN, Release(p, reuse) PROVE PoolInv'
  <2>1. call[p].pc = "got" => call[p].conn \in Conns
    BY DEF PoolInv, Owned
  <2>2. CASE ReleaseUntracked(p)
    BY <2>2, Moves, Moved DEF ReleaseUntracked
  <2>3. CASE ReleaseDiscard(p)
    BY <2>1, <2>3, Moves, Removed DEF ReleaseDiscard, Tracked
  <2>4. CASE ReleaseReuse(p)
    BY <2>4, Reused
  <2>5. QED
    BY <1>1, <2>2, <2>3, <2>4, Zenon DEF Release
<1>2. CASE Begin(p) \/ Leave(p)
  BY <1>2, Moves, Moved DEF Begin, Leave, connVars
<1>3. CASE CloseInUse(p)
  BY <1>3, Stays, Moved DEF CloseInUse
<1>4. CASE Expire(p)
  BY <1>4, Expires
<1>5. CASE InvalidateUsed(p)
  <2>1. call[p].pc = "got" /\ InvalidateConn(call[p].conn) /\ Back(p) /\ call[p].conn \in Conns
    BY <1>5 DEF InvalidateUsed, PoolInv, Owned
  <2>2. CASE Tracked(call[p].conn) /\ RemoveConn(call[p].conn)
    BY <2>1, <2>2, Moves, Removed, Zenon DEF InvalidateConn, Tracked
  <2>3. CASE ~(Tracked(call[p].conn) /\ RemoveConn(call[p].conn))
    BY <2>1, <2>3, Moves, Moved DEF InvalidateConn, connVars
  <2>4. QED
    BY <2>2, <2>3
<1>6. QED
  BY <1>1, <1>2, <1>3, <1>4, <1>5 DEF UserStep

\* The receive loop invalidates its connection; no caller moves.
LEMMA InvalidateKeeps ==
  ASSUME PoolInv, NEW c \in Conns, Invalidate(c)
  PROVE  PoolInv'
<1>1. Steady
  BY Stays DEF Invalidate
<1>2. CASE Tracked(c) /\ RemoveConn(c)
  BY <1>1, <1>2, Removed DEF Invalidate, InvalidateConn, Tracked
<1>3. CASE ~(Tracked(c) /\ RemoveConn(c))
  BY <1>1, <1>3, Moved DEF Invalidate, InvalidateConn, connVars
<1>4. QED
  BY <1>2, <1>3

\* Every step of the pool keeps it.
LEMMA PoolKeeps == PoolInv /\ [PoolNext]_poolVars => PoolInv'
<1> SUFFICES ASSUME PoolInv, [PoolNext]_poolVars PROVE PoolInv'
  OBVIOUS
<1>1. ASSUME NEW p \in Callers, AcquireStep(p) \/ DropDeadIdle(p) \/ UserStep(p) PROVE PoolInv'
  BY <1>1, AcquireKeeps, UserKeeps
<1>2. ASSUME NEW d \in Conns, DialStep(d) \/ Invalidate(d) \/ Die(d) PROVE PoolInv'
  BY <1>2, DialKeeps, InvalidateKeeps, Dies
<1>3. ASSUME NEW s \in States, CloseStep(s) PROVE PoolInv'
  BY <1>3, ClosesState
<1>4. CASE Reset \/ Close
  BY <1>4, Replaced
<1>5. CASE UNCHANGED poolVars
  <2>1. Steady
    BY <1>5, Stays DEF poolVars
  <2>2. QED
    BY <1>5, <2>1, Moved DEF poolVars, connVars
<1>6. QED
  BY <1>1, <1>2, <1>3, <1>4, <1>5 DEF PoolNext

\* The inductive invariant of the pool holds, whoever uses it and however often it
\* is reset (NewConnPool and every operation of conn_pool.go).
THEOREM PoolInvariant == PoolSpec => []PoolInv
BY PoolInitial, PoolKeeps, PTL DEF PoolSpec

-----------------------------------------------------------------------------
(* What an Acquire may report *)

\* A step of an Acquire makes no Acquire fail but for its own reasons.
LEMMA AcquireErrors ==
  ASSUME PoolInv, NEW q \in Callers, AcquireStep(q) \/ DropDeadIdle(q), NEW p \in Callers, FailsAcquire(p)
  PROVE  OwnError(p)
<1>1. call \in [Callers -> CallerRec]
  BY Zenon DEF PoolInv, PoolTypeOK
<1>2. \A r \in Callers \ {q} : call'[r] = call[r]
  BY <1>1 DEF AcquireStep, AcquireClosed, TakeShared, DropDeadShared, JoinDial, StartShared,
    WaitExpires, WaitCancelled, CollectError, CollectReplaced, CollectNothing, CollectDead, CollectShared,
    TakeIdle, DropDeadIdle, WantSlot, TakeSlot, SlotFails, StartDial, Back, Again, Hand, callVars
<1>3. p = q
  BY <1>2 DEF FailsAcquire
<1>4. call[p].pc \in {"acquire", "start", "join", "slot", "dial"} /\ call'[p].pc = "idle"
  BY DEF FailsAcquire
<1>5. call[p].pc \in {"start", "join", "slot"} => call[p].state \in States /\ call[p].state # 0
  BY PoolAssumption, SMTT(40) DEF PoolInv, PoolTypeOK, Waiting, States
<1>6. CASE AcquireClosed(p) \/ WaitExpires(p) \/ CollectReplaced(p)
  BY <1>6, ZenonT(40) DEF AcquireClosed, WaitExpires, CollectReplaced, AtCollected, AtCollect, AtWait,
     OwnError
<1>7. CASE WaitCancelled(p) \/ SlotFails(p)
  BY <1>5, <1>7, Zenon DEF WaitCancelled, SlotFails, AtWait, StateDone, OwnError, PoolInv, Staged
<1>8. CASE CollectError(p)
  <2>1. /\ call[p].pc = "start" /\ dial' = dial /\ call[p].conn \in Conns
        /\ dial[call[p].conn].err # "none"
    <3>1. call[p].pc = "start" /\ dial' = dial /\ dial[call[p].conn].err # "none"
      <4>1. Again(p) => call'[p].pc = "acquire"
        BY <1>1 DEF Again, Caller
      <4>2. call[p].pc = "start" \/ Again(p)
        BY <1>8, Zenon DEF CollectError
      <4>3. QED
        BY <1>4, <1>8, <4>1, <4>2, Zenon DEF CollectError, dialVars
    <3>2. call[p].conn \in 1 .. dials /\ dials \in 0 .. MaxDials
      BY <3>1, Zenon DEF PoolInv, PoolTypeOK, Waiting
    <3>3. call[p].conn \in Conns
      BY <3>2, PoolAssumption DEF Conns
    <3>4. QED
      BY <3>1, <3>3, Zenon
  <2>2. dial[call[p].conn].err \in {"cut", "dial"}
    <3>1. dial[call[p].conn] \in DialRec
      BY <2>1, Zenon DEF PoolInv, PoolTypeOK
    <3>2. QED
      BY <2>1, <3>1, Zenon DEF DialRec
  <2>3. QED
    BY <2>1, <2>2, Zenon DEF OwnError, PoolInv, Started
<1>9. CASE \/ TakeShared(p) \/ DropDeadShared(p) \/ JoinDial(p) \/ StartShared(p) \/ CollectNothing(p)
           \/ CollectDead(p) \/ CollectShared(p) \/ TakeIdle(p) \/ DropDeadIdle(p) \/ WantSlot(p) \/ TakeSlot(p)
  BY <1>1, <1>4, <1>9 DEF TakeShared, DropDeadShared, JoinDial, StartShared, CollectNothing,
     CollectDead,
    CollectShared, TakeIdle, DropDeadIdle, WantSlot, TakeSlot, StartDial, Again, Hand, Caller, callVars
<1>10. QED
  BY <1>3, <1>6, <1>7, <1>8, <1>9 DEF AcquireStep

\* A dial that fails or comes too late fails the Acquire that started it
\* only.
LEMMA DialErrors ==
  ASSUME PoolInv, NEW d \in Conns, DialStep(d), NEW p \in Callers, FailsAcquire(p)
  PROVE  OwnError(p)
<1>1. call \in [Callers -> CallerRec] /\ dial \in [Conns -> DialRec]
  BY DEF PoolInv, PoolTypeOK
<1>2. call'[p].pc = "idle" /\ call'[p] # call[p]
  BY DEF FailsAcquire
<1>3. ASSUME NEW err, GiveUp(d, err), mode = "ordered", Live(d),
             err = "dial" \/ dial[d].pc = "late" \/ dial[d].state # cur
      PROVE  OwnError(p)
  <2>1. dial[d].by \in Callers /\ call[dial[d].by].pc = "dial" /\ call[dial[d].by].conn = d
    BY <1>3, Zenon DEF PoolInv, OrderedDials
  <2>2. p = dial[d].by
    BY <1>1, <1>2, <1>3, <2>1, Zenon DEF GiveUp, Back
  <2>3. dial[d].state = call[p].state /\ (dial[d].pc = "late" => p \in expired)
    BY <2>1, <2>2, Zenon DEF PoolInv, Started
  <2>4. dial'[d].err = err
    BY <1>1, <1>3, Zenon DEF GiveUp, DialOver, Dial
  <2>5. QED
    BY <1>3, <2>1, <2>2, <2>3, <2>4, Zenon DEF OwnError
<1>4. ASSUME NEW err \in {"none", "dial"}, DialReturns(d, err) PROVE OwnError(p)
  <2>1. mode = "ordered" /\ DialError(d, err) # "none" /\ GiveUp(d, DialError(d, err)) /\ Live(d)
    BY <1>2, <1>4 DEF DialReturns, callVars, Live
  <2>2. dial[d].state \in States
    <3>1. dial[d].state \in 1 .. states /\ states \in States
      BY <2>1, Zenon DEF PoolInv, Dialled, PoolTypeOK
    <3>2. QED
      BY <3>1, PoolAssumption DEF States
  <2>3. DialError(d, err) = "dial" \/ dial[d].pc = "late" \/ dial[d].state # cur
    BY <1>4, <2>1, <2>2, Zenon DEF DialError, StateDone, PoolInv, Staged
  <2>4. QED
    BY <1>3, <2>1, <2>3, Zenon
<1>5. CASE InstallError(d) \/ InstallStale(d) \/ InstallShared(d)
  BY <1>2, <1>5, ZenonT(40) DEF InstallError, InstallStale, InstallShared, callVars
<1>6. CASE OrderedStale(d)
  BY <1>3, <1>6, Zenon DEF OrderedStale, Live
<1>7. CASE InstallOrdered(d)
  BY <1>1, <1>2, <1>7 DEF InstallOrdered, Hand, Caller
<1>8. QED
  BY <1>4, <1>5, <1>6, <1>7 DEF DialStep

\* What callers do with their connections fails no Acquire.
LEMMA UserErrors ==
  ASSUME PoolInv, NEW q \in Callers, UserStep(q), NEW p \in Callers
  PROVE  ~FailsAcquire(p)
<1>1. call \in [Callers -> CallerRec]
  BY DEF PoolInv, PoolTypeOK
<1>2. CASE Begin(q)
  <2>1. call[q].pc = "idle" /\ \A r \in Callers \ {q} : call'[r] = call[r]
    BY <1>1, <1>2 DEF Begin, Again
  <2>2. QED
    BY <2>1 DEF FailsAcquire
<1>3. CASE ~Begin(q)
  <2>1. UNCHANGED call \/ (call[q].pc = "got" /\ Back(q))
    BY <1>3, ZenonT(40) DEF UserStep, Release, ReleaseUntracked, ReleaseDiscard, ReleaseReuse, Expire,
       CloseInUse,
      Leave, InvalidateUsed, callVars
  <2>2. QED
    BY <1>1, <2>1, Zenon DEF Back, FailsAcquire
<1>4. QED
  BY <1>2, <1>3

\* No step makes an Acquire fail but for its own reasons.
LEMMA ErrorStep ==
  ASSUME PoolInv, [PoolNext]_poolVars, NEW p \in Callers, FailsAcquire(p)
  PROVE  OwnError(p)
<1>1. ASSUME NEW q \in Callers, AcquireStep(q) \/ DropDeadIdle(q) \/ UserStep(q) PROVE OwnError(p)
  BY <1>1, AcquireErrors, UserErrors
<1>2. ASSUME NEW d \in Conns, DialStep(d) PROVE OwnError(p)
  BY <1>2, DialErrors
<1>3. ASSUME UNCHANGED call PROVE OwnError(p)
  BY <1>3 DEF FailsAcquire
<1>4. ASSUME NEW d \in Conns, Invalidate(d) \/ Die(d) PROVE OwnError(p)
  BY <1>3, <1>4 DEF Invalidate, Die, callVars
<1>5. ASSUME NEW s \in States, CloseStep(s) PROVE OwnError(p)
  BY <1>3, <1>5 DEF CloseStep, CancelState, CloseStateConns, callVars
<1>6. CASE Reset \/ Close \/ UNCHANGED poolVars
  BY <1>3, <1>6 DEF Reset, Close, Replace, poolVars, callVars
<1>7. QED
  BY <1>1, <1>2, <1>4, <1>5, <1>6 DEF PoolNext

-----------------------------------------------------------------------------
(* The theorems *)

\* Whatever the callers, the dials and the Resets do, an open connection is
\* one the pool will still close (conn_pool.go:277, 365, 439).
THEOREM PoolLosesNothing == PoolSpec => []NoConnLost
<1>1. PoolInv => NoConnLost
  BY DEF PoolInv
<1>2. QED
  BY <1>1, PoolInvariant, PTL

\* acquireOrdered and Release keep a connection to one user (conn_pool.go:126, 236).
THEOREM PoolExclusive == PoolSpec => []ExclusiveUse
<1>1. PoolInv => ExclusiveUse
  BY DEF PoolInv
<1>2. QED
  BY <1>1, PoolInvariant, PTL

\* created is reported once for every connection in use (conn_pool.go:310, 432).
THEOREM PoolClaims == PoolSpec => []ClaimedOnce
<1>1. PoolInv => ClaimedOnce
  BY DEF PoolInv, Owned, ClaimedOnce
<1>2. QED
  BY <1>1, PoolInvariant, PTL

\* The map that closeState ranges over without the lock is never changed
\* after the state was replaced (conn_pool.go:389, 441).
THEOREM PoolOldStates == PoolSpec => OldStateUntouched
<1>1. PoolInv /\ [PoolNext]_poolVars => [\A s \in States \ {cur} : all'[s] = all[s]]_poolVars
  <2>1. SUFFICES ASSUME PoolInv, PoolNext, NEW s \in States \ {cur} PROVE all'[s] = all[s]
    OBVIOUS
  <2>2. all \in [States -> SUBSET Conns]
    BY <2>1 DEF PoolInv, PoolTypeOK
  <2>3. ASSUME NEW c, RemoveConn(c) PROVE all'[s] = all[s]
    BY <2>2, <2>3, SMTT(40) DEF RemoveConn
  <2>4. ASSUME NEW p \in Callers, AcquireStep(p) \/ DropDeadIdle(p) PROVE all'[s] = all[s]
    <3>1. CASE DropDeadShared(p) \/ CollectDead(p) \/ DropDeadIdle(p)
      BY <2>3, <3>1, ZenonT(40) DEF DropDeadShared, CollectDead, DropDeadIdle
    <3>2. CASE \/ AcquireClosed(p) \/ TakeShared(p) \/ JoinDial(p) \/ StartShared(p) \/ WaitExpires(p)
               \/ WaitCancelled(p) \/ CollectError(p) \/ CollectReplaced(p)
      BY <3>2, ZenonT(40) DEF AcquireClosed, TakeShared, JoinDial, StartShared, WaitExpires, WaitCancelled,
        CollectError, CollectReplaced, stateVars
    <3>3. CASE \/ CollectNothing(p) \/ CollectShared(p) \/ TakeIdle(p) \/ WantSlot(p) \/ TakeSlot(p)
               \/ SlotFails(p)
      BY <3>3, Zenon DEF CollectNothing, CollectShared, TakeIdle, WantSlot, TakeSlot, SlotFails,
         stateVars
    <3>4. QED
      BY <2>4, <3>1, <3>2, <3>3, ZenonT(40) DEF AcquireStep
  <2>5. ASSUME NEW c \in Conns, InvalidateConn(c) PROVE all'[s] = all[s]
    BY <2>3, <2>5, Zenon DEF InvalidateConn, stateVars
  <2>6. ASSUME NEW p \in Callers, UserStep(p) PROVE all'[s] = all[s]
    <3>1. CASE InvalidateUsed(p)
      BY <2>1, <2>5, <3>1, Zenon DEF InvalidateUsed, PoolInv, Owned
    <3>2. ASSUME NEW reuse \in BOOLEAN, Release(p, reuse) PROVE all'[s] = all[s]
      BY <2>3, <3>2, SMTT(40) DEF Release, ReleaseUntracked, ReleaseDiscard, ReleaseReuse, stateVars
    <3>3. CASE Begin(p) \/ Expire(p) \/ CloseInUse(p) \/ Leave(p)
      BY <3>3, Zenon DEF Begin, Expire, CloseInUse, Leave, stateVars
    <3>4. QED
      BY <2>6, <3>1, <3>2, <3>3 DEF UserStep
  <2>7. ASSUME NEW d \in Conns, DialStep(d) PROVE all'[s] = all[s]
    <3>1. CASE InstallShared(d) \/ InstallOrdered(d)
      BY <2>2, <3>1, ZenonT(40) DEF InstallShared, InstallOrdered
    <3>2. CASE ~(InstallShared(d) \/ InstallOrdered(d))
      BY <2>7, <3>2, Zenon DEF DialStep, DialReturns, InstallError, InstallStale, OrderedStale, stateVars
    <3>3. QED
      BY <3>1, <3>2, SMTT(40)
  <2>8. ASSUME NEW d \in Conns, Invalidate(d) \/ Die(d) PROVE all'[s] = all[s]
    BY <2>5, <2>8, Zenon DEF Invalidate, Die, stateVars
  <2>9. ASSUME NEW t \in States, CloseStep(t) PROVE all'[s] = all[s]
    BY <2>9 DEF CloseStep, CancelState, CloseStateConns
  <2>10. CASE Reset \/ Close
    BY <2>10 DEF Reset, Close, Replace
  <2>11. QED
    BY <2>1, <2>4, <2>6, <2>7, <2>8, <2>9, <2>10, Zenon DEF PoolNext
<1>2. QED
  BY <1>1, PoolInvariant, PTL DEF PoolSpec, OldStateUntouched

\* A caller that joined a dial never gets the error of its starter
\* (conn_pool.go:403-409), and a state that is replaced under an Acquire is the
\* only other reason than its own context and dial.
THEOREM PoolErrors == PoolSpec => ErrorsAreOwn
<1>1. PoolInv /\ [PoolNext]_poolVars => [\A p \in Callers : FailsAcquire(p) => OwnError(p)]_poolVars
  BY ErrorStep
<1>2. QED
  BY <1>1, PoolInvariant, PTL DEF PoolSpec, ErrorsAreOwn

=============================================================================

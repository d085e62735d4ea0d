------------------------------ MODULE ConnPool ------------------------------
(***************************************************************************)
(* The connection pool of the DNS transports (dns/transport/conn_pool.go). *)
(* In "single" mode all callers share one connection and one dial; in      *)
(* "ordered" mode a caller has its connection to itself and idle ones wait *)
(* in a list.  Reset replaces the pool's state object, Close removes it;   *)
(* both then cancel the old state's context and close its connections,     *)
(* without the lock.                                                       *)
(*                                                                         *)
(* A section under p.access is one action.  A connection that it takes out *)
(* of the pool, or does not put in, is reachable by its own thread alone,  *)
(* and is closed in the same action.  The d-th dial makes connection d,    *)
(* and 0 is no connection.  Of a state object that was replaced only the   *)
(* set all is still read; the other fields are kept for the current state. *)
(***************************************************************************)
EXTENDS Integers, Sequences, FiniteSets

CONSTANTS
  Callers,
  MaxInflight,   \* options.MaxInflight
  MaxDials,      \* bound on the dials of a behaviour
  MaxStates      \* bound on the state objects: one more than the Resets

ASSUME PoolAssumption ==
  /\ MaxInflight \in Nat \ {0}
  /\ MaxDials \in Nat
  /\ MaxStates \in Nat \ {0}
  /\ 0 \notin Callers

Conns == 1 .. MaxDials
States == 1 .. MaxStates

VARIABLES
  mode,       \* options.Mode
  cur,        \* p.state, 0 when the pool is closed
  states,     \* the number of state objects so far
  all,        \* state.all
  stage,      \* how far closeState is with a state object
  idle,       \* state.idle of the current state
  shared,     \* state.shared of the current state
  claimed,    \* state.sharedClaimed of the current state, as 0 or 1
  connecting, \* state.connecting of the current state
  slots,      \* the free places of p.sem
  dials,      \* the number of dials so far
  dial,       \* a dial: its step (late when its ctx is done), state object, caller and error
  call,       \* a caller: its step, state object, and dial or connection
  expired,    \* the callers whose ctx is done
  open,       \* the connections that are open
  dead,       \* the connections for which IsAlive is false
  cut,        \* the connections whose sharedCtx removeConn cancelled
  claims      \* how often a connection was handed out as created

stateVars == <<mode, cur, states, all, stage>>
fieldVars == <<idle, shared, claimed, connecting>>
dialVars == <<slots, dials, dial>>
callVars == <<call, expired>>
connVars == <<open, dead, cut>>
poolVars == <<stateVars, fieldVars, dialVars, callVars, connVars, claims>>

\* A dial and a caller.
Dial(pc, s, by, err) == [pc |-> pc, state |-> s, by |-> by, err |-> err]
Caller(pc, s, c) == [pc |-> pc, state |-> s, conn |-> c]

DialRec == [pc : {"none", "dialing", "late", "install", "done"}, state : 0 .. MaxStates,
            by : Callers \cup {0}, err : {"none", "cut", "dial"}]
CallerRec == [pc : {"idle", "acquire", "start", "join", "slot", "dial", "got"},
              state : 0 .. MaxStates, conn : 0 .. MaxDials]

PoolInit ==
  /\ mode \in {"single", "ordered"}
  /\ cur = 1
  /\ states = 1
  /\ all = [s \in States |-> {}]
  /\ stage = [s \in States |-> "none"]
  /\ idle = <<>>
  /\ shared = 0
  /\ claimed = 0
  /\ connecting = 0
  /\ slots = MaxInflight
  /\ dials = 0
  /\ dial = [d \in Conns |-> Dial("none", 0, 0, "none")]
  /\ call = [p \in Callers |-> Caller("idle", 0, 0)]
  /\ expired = {}
  /\ open = {}
  /\ dead = {}
  /\ cut = {}
  /\ claims = [c \in Conns |-> 0]

-----------------------------------------------------------------------------
(* Helpers *)

Closed == cur = 0

Tracked(c) == ~Closed /\ c \in all[cur]

\* A state object that Reset or Close replaced.
Retired(s) == s \in 1 .. states /\ s # cur

\* The context of a state object, and the sharedCtx of a connection.
StateDone(s) == stage[s] # "none"
ConnDone(c) == c \in cut \/ StateDone(dial[c].state)

\* The loop of an Acquire begins again.
Again(p) ==
  /\ call' = [call EXCEPT ![p] = Caller("acquire", 0, 0)]
  /\ expired' = expired

\* The caller returns from the pool: a failed Acquire, or a Release.  If it comes
\* back with the same context, that may end again at once.
Back(p) ==
  /\ call' = [call EXCEPT ![p] = Caller("idle", 0, 0)]
  /\ expired' = expired \ {p}

\* An Acquire returns the connection c, as created if new is 1.
Hand(p, c, new) ==
  /\ call' = [call EXCEPT ![p] = Caller("got", 0, c)]
  /\ expired' = expired
  /\ claims' = [claims EXCEPT ![c] = @ + new]

\* The idle list without c.
Unlisted(c) ==
  IF \E i \in DOMAIN idle : idle[i] = c
  THEN [i \in 1 .. Len(idle) - 1 |->
          IF \E j \in 1 .. i : idle[j] = c THEN idle[i + 1] ELSE idle[i]]
  ELSE idle

RemoveConnQuietly(c) ==
  /\ all' = [all EXCEPT ![cur] = @ \ {c}]
  /\ IF mode = "single" /\ shared = c
     THEN shared' = 0 /\ claimed' = 0
     ELSE UNCHANGED <<shared, claimed>>
  /\ idle' = Unlisted(c)
  /\ open' = open \ {c}
  /\ UNCHANGED <<mode, cur, states, stage, connecting, dead, cut>>

\* removeConn, with the lock held, and the Close of the connection after it.
RemoveConn(c) ==
  /\ all' = [all EXCEPT ![cur] = @ \ {c}]
  /\ IF mode = "single" /\ shared = c
     THEN shared' = 0 /\ claimed' = 0 /\ cut' = cut \cup {c}
     ELSE UNCHANGED <<shared, claimed, cut>>
  /\ idle' = Unlisted(c)
  /\ open' = open \ {c}
  /\ UNCHANGED <<mode, cur, states, stage, connecting, dead>>

\* A dial for state s begins, and p waits for it at pc.
StartDial(p, s, pc) ==
  /\ dials < MaxDials
  /\ dials' = dials + 1
  /\ dial' = [dial EXCEPT ![dials + 1] = Dial(IF p \in expired THEN "late" ELSE "dialing", s, p, "none")]
  /\ call' = [call EXCEPT ![p] = Caller(pc, s, dials + 1)]

-----------------------------------------------------------------------------
(* Acquire, in both modes *)

\* A caller comes.
Begin(p) ==
  /\ call[p].pc = "idle"
  /\ Again(p)
  /\ UNCHANGED <<stateVars, fieldVars, dialVars, connVars, claims>>

\* The caller's context ends, and with it that of a dial it started.
Expire(p) ==
  /\ call[p].pc # "idle"
  /\ p \notin expired
  /\ expired' = expired \cup {p}
  /\ dial' = [d \in Conns |-> IF dial[d].by = p /\ dial[d].pc = "dialing"
                              THEN Dial("late", dial[d].state, p, "none") ELSE dial[d]]
  /\ UNCHANGED <<stateVars, fieldVars, slots, dials, call, connVars, claims>>

AcquireClosed(p) ==
  /\ call[p].pc = "acquire"
  /\ Closed
  /\ Back(p)
  /\ UNCHANGED <<stateVars, fieldVars, dialVars, connVars, claims>>

-----------------------------------------------------------------------------
(* acquireShared *)

AtShared(p) == mode = "single" /\ call[p].pc = "acquire" /\ ~Closed

\* A live shared connection is handed out; the first caller claims it.
TakeShared(p) ==
  /\ AtShared(p)
  /\ shared \in Conns \ dead
  /\ Hand(p, shared, 1 - claimed)
  /\ claimed' = 1
  /\ UNCHANGED <<stateVars, idle, shared, connecting, dialVars, connVars>>

DropDeadShared(p) ==
  /\ AtShared(p)
  /\ shared \in dead
  /\ RemoveConn(shared)
  /\ UNCHANGED <<dialVars, callVars, claims>>

\* The caller waits for a dial under way, or starts it.
JoinDial(p) ==
  /\ AtShared(p)
  /\ shared = 0
  /\ connecting # 0
  /\ call' = [call EXCEPT ![p] = Caller("join", cur, connecting)]
  /\ UNCHANGED <<stateVars, fieldVars, dialVars, expired, connVars, claims>>

StartShared(p) ==
  /\ AtShared(p)
  /\ shared = 0
  /\ connecting = 0
  /\ StartDial(p, cur, "start")
  /\ connecting' = dials + 1
  /\ UNCHANGED <<stateVars, idle, shared, claimed, slots, expired, connVars, claims>>

AtWait(p) == call[p].pc \in {"start", "join"}

\* The caller's own context ends, or that of the state object it waits on.
WaitExpires(p) ==
  /\ AtWait(p)
  /\ p \in expired
  /\ Back(p)
  /\ UNCHANGED <<stateVars, fieldVars, dialVars, connVars, claims>>

WaitCancelled(p) ==
  /\ AtWait(p)
  /\ StateDone(call[p].state)
  /\ IF Closed THEN Back(p) ELSE Again(p)
  /\ UNCHANGED <<stateVars, fieldVars, dialVars, connVars, claims>>

\* collectShared, when the dial it waited for is over.
AtCollect(p) == AtWait(p) /\ dial[call[p].conn].pc = "done"

CollectAnyError(p) ==
  /\ AtCollect(p)
  /\ dial[call[p].conn].err # "none"
  /\ Back(p)
  /\ UNCHANGED <<stateVars, fieldVars, dialVars, connVars, claims>>

\* The one that started a failed dial gets its error, the others try again.
CollectError(p) ==
  /\ AtCollect(p)
  /\ dial[call[p].conn].err # "none"
  /\ IF call[p].pc = "start" THEN Back(p) ELSE Again(p)
  /\ UNCHANGED <<stateVars, fieldVars, dialVars, connVars, claims>>

AtCollected(p) == AtCollect(p) /\ dial[call[p].conn].err = "none"

CollectReplaced(p) ==
  /\ AtCollected(p)
  /\ cur # call[p].state
  /\ Back(p)
  /\ UNCHANGED <<stateVars, fieldVars, dialVars, connVars, claims>>

CollectNothing(p) ==
  /\ AtCollected(p)
  /\ cur = call[p].state
  /\ shared = 0
  /\ Again(p)
  /\ UNCHANGED <<stateVars, fieldVars, dialVars, connVars, claims>>

CollectDead(p) ==
  /\ AtCollected(p)
  /\ cur = call[p].state
  /\ shared \in dead
  /\ RemoveConn(shared)
  /\ Again(p)
  /\ UNCHANGED <<dialVars, claims>>

CollectAsNew(p) ==
  /\ AtCollected(p)
  /\ cur = call[p].state
  /\ shared \in Conns \ dead
  /\ Hand(p, shared, IF call[p].pc = "start" THEN 1 ELSE 0)
  /\ claimed' = 1
  /\ UNCHANGED <<stateVars, idle, shared, connecting, dialVars, connVars>>

CollectShared(p) ==
  /\ AtCollected(p)
  /\ cur = call[p].state
  /\ shared \in Conns \ dead
  /\ Hand(p, shared, 1 - claimed)
  /\ claimed' = 1
  /\ UNCHANGED <<stateVars, idle, shared, connecting, dialVars, connVars>>

-----------------------------------------------------------------------------
(* The dial: connectSingle in its own goroutine, dialAndInstall in the caller's *)

\* Why a dial that returns now is of no use: its context or its state is
\* done, whatever it returned, or it failed with err.
DialError(d, err) ==
  IF dial[d].pc = "late" \/ StateDone(dial[d].state) THEN "cut" ELSE err

\* The dial is over, with this error.
DialOver(d, err) ==
  dial' = [dial EXCEPT ![d] = Dial("done", dial[d].state, 0, err)]

\* dialAndInstall returns an error and gives its slot back.
GiveUp(d, err) ==
  /\ DialOver(d, err)
  /\ slots' = slots + 1
  /\ Back(dial[d].by)

\* dial returns; a connection that comes too late is closed.
DialReturns(d, err) ==
  /\ dial[d].pc \in {"dialing", "late"}
  /\ open' = IF DialError(d, err) = "none" THEN open \cup {d} ELSE open
  /\ IF mode = "ordered" /\ DialError(d, err) # "none"
     THEN GiveUp(d, DialError(d, err))
     ELSE /\ dial' = [dial EXCEPT ![d] = Dial("install", @.state, @.by, DialError(d, err))]
          /\ UNCHANGED <<slots, callVars>>
  /\ UNCHANGED <<stateVars, fieldVars, dials, dead, cut, claims>>

\* connectSingle under the lock forgets the dial.
AtInstall(d) ==
  /\ mode = "single"
  /\ dial[d].pc = "install"
  /\ connecting' = IF cur = dial[d].state THEN 0 ELSE connecting

InstallError(d) ==
  /\ AtInstall(d)
  /\ dial[d].err # "none"
  /\ DialOver(d, dial[d].err)
  /\ UNCHANGED <<stateVars, idle, shared, claimed, slots, dials, callVars, connVars, claims>>

InstallAnyState(d) ==
  /\ AtInstall(d)
  /\ dial[d].err = "none"
  /\ cur # dial[d].state
  /\ DialOver(d, "none")
  /\ all' = [all EXCEPT ![dial[d].state] = @ \cup {d}]
  /\ UNCHANGED <<mode, cur, states, stage, idle, shared, claimed, slots, dials, callVars,
                 connVars, claims>>

InstallForgets(d) ==
  /\ AtInstall(d)
  /\ dial[d].err = "none"
  /\ cur # dial[d].state
  /\ DialOver(d, "cut")
  /\ UNCHANGED <<stateVars, idle, shared, claimed, slots, dials, callVars, connVars, claims>>

\* The pool was closed or reset during the dial.
InstallStale(d) ==
  /\ AtInstall(d)
  /\ dial[d].err = "none"
  /\ cur # dial[d].state
  /\ DialOver(d, "cut")
  /\ open' = open \ {d}
  /\ UNCHANGED <<stateVars, idle, shared, claimed, slots, dials, callVars, dead, cut, claims>>

InstallShared(d) ==
  /\ AtInstall(d)
  /\ dial[d].err = "none"
  /\ cur = dial[d].state
  /\ DialOver(d, "none")
  /\ all' = [all EXCEPT ![cur] = @ \cup {d}]
  /\ shared' = d
  /\ UNCHANGED <<mode, cur, states, stage, idle, claimed, slots, dials, callVars, connVars, claims>>

\* dialAndInstall under the lock.
OrderedStale(d) ==
  /\ mode = "ordered"
  /\ dial[d].pc = "install"
  /\ cur # dial[d].state
  /\ open' = open \ {d}
  /\ GiveUp(d, "cut")
  /\ UNCHANGED <<stateVars, fieldVars, dials, dead, cut, claims>>

InstallOrdered(d) ==
  /\ mode = "ordered"
  /\ dial[d].pc = "install"
  /\ cur = dial[d].state
  /\ all' = [all EXCEPT ![cur] = @ \cup {d}]
  /\ DialOver(d, "none")
  /\ slots' = slots + 1
  /\ Hand(dial[d].by, d, 1)
  /\ UNCHANGED <<mode, cur, states, stage, fieldVars, dials, connVars>>

-----------------------------------------------------------------------------
(* acquireOrdered *)

AtOrdered(p) == mode = "ordered" /\ call[p].pc = "acquire" /\ ~Closed

TakeIdleKeeps(p) ==
  /\ AtOrdered(p)
  /\ idle # <<>>
  /\ Head(idle) \notin dead
  /\ Hand(p, Head(idle), 0)
  /\ UNCHANGED <<stateVars, fieldVars, dialVars, connVars>>

TakeIdle(p) ==
  /\ AtOrdered(p)
  /\ idle # <<>>
  /\ Head(idle) \notin dead
  /\ idle' = Tail(idle)
  /\ Hand(p, Head(idle), 0)
  /\ UNCHANGED <<stateVars, shared, claimed, connecting, dialVars, connVars>>

DropDeadIdle(p) ==
  /\ AtOrdered(p)
  /\ idle # <<>>
  /\ Head(idle) \in dead
  /\ RemoveConn(Head(idle))
  /\ UNCHANGED <<dialVars, callVars, claims>>

\* No idle connection: the caller waits for a place among the dials.
WantSlot(p) ==
  /\ AtOrdered(p)
  /\ idle = <<>>
  /\ call' = [call EXCEPT ![p] = Caller("slot", cur, 0)]
  /\ UNCHANGED <<stateVars, fieldVars, dialVars, expired, connVars, claims>>

TakeSlot(p) ==
  /\ call[p].pc = "slot"
  /\ slots > 0
  /\ slots' = slots - 1
  /\ StartDial(p, call[p].state, "dial")
  /\ UNCHANGED <<stateVars, fieldVars, expired, connVars, claims>>

SlotFails(p) ==
  /\ call[p].pc = "slot"
  /\ p \in expired \/ StateDone(call[p].state)
  /\ Back(p)
  /\ UNCHANGED <<stateVars, fieldVars, dialVars, connVars, claims>>

-----------------------------------------------------------------------------
(* Release, Invalidate, Reset, Close *)

\* A connection that is not in the current state is closed.
ReleaseUntracked(p) ==
  /\ call[p].pc = "got"
  /\ ~Tracked(call[p].conn)
  /\ open' = open \ {call[p].conn}
  /\ Back(p)
  /\ UNCHANGED <<stateVars, fieldVars, dialVars, dead, cut, claims>>

ReleaseDiscard(p) ==
  /\ call[p].pc = "got"
  /\ Tracked(call[p].conn)
  /\ RemoveConn(call[p].conn)
  /\ Back(p)
  /\ UNCHANGED <<dialVars, claims>>

ReleaseReuse(p) ==
  /\ call[p].pc = "got"
  /\ Tracked(call[p].conn)
  /\ call[p].conn \notin dead
  /\ idle' = IF mode = "ordered" /\ \A i \in DOMAIN idle : idle[i] # call[p].conn
             THEN Append(idle, call[p].conn) ELSE idle
  /\ Back(p)
  /\ UNCHANGED <<stateVars, shared, claimed, connecting, dialVars, connVars, claims>>

Release(p, reuse) ==
  \/ ReleaseUntracked(p)
  \/ (~reuse \/ call[p].conn \in dead) /\ ReleaseDiscard(p)
  \/ reuse /\ ReleaseReuse(p)

\* A user of the shared connection returns without a Release (UDP, when the
\* connection failed).
Leave(p) ==
  /\ mode = "single"
  /\ call[p].pc = "got"
  /\ Back(p)
  /\ UNCHANGED <<stateVars, fieldVars, dialVars, connVars, claims>>

\* setConnDeadline (tcp.go): the end of the context closes the connection in use.
CloseInUse(p) ==
  /\ call[p].pc = "got"
  /\ p \in expired
  /\ open' = open \ {call[p].conn}
  /\ UNCHANGED <<stateVars, fieldVars, dialVars, callVars, dead, cut, claims>>

\* Invalidate, by the receive loop of c or by a user that then returns.
InvalidateConn(c) ==
  /\ claims[c] > 0
  /\ \/ /\ Closed
        /\ open' = open \ {c}
        /\ UNCHANGED <<stateVars, fieldVars, dead, cut>>
     \/ Tracked(c) /\ RemoveConn(c)
     \/ /\ ~Closed /\ ~Tracked(c)
        /\ UNCHANGED <<stateVars, fieldVars, connVars>>
  /\ UNCHANGED <<dialVars, claims>>

Invalidate(c) == InvalidateConn(c) /\ UNCHANGED callVars

InvalidateUsed(p) == call[p].pc = "got" /\ InvalidateConn(call[p].conn) /\ Back(p)

\* The current state object goes, with the fields that belong to it.
Replace(s) ==
  /\ cur' = s
  /\ idle' = <<>>
  /\ shared' = 0
  /\ claimed' = 0
  /\ connecting' = 0
  /\ UNCHANGED <<mode, all, stage, dialVars, callVars, connVars, claims>>

Reset ==
  /\ ~Closed
  /\ states < MaxStates
  /\ states' = states + 1
  /\ Replace(states + 1)

Close ==
  /\ ~Closed
  /\ states' = states
  /\ Replace(0)

\* closeState, outside the lock: the context first, then the connections.
CancelState(s) ==
  /\ Retired(s)
  /\ stage[s] = "none"
  /\ stage' = [stage EXCEPT ![s] = "cancelled"]
  /\ UNCHANGED <<mode, cur, states, all, fieldVars, dialVars, callVars, connVars, claims>>

CloseStateConns(s) ==
  /\ stage[s] = "cancelled"
  /\ stage' = [stage EXCEPT ![s] = "closed"]
  /\ open' = open \ all[s]
  /\ UNCHANGED <<mode, cur, states, all, fieldVars, dialVars, callVars, dead, cut, claims>>

\* IsAlive becomes false: the peer or an idle timeout ended the connection.
Die(c) ==
  /\ Tracked(c)
  /\ c \notin dead
  /\ dead' = dead \cup {c}
  /\ UNCHANGED <<stateVars, fieldVars, dialVars, callVars, open, cut, claims>>

-----------------------------------------------------------------------------
(* The pool and any users that keep to its protocol.  The transport that uses *)
(* the ordered list calls every connection alive.                             *)

AcquireStep(p) ==
  \/ AcquireClosed(p)
  \/ TakeShared(p) \/ DropDeadShared(p) \/ JoinDial(p) \/ StartShared(p)
  \/ WaitExpires(p) \/ WaitCancelled(p)
  \/ CollectError(p) \/ CollectReplaced(p) \/ CollectNothing(p) \/ CollectDead(p) \/ CollectShared(p)
  \/ TakeIdle(p) \/ WantSlot(p) \/ TakeSlot(p) \/ SlotFails(p)

DialStep(d) ==
  \/ \E err \in {"none", "dial"} : DialReturns(d, err)
  \/ InstallError(d) \/ InstallStale(d) \/ InstallShared(d)
  \/ OrderedStale(d) \/ InstallOrdered(d)

CloseStep(s) == CancelState(s) \/ CloseStateConns(s)

UserStep(p) ==
  \/ \E reuse \in BOOLEAN : Release(p, reuse)
  \/ Begin(p) \/ Expire(p) \/ CloseInUse(p) \/ Leave(p) \/ InvalidateUsed(p)

PoolNext ==
  \/ \E p \in Callers : AcquireStep(p) \/ DropDeadIdle(p) \/ UserStep(p)
  \/ \E d \in Conns : DialStep(d) \/ Invalidate(d) \/ Die(d)
  \/ \E s \in States : CloseStep(s)
  \/ Reset \/ Close

PoolSpec == PoolInit /\ [][PoolNext]_poolVars

-----------------------------------------------------------------------------
(* Properties *)

\* The variables keep their types.
PoolTypeOK ==
  /\ mode \in {"single", "ordered"}
  /\ states \in States
  /\ cur \in 0 .. states
  /\ all \in [States -> SUBSET Conns]
  /\ stage \in [States -> {"none", "cancelled", "closed"}]
  /\ idle \in Seq(Conns)
  /\ shared \in 0 .. MaxDials
  /\ claimed \in 0 .. 1
  /\ connecting \in 0 .. MaxDials
  /\ slots \in Nat
  /\ dials \in 0 .. MaxDials
  /\ dial \in [Conns -> DialRec]
  /\ call \in [Callers -> CallerRec]
  /\ expired \subseteq Callers
  /\ open \subseteq Conns
  /\ dead \subseteq Conns
  /\ cut \subseteq Conns
  /\ claims \in [Conns -> Nat]

\* No connection is forgotten: an open one is in the current state, about to
\* be installed or refused by its dial, or in a replaced state whose
\* closeState is still to close it (conn_pool.go:277, 365, 439).
NoConnLost ==
  \A c \in open :
    \/ Tracked(c)
    \/ dial[c].pc = "install"
    \/ \E s \in States : Retired(s) /\ stage[s] # "closed" /\ c \in all[s]

\* closeState ranges over the map all of a replaced state without the lock
\* (conn_pool.go:441), so nobody may change that map any more.
OldStateUntouched == [][\A s \in States \ {cur} : all'[s] = all[s]]_poolVars

\* In ordered mode a connection has one user: it is not idle while somebody
\* has it, and nobody else has it.
ExclusiveUse ==
  mode = "ordered" =>
    /\ \A i, j \in DOMAIN idle : idle[i] = idle[j] => i = j
    /\ \A p \in Callers : call[p].pc = "got" =>
         /\ \A i \in DOMAIN idle : idle[i] # call[p].conn
         /\ \A q \in Callers \ {p} : call[q].pc = "got" => call[q].conn # call[p].conn

\* A connection somebody has was handed out as created exactly once: the UDP
\* transport starts its receive loop on created (udp.go:174).
ClaimedOnce ==
  /\ \A c \in Conns : claims[c] <= 1
  /\ \A p \in Callers : call[p].pc = "got" => claims[call[p].conn] = 1

\* An Acquire of p fails in this step, and why it may.
FailsAcquire(p) ==
  call[p].pc \in {"acquire", "start", "join", "slot", "dial"} /\ call'[p].pc = "idle"

OwnError(p) ==
  \/ p \in expired
  \/ call[p].pc = "acquire" /\ Closed
  \/ call[p].pc # "acquire" /\ call[p].state # cur
  \/ call[p].pc \in {"start", "dial"} /\ dial'[call[p].conn].err = "dial"

\* An Acquire fails for its caller's own reasons: its context, its own dial,
\* or a pool that was closed or reset meanwhile; the failure of a dial that
\* another caller started is not handed on (conn_pool.go:406).
ErrorsAreOwn == [][\A p \in Callers : FailsAcquire(p) => OwnError(p)]_poolVars

=============================================================================

----------------------------- MODULE Monitoring -----------------------------
(***************************************************************************)
(* The carousel that tests the outbounds                                   *)
(* (common/monitoring/outbound_monitoring.go): requests and cycles put     *)
(* tasks into two queues, workers take them out, an outbound that is not   *)
(* ready is tried again after a pause, and what a test found is published  *)
(* to the subscribers of a group.                                          *)
(*                                                                         *)
(* An outbound carries the marks by which tasks are told to be superfluous.*)
(* Every lock of a mark, every send and every receive is an action of its  *)
(* own.  What a test measures, which URL it fetches and the saved history  *)
(* are left out: a test succeeds or fails.  The groups are alike, so there *)
(* is one, and every outbound is in it.                                    *)
(***************************************************************************)
EXTENDS Integers, Sequences, FiniteSets, Functions

CONSTANTS
  Setups,         \* what a behaviour is about, see SetupOK
  PriorityCap,    \* the capacity of priorityQueue
  NormalCap,      \* the capacity of normalQueue
  ReadyLimit      \* from this cycleID on a test does not wait for an outbound to be ready

\* The outbounds that can be tested, those of them that are tunnels, which may be
\* not ready, and for each those that dial through it; the workers, len(m.urls),
\* which kinds of calls are made and how many, whether the monitor may be closed,
\* and the bound on cycles.
SetupOK(l) ==
  /\ IsFiniteSet(l.outbounds)
  /\ l.parents \in [l.outbounds -> SUBSET l.outbounds]
  /\ l.tunnels \subseteq l.outbounds
  /\ {l.urls, l.cycles, l.calls} \subseteq Nat \ {0}
  /\ l.kinds \subseteq {"test", "group", "invalidate", "signal"}
  /\ l.closes \in BOOLEAN

ASSUME MonitoringAssumption ==
  /\ \A l \in Setups : SetupOK(l)
  /\ {PriorityCap, NormalCap, ReadyLimit} \subseteq Nat \ {0}

VARIABLES
  setup,          \* the setup of this behaviour
  ready,          \* the outbounds that are ready
  due,            \* the outbounds whose result is invalid or older than mainInterval
  state,          \* the marks of every outbound
  priorityQueue, normalQueue,
  retries,        \* the tasks that wait for their 3 seconds, in the order they will wake up
  work,           \* the task a worker is testing
  started,        \* workersOnce has run
  ticker,         \* scheduleLoop: off, on, or about to stop
  cycleSeq,
  cycle,          \* the goroutine of startCycleOnce
  caller,         \* what the caller of the monitor has left to do
  requests,       \* the calls so far
  group,          \* the channel and the timer of groupNotifierLoop
  closed

marks == <<state, priorityQueue, normalQueue>>
timing == <<started, ticker, cycleSeq>>
calls == <<caller, requests>>
monitorVars == <<setup, ready, due, marks, retries, work, timing, cycle, calls, group, closed>>

Outbounds == setup.outbounds
Workers == setup.workers

None == [tag |-> "none"]
Signal == [tag |-> "signal"]
NoCycle == [pc |-> "idle", tags |-> {}, left |-> {}, url |-> 1, expected |-> 0, got |-> 0, success |-> FALSE]
Cleared == [queued |-> FALSE, priorityQueued |-> FALSE, enqueuedCycle |-> 0, testing |-> FALSE]
Item == [tag : Outbounds, priority : BOOLEAN]
Task == [tag : Outbounds, priority : BOOLEAN, cycleID : Nat, stage : BOOLEAN]

MonitorInit ==
  /\ setup \in Setups
  /\ \E up \in SUBSET setup.tunnels : ready = (Outbounds \ setup.tunnels) \cup up
  /\ due = Outbounds
  /\ state = [o \in Outbounds |-> Cleared]
  /\ priorityQueue = <<>> /\ normalQueue = <<>> /\ retries = <<>>
  /\ work = [w \in Workers |-> None]
  /\ started = FALSE
  /\ ticker = "off"
  /\ cycleSeq = 0
  /\ cycle = NoCycle
  /\ caller = {}
  /\ requests = 0
  /\ group = [notified |-> FALSE, timer |-> FALSE, unseen |-> FALSE]
  /\ closed = FALSE

-----------------------------------------------------------------------------
(* enqueueTask.  The mark is set before the queue is found full, and stays. *)

Superfluous(t) ==
  IF t.priority THEN state[t.tag].priorityQueued ELSE state[t.tag].enqueuedCycle = t.cycleID

Room(t) == IF t.priority THEN Len(priorityQueue) < PriorityCap ELSE Len(normalQueue) < NormalCap

Accepts(t) == ~Superfluous(t) /\ Room(t)

Mark(t) ==
  IF t.priority THEN [state EXCEPT ![t.tag].priorityQueued = TRUE]
  ELSE [state EXCEPT ![t.tag].queued = TRUE, ![t.tag].enqueuedCycle = t.cycleID]

enqueueTask(t) ==
  /\ state' = IF Superfluous(t) THEN state ELSE Mark(t)
  /\ priorityQueue' = IF Accepts(t) /\ t.priority THEN Append(priorityQueue, t) ELSE priorityQueue
  /\ normalQueue' = IF Accepts(t) /\ ~t.priority THEN Append(normalQueue, t) ELSE normalQueue

-----------------------------------------------------------------------------
(* The callers.  One caller at a time, and its tests in any order. *)

startCycleOnce ==
  cycle' = IF cycle.pc = "idle" /\ cycleSeq < setup.cycles THEN [NoCycle EXCEPT !.pc = "begin"] ELSE cycle

\* Touch and startTimerWorkers; a ticker that is about to stop is left to stop.
Touch ==
  IF ticker = "off"
  THEN started' = TRUE /\ ticker' = "on" /\ startCycleOnce
  ELSE UNCHANGED <<started, ticker, cycle>>

Asks(kind, items) ==
  /\ kind \in setup.kinds
  /\ caller = {} /\ requests < setup.calls
  /\ caller' = items
  /\ requests' = requests + 1

TestNow(o) ==
  /\ Asks("test", {[tag |-> p, priority |-> TRUE] : p \in setup.parents[o] \cup {o}})
  /\ Touch
  /\ UNCHANGED <<setup, ready, due, marks, retries, work, cycleSeq, group, closed>>

TestGroup ==
  /\ Asks("group", {[tag |-> o, priority |-> FALSE] : o \in Outbounds})
  /\ Touch
  /\ UNCHANGED <<setup, ready, due, marks, retries, work, cycleSeq, group, closed>>

\* InvalidateTest does not Touch.
InvalidateTest(o) ==
  /\ Asks("invalidate", {[tag |-> o, priority |-> TRUE]})
  /\ due' = due \cup {o}
  /\ UNCHANGED <<setup, ready, marks, retries, work, timing, cycle, group, closed>>

SignalChange ==
  /\ Asks("signal", {Signal})
  /\ UNCHANGED <<setup, ready, due, marks, retries, work, timing, cycle, group, closed>>

\* OutboundsHistory and SubscribeGroup
Look ==
  /\ ticker = "off"
  /\ Touch
  /\ UNCHANGED <<setup, ready, due, marks, retries, work, cycleSeq, calls, group, closed>>

testNow(i) ==
  /\ i \in caller \ {Signal}
  /\ enqueueTask([tag |-> i.tag, priority |-> i.priority, cycleID |-> cycleSeq, stage |-> FALSE])
  /\ caller' = caller \ {i}
  /\ UNCHANGED <<setup, ready, due, retries, work, timing, cycle, requests, group, closed>>

\* The send blocks while the channel is full.
SendSignal ==
  /\ Signal \in caller
  /\ ~group.notified
  /\ group' = [group EXCEPT !.notified = TRUE]
  /\ caller' = {}
  /\ UNCHANGED <<setup, ready, due, marks, retries, work, timing, cycle, requests, closed>>

-----------------------------------------------------------------------------
(* The workers.  The first select of workerLoop prefers a priority task, but *)
(* one that arrives before the second select competes with a normal task.    *)

Take(w, t) ==
  IF t.cycleID < ReadyLimit /\ t.tag \notin ready
  THEN /\ retries' = Append(retries, t)
       /\ state' = [state EXCEPT ![t.tag].testing = FALSE]
       /\ UNCHANGED work
  ELSE /\ work' = [work EXCEPT ![w] = t]
       /\ state' = [state EXCEPT ![t.tag].testing = TRUE]
       /\ UNCHANGED retries

TakePriority(w) ==
  /\ started /\ work[w] = None /\ priorityQueue # <<>>
  /\ Take(w, Head(priorityQueue))
  /\ priorityQueue' = Tail(priorityQueue)
  /\ UNCHANGED <<setup, ready, due, normalQueue, timing, cycle, calls, group, closed>>

TakeNormal(w) ==
  /\ started /\ work[w] = None /\ normalQueue # <<>>
  /\ Take(w, Head(normalQueue))
  /\ normalQueue' = Tail(normalQueue)
  /\ UNCHANGED <<setup, ready, due, priorityQueue, timing, cycle, calls, group, closed>>

RetrySameCycle ==
  /\ retries # <<>>
  /\ enqueueTask(Head(retries))
  /\ retries' = Tail(retries)
  /\ UNCHANGED <<setup, ready, due, work, timing, cycle, calls, group, closed>>

\* The 3 seconds are over.
Retry ==
  /\ retries # <<>>
  /\ enqueueTask([Head(retries) EXCEPT !.cycleID = @ + 1])
  /\ retries' = Tail(retries)
  /\ UNCHANGED <<setup, ready, due, work, timing, cycle, calls, group, closed>>

emitGroupEvent == [group EXCEPT !.notified = TRUE, !.unseen = TRUE]

EndTest(w, cleared, success) ==
  LET t == work[w] IN
  /\ t # None
  /\ state' = [state EXCEPT ![t.tag] = cleared]
  /\ \/ due' = due \ {t.tag}
     \/ ~success /\ due' = due \cup {t.tag}
  /\ group' = emitGroupEvent
  /\ cycle' = IF t.stage THEN [cycle EXCEPT !.got = @ + 1, !.success = @ \/ success] ELSE cycle
  /\ work' = [work EXCEPT ![w] = None]
  /\ UNCHANGED <<setup, ready, priorityQueue, normalQueue, retries, timing, calls, closed>>

applyKeepsQueued(w, success) ==
  work[w] # None /\ EndTest(w, [Cleared EXCEPT !.queued = state[work[w].tag].queued], success)

\* The test of a worker ends: applyResult, the result to the stage that waits
\* for it, and the end of executeTask.  The result of a test that panicked has
\* no time, so that the outbound is due again at once.
applyResult(w, success) == EndTest(w, Cleared, success)

-----------------------------------------------------------------------------
(* Cycles *)

runCycle ==
  /\ cycle.pc = "begin"
  /\ cycleSeq' = cycleSeq + 1
  /\ cycle' = [cycle EXCEPT !.pc = "collect"]
  /\ UNCHANGED <<setup, ready, due, marks, retries, work, started, ticker, calls, group, closed>>

Unmarked(o) == ~state[o].testing /\ ~state[o].queued /\ ~state[o].priorityQueued

collectCycleTargets ==
  LET tags == {o \in due : Unmarked(o)} IN
  /\ cycle.pc = "collect"
  /\ cycle' = IF tags = {} THEN NoCycle ELSE [cycle EXCEPT !.pc = "stage", !.tags = tags, !.left = tags]
  /\ UNCHANGED <<setup, ready, due, marks, retries, work, timing, calls, group, closed>>

StageTask(o) == [tag |-> o, priority |-> FALSE, cycleID |-> cycleSeq, stage |-> TRUE]

\* The targets are sorted by their delay: in any order here.
runStage(o) ==
  /\ cycle.pc = "stage" /\ o \in cycle.left
  /\ enqueueTask(StageTask(o))
  /\ cycle' = [cycle EXCEPT !.left = @ \ {o}, !.expected = IF Accepts(StageTask(o)) THEN @ + 1 ELSE @]
  /\ UNCHANGED <<setup, ready, due, retries, work, timing, calls, group, closed>>

EndStage ==
  /\ cycle.pc = "stage" /\ cycle.left = {} /\ cycle.got = cycle.expected
  /\ cycle' = IF cycle.success \/ cycle.url = setup.urls THEN NoCycle
              ELSE [cycle EXCEPT !.url = @ + 1, !.left = cycle.tags, !.expected = 0, !.got = 0]
  /\ UNCHANGED <<setup, ready, due, marks, retries, work, timing, calls, group, closed>>

\* The tasks of an outbound that have been accepted and not applied
Pending(o) ==
  {t \in Range(priorityQueue) \cup Range(normalQueue) \cup Range(retries) \cup Range(work) : t.tag = o}

\* The ticker fires, mainInterval after the last time: results have grown old,
\* unless a task of the outbound is still about.  After idleTimeout without a
\* Touch scheduleLoop ends.
Tick(idle, old) ==
  /\ ticker = "on" /\ cycleSeq < setup.cycles
  /\ due' = due \cup {o \in old : Pending(o) = {}}
  /\ IF idle THEN ticker' = "stopping" /\ UNCHANGED cycle ELSE startCycleOnce /\ UNCHANGED ticker
  /\ UNCHANGED <<setup, ready, marks, retries, work, started, cycleSeq, calls, group, closed>>

stopTimerWorkers ==
  /\ ticker = "stopping"
  /\ ticker' = "off"
  /\ UNCHANGED <<setup, ready, due, marks, retries, work, started, cycleSeq, cycle, calls, group, closed>>

-----------------------------------------------------------------------------
(* groupNotifierLoop *)

NotifiedIfDirty ==
  /\ group.notified
  /\ \E dirty \in BOOLEAN : group' = [group EXCEPT !.notified = FALSE, !.timer = @ \/ dirty]
  /\ UNCHANGED <<setup, ready, due, marks, retries, work, timing, cycle, calls, closed>>

Notified ==
  /\ group.notified
  /\ group' = [group EXCEPT !.notified = FALSE, !.timer = TRUE]
  /\ UNCHANGED <<setup, ready, due, marks, retries, work, timing, cycle, calls, closed>>

Publish ==
  /\ group.timer
  /\ group' = [group EXCEPT !.timer = FALSE, !.unseen = FALSE]
  /\ UNCHANGED <<setup, ready, due, marks, retries, work, timing, cycle, calls, closed>>

-----------------------------------------------------------------------------
\* External: a tunnel connects, or loses its connection.
ReadyChanges(o) ==
  /\ o \in setup.tunnels
  /\ ready' = IF o \in ready THEN ready \ {o} ELSE ready \cup {o}
  /\ UNCHANGED <<setup, due, marks, retries, work, timing, cycle, calls, group, closed>>

\* Every goroutine ends once the context is cancelled, and none changes anything before.
Close ==
  /\ setup.closes
  /\ closed' = TRUE
  /\ UNCHANGED <<setup, ready, due, marks, retries, work, timing, cycle, calls, group>>

WorkerStep(w) == TakePriority(w) \/ TakeNormal(w) \/ \E success \in BOOLEAN : applyResult(w, success)
CallerStep == (\E i \in caller : testNow(i)) \/ SendSignal
CycleStep == runCycle \/ collectCycleTargets \/ (\E o \in Outbounds : runStage(o)) \/ EndStage

MonitorNext ==
  /\ ~closed
  /\ \/ \E o \in Outbounds : TestNow(o) \/ InvalidateTest(o) \/ ReadyChanges(o)
     \/ TestGroup \/ SignalChange \/ Look \/ CallerStep
     \/ \E w \in Workers : WorkerStep(w)
     \/ Retry
     \/ CycleStep
     \/ \E idle \in BOOLEAN, old \in SUBSET Outbounds : Tick(idle, old)
     \/ stopTimerWorkers
     \/ Notified \/ Publish
     \/ Close

MonitorSpec == MonitorInit /\ [][MonitorNext]_monitorVars

\* Goroutines are scheduled, timers fire, and a test ends by its timeout.
MonitorFairness ==
  /\ \A w \in UNION {l.workers : l \in Setups} : WF_monitorVars(~closed /\ w \in Workers /\ WorkerStep(w))
  /\ WF_monitorVars(~closed /\ Retry)
  /\ WF_monitorVars(~closed /\ CycleStep)
  /\ WF_monitorVars(~closed /\ CallerStep)
  /\ WF_monitorVars(~closed /\ Notified)
  /\ WF_monitorVars(~closed /\ Publish)

MonitorLiveSpec == MonitorSpec /\ MonitorFairness

-----------------------------------------------------------------------------
(* Properties *)

MonitorTypeOK ==
  /\ ready \subseteq Outbounds /\ due \subseteq Outbounds
  /\ state \in [Outbounds -> [queued : BOOLEAN, priorityQueued : BOOLEAN, enqueuedCycle : Nat, testing : BOOLEAN]]
  /\ {priorityQueue, normalQueue, retries} \subseteq Seq(Task)
  /\ Len(priorityQueue) <= PriorityCap /\ Len(normalQueue) <= NormalCap
  /\ work \in [Workers -> Task \cup {None}]
  /\ started \in BOOLEAN /\ ticker \in {"off", "on", "stopping"}
  /\ cycleSeq \in 0 .. setup.cycles /\ requests \in 0 .. setup.calls
  /\ cycle \in [pc : {"idle", "begin", "collect", "stage"}, tags : SUBSET Outbounds, left : SUBSET Outbounds,
                 url : 1 .. setup.urls, expected : Nat, got : Nat, success : BOOLEAN]
  /\ caller \subseteq Item \cup {Signal}
  /\ group \in [notified : BOOLEAN, timer : BOOLEAN, unseen : BOOLEAN]
  /\ closed \in BOOLEAN

\* A cycle ends, so that cycleRunning is given back and later ticks start
\* others, even if an outbound never becomes ready, or is ready and not ready
\* by turns, and whatever priority tests clear the marks of its outbounds: no
\* task that runStage counted is lost.  Tests of the group are left out: their
\* retries may take the number of a stage's retry, which enqueueTask refuses.
CycleEnds == "group" \notin setup.kinds /\ cycle.pc # "idle" ~> (cycle.pc = "idle" \/ closed)

Queued(o) == o \in Outbounds /\ state[o].queued
PriorityQueued(o) == o \in Outbounds /\ state[o].priorityQueued

\* An outbound that is marked as queued is tested, and the mark taken away, with
\* tests of the group too; one that is marked as queued with priority is, if the
\* workers have been started and it is ready all the time: the retry of a
\* priority task finds its own mark (executeTask, enqueueTask, applyResult).
MarkedIsTested ==
  \A o \in UNION {l.outbounds : l \in Setups} :
    /\ Queued(o) ~> (~Queued(o) \/ closed)
    /\ [](o \in ready) => (started /\ PriorityQueued(o) ~> (~PriorityQueued(o) \/ closed))

\* The outbounds with a task of the cycle's stage: in the queue, waiting for its
\* retry, or with a worker
Staged(tasks) == {x \in DOMAIN tasks : tasks[x] # None /\ tasks[x].stage}
TagsIn(tasks) == {tasks[x].tag : x \in Staged(tasks)}
StageTags == TagsIn(normalQueue) \cup TagsIn(retries) \cup TagsIn(work)

\* No test of the group is asked for, and normalQueue has room for every outbound.
OnlyCycles == "group" \notin setup.kinds /\ Cardinality(Outbounds) <= NormalCap

\* runStage waits for exactly the tasks that are still about, through queue,
\* retries and tests, and whatever priority tests do to the marks meanwhile: it
\* neither waits for a task that is lost nor leaves one behind whose result a
\* later stage would count as its own (executeTask, enqueueTask, runStage).
StageCounted ==
  OnlyCycles => /\ cycle.expected = cycle.got + Cardinality(StageTags)
                /\ cycle.pc # "stage" => StageTags = {}

\* An outbound that is marked as queued, which keeps collectCycleTargets from
\* choosing it, has a task that will take the mark away.
QueuedHasTask == OnlyCycles => \A o \in Outbounds : state[o].queued => o \in StageTags

\* The tasks about that are not priority tests: those of stages and of group tests
NormalIn(tasks) == {tasks[x] : x \in {y \in DOMAIN tasks : tasks[y] # None /\ ~tasks[y].priority}}
NormalTasks == NormalIn(normalQueue) \cup NormalIn(retries) \cup NormalIn(work)

HasRoom == Len(normalQueue) < NormalCap

\* The same with tests of the group, whose retries enqueueTask may refuse for the
\* sake of a stage's and the other way round: one of them is left to be tested.
\* It needs room in normalQueue, as the mark is set before the queue is found full.
MarkedHasTask == \A o \in Outbounds : state[o].queued => \E t \in NormalTasks : t.tag = o

\* A result that has not been published is about to be: the channel or the
\* timer of groupNotifierLoop holds its notification.
UnseenIsPending == group.unseen => group.notified \/ group.timer

\* A result is published to the subscribers of the group, even one that comes
\* while the notification of another is waiting or debounced; and the callers
\* of TestNow, InvalidateTest and SignalChange, whose send may block, return.
Answered ==
  /\ group.unseen ~> (~group.unseen \/ closed)
  /\ caller # {} ~> (caller = {} \/ closed)
=============================================================================

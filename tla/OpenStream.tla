----------------------------- MODULE OpenStream -----------------------------
(***************************************************************************)
(* One call of DefaultDialerClient.OpenStream (dialer.go) and the          *)
(* WaitReadCloser it returns.  Four kinds of goroutine share the state:    *)
(*                                                                         *)
(*   - the caller, which waits for the first connection and returns its    *)
(*     address (callerPc);                                                 *)
(*   - the response goroutine, which runs client.Do and hands the response *)
(*     body over with Set, or closes the reader (respPc);                  *)
(*   - the readers of the proxied connection (rpc);                        *)
(*   - the threads that call Close on the returned reader, the response    *)
(*     goroutine among them (cpc).                                         *)
(*                                                                         *)
(* Every atomic operation of the code is one step.                         *)
(***************************************************************************)
EXTENDS Integers

CONSTANTS Readers,      \* goroutines that Read the returned stream
          Closers,      \* goroutines that Close it (splitConn.Close)
          Resp,         \* the response goroutine, as a caller of Close
          None,         \* no address
          MaxAttempts   \* bound on the connection attempts of one client.Do

ASSUME RespAssumption == Resp \notin Closers
ASSUME NoneAssumption == None \notin Nat
ASSUME AttemptsAssumption == MaxAttempts \in Nat \ {0}

VARIABLES
  uploadOnly,    \* argument of OpenStream: the response body is not wanted
  ctxDone,       \* the context of the request is cancelled
  wait,          \* w.wait is closed (a done.Instance)
  reader,        \* w.reader points to the response body
  bodyArrived,   \* client.Do returned a response
  bodyCloses,    \* how many times the response body was closed
  attempts,      \* GotConn callbacks fired so far
  tracedAddr,    \* the published address: the number of its attempt
  gotConn,       \* gotConn is closed (a done.Instance)
  clientClosed,  \* c.closed
  callerPc, retAddr,
  respPc,
  cpc,
  rpc,
  rres,          \* the result of the last Read of a reader
  lateRead       \* it began after some Close had returned and Set was over

respVars == <<bodyArrived, attempts, tracedAddr, gotConn, clientClosed, respPc>>
callerVars == <<callerPc, retAddr>>
readerVars == <<rpc, rres, lateRead>>
argVars == <<uploadOnly, ctxDone>>
streamVars == <<wait, reader, bodyCloses>>
vars == <<argVars, streamVars, respVars, callerVars, cpc, readerVars>>

CloserThreads == Closers \cup {Resp}
Results == {"none", "data", "bodyErr", "ErrClosedPipe"}

Init ==
  /\ uploadOnly \in BOOLEAN
  /\ ctxDone = FALSE
  /\ wait = FALSE
  /\ reader = FALSE
  /\ bodyArrived = FALSE
  /\ bodyCloses = 0
  /\ attempts = 0
  /\ tracedAddr = None
  /\ gotConn = FALSE
  /\ clientClosed = FALSE
  /\ callerPc = "build"
  /\ retAddr = None
  /\ respPc = "notStarted"
  /\ cpc = [c \in CloserThreads |-> "idle"]
  /\ rpc = [r \in Readers |-> "idle"]
  /\ rres = [r \in Readers |-> "none"]
  /\ lateRead = [r \in Readers |-> FALSE]

\* The owner of the request context gives up.
CtxCancel ==
  /\ ~ctxDone
  /\ ctxDone' = TRUE
  /\ UNCHANGED <<uploadOnly, streamVars, respVars, callerVars, cpc, readerVars>>

-----------------------------------------------------------------------------
(* The response goroutine.  client.Do calls the GotConn callback once per  *)
(* attempt, in this goroutine.                                             *)

RespStep(from, to) ==
  /\ respPc = from
  /\ respPc' = to
  /\ UNCHANGED <<argVars, callerVars, readerVars>>

GotConnCAS ==
  /\ RespStep("do", "gotConn")
  /\ attempts < MaxAttempts
  /\ attempts' = attempts + 1
  /\ tracedAddr' = IF tracedAddr = None THEN attempts + 1 ELSE tracedAddr
  /\ UNCHANGED <<bodyArrived, gotConn, clientClosed, streamVars, cpc>>

GotConnClose ==
  /\ RespStep("gotConn", "do")
  /\ gotConn' = TRUE
  /\ UNCHANGED <<bodyArrived, attempts, tracedAddr, clientClosed, streamVars, cpc>>

\* client.Do fails, at any moment: the goroutine marks the client closed,
\* releases the caller and closes the reader, in this order.
DoFails ==
  /\ RespStep("do", "markClosed")
  /\ UNCHANGED <<bodyArrived, attempts, tracedAddr, gotConn, clientClosed, streamVars, cpc>>

\* Mutant: a failed download does not mark its client.
MarkClosedMissing ==
  /\ RespStep("markClosed", "release")
  /\ UNCHANGED <<bodyArrived, attempts, tracedAddr, gotConn, clientClosed, streamVars, cpc>>

MarkClosed ==
  /\ RespStep("markClosed", "release")
  /\ clientClosed' = (clientClosed \/ ~uploadOnly)
  /\ UNCHANGED <<bodyArrived, attempts, tracedAddr, gotConn, streamVars, cpc>>

\* Mutant: a failed dial does not release the caller.
ReleaseMissing ==
  /\ RespStep("release", "closing")
  /\ cpc' = [cpc EXCEPT ![Resp] = "wait"]
  /\ UNCHANGED <<bodyArrived, attempts, tracedAddr, gotConn, clientClosed, streamVars>>

ReleaseCaller ==
  /\ RespStep("release", "closing")
  /\ gotConn' = TRUE
  /\ cpc' = [cpc EXCEPT ![Resp] = "wait"]
  /\ UNCHANGED <<bodyArrived, attempts, tracedAddr, clientClosed, streamVars>>

\* client.Do returns a response.  Its body is drained and closed here when it
\* is not wanted or the status is not 200, and handed over with Set otherwise.
DoReturns ==
  /\ attempts > 0
  /\ \E ok \in BOOLEAN : RespStep("do", IF ok /\ ~uploadOnly THEN "setStore" ELSE "drain")
  /\ bodyArrived' = TRUE
  /\ UNCHANGED <<attempts, tracedAddr, gotConn, clientClosed, streamVars, cpc>>

DrainBody ==
  /\ RespStep("drain", "closing")
  /\ bodyCloses' = bodyCloses + 1
  /\ cpc' = [cpc EXCEPT ![Resp] = "wait"]
  /\ UNCHANGED <<wait, reader, bodyArrived, attempts, tracedAddr, gotConn, clientClosed>>

RespEnd ==
  /\ cpc[Resp] = "done"
  /\ RespStep("closing", "end")
  /\ UNCHANGED <<bodyArrived, attempts, tracedAddr, gotConn, clientClosed, streamVars, cpc>>

-----------------------------------------------------------------------------
(* WaitReadCloser.Set, run by the response goroutine.                      *)

SetStep(from, to) ==
  /\ RespStep(from, to)
  /\ UNCHANGED <<bodyArrived, attempts, tracedAddr, gotConn, clientClosed, cpc>>

\* Mutant: Set wakes the readers before it publishes the body.
SetStoreAfterWait ==
  \/ ~wait /\ SetStep("setStore", "setStore") /\ wait' = TRUE /\ UNCHANGED <<reader, bodyCloses>>
  \/ wait /\ SetStep("setStore", "setWait") /\ reader' = TRUE /\ UNCHANGED <<wait, bodyCloses>>

SetStore ==
  /\ SetStep("setStore", "setCheck")
  /\ reader' = TRUE
  /\ UNCHANGED <<wait, bodyCloses>>

\* Mutant: Set does not look whether Close came first.
SetCheckMissing ==
  /\ SetStep("setCheck", "setWait")
  /\ UNCHANGED streamVars

SetCheck ==
  /\ SetStep("setCheck", IF wait THEN "setSwap" ELSE "setWait")
  /\ UNCHANGED streamVars

SetSwap ==
  /\ SetStep("setSwap", IF reader THEN "setBody" ELSE "setWait")
  /\ reader' = FALSE
  /\ UNCHANGED <<wait, bodyCloses>>

SetCloseBody ==
  /\ SetStep("setBody", "setWait")
  /\ bodyCloses' = bodyCloses + 1
  /\ UNCHANGED <<wait, reader>>

SetWait ==
  /\ SetStep("setWait", "end")
  /\ wait' = TRUE
  /\ UNCHANGED <<reader, bodyCloses>>

-----------------------------------------------------------------------------
(* WaitReadCloser.Close.                                                   *)

CloseFrame == UNCHANGED <<argVars, respVars, callerVars, readerVars>>

CloseBegin(c) ==
  /\ c \in Closers
  /\ callerPc = "returned"
  /\ cpc[c] = "idle"
  /\ cpc' = [cpc EXCEPT ![c] = "wait"]
  /\ UNCHANGED streamVars
  /\ CloseFrame

CloseWait(c) ==
  /\ cpc[c] = "wait"
  /\ wait' = TRUE
  /\ cpc' = [cpc EXCEPT ![c] = "swap"]
  /\ UNCHANGED <<reader, bodyCloses>>
  /\ CloseFrame

CloseSwap(c) ==
  /\ cpc[c] = "swap"
  /\ cpc' = [cpc EXCEPT ![c] = IF reader THEN "body" ELSE "done"]
  /\ reader' = FALSE
  /\ UNCHANGED <<wait, bodyCloses>>
  /\ CloseFrame

CloseBody(c) ==
  /\ cpc[c] = "body"
  /\ bodyCloses' = bodyCloses + 1
  /\ cpc' = [cpc EXCEPT ![c] = "done"]
  /\ UNCHANGED <<wait, reader>>
  /\ CloseFrame

Close(c) == CloseWait(c) \/ CloseSwap(c) \/ CloseBody(c)

-----------------------------------------------------------------------------
(* WaitReadCloser.Read.  A reader calls it again and again.                *)

ReadFrame == UNCHANGED <<argVars, streamVars, respVars, callerVars, cpc>>

CloseReturned == \E c \in CloserThreads : cpc[c] = "done"

ReadBegin(r) ==
  /\ callerPc = "returned"
  /\ rpc[r] = "idle"
  /\ rpc' = [rpc EXCEPT ![r] = "load"]
  /\ rres' = [rres EXCEPT ![r] = "none"]
  /\ lateRead' = [lateRead EXCEPT ![r] = CloseReturned /\ respPc = "end"]
  /\ ReadFrame

ReadLoad(r) ==
  /\ rpc[r] = "load"
  /\ rpc' = [rpc EXCEPT ![r] = IF reader THEN "body" ELSE "wait"]
  /\ UNCHANGED <<rres, lateRead>>
  /\ ReadFrame

ReadWait(r) ==
  /\ rpc[r] = "wait"
  /\ wait
  /\ rpc' = [rpc EXCEPT ![r] = "reload"]
  /\ UNCHANGED <<rres, lateRead>>
  /\ ReadFrame

ReadReload(r) ==
  /\ rpc[r] = "reload"
  /\ rpc' = [rpc EXCEPT ![r] = IF reader THEN "body" ELSE "idle"]
  /\ rres' = [rres EXCEPT ![r] = IF reader THEN "none" ELSE "ErrClosedPipe"]
  /\ UNCHANGED lateRead
  /\ ReadFrame

\* The body delivers data or ends while it is open; once closed it returns an
\* error.
ReadBody(r) == \E res \in {"data", "bodyErr"} :
  /\ rpc[r] = "body"
  /\ res = "data" => bodyCloses = 0
  /\ rpc' = [rpc EXCEPT ![r] = "idle"]
  /\ rres' = [rres EXCEPT ![r] = res]
  /\ UNCHANGED lateRead
  /\ ReadFrame

Read(r) == ReadLoad(r) \/ ReadWait(r) \/ ReadReload(r) \/ ReadBody(r)

-----------------------------------------------------------------------------
(* The caller: it builds the request, starts the response goroutine and    *)
(* waits in the select at the end of OpenStream.                           *)

CallerFrame ==
  UNCHANGED <<argVars, streamVars, respVars, cpc, readerVars>>

\* An invalid method makes NewRequest fail: nothing was started yet.
BuildFails ==
  /\ callerPc = "build"
  /\ callerPc' = "failed"
  /\ UNCHANGED retAddr
  /\ CallerFrame

StartRequest ==
  /\ callerPc = "build"
  /\ callerPc' = "select"
  /\ respPc' = "do"
  /\ UNCHANGED <<argVars, streamVars, bodyArrived, attempts, tracedAddr, gotConn,
                 clientClosed, retAddr, cpc, readerVars>>

CallerWakes ==
  /\ callerPc = "select"
  /\ gotConn
  /\ callerPc' = "load"
  /\ UNCHANGED retAddr
  /\ CallerFrame

CallerLoads ==
  /\ callerPc = "load"
  /\ callerPc' = "returned"
  /\ retAddr' = tracedAddr
  /\ CallerFrame

CallerGivesUp ==
  /\ callerPc = "select"
  /\ ctxDone
  /\ callerPc' = "returned"
  /\ UNCHANGED retAddr
  /\ CallerFrame

Caller == BuildFails \/ StartRequest \/ CallerWakes \/ CallerLoads \/ CallerGivesUp

-----------------------------------------------------------------------------
RespSet == SetStore \/ SetCheck \/ SetSwap \/ SetCloseBody \/ SetWait

RespDo ==
  \/ GotConnCAS \/ GotConnClose
  \/ DoFails \/ MarkClosed \/ ReleaseCaller
  \/ DoReturns \/ DrainBody \/ RespEnd

Next ==
  \/ CtxCancel
  \/ RespDo
  \/ RespSet
  \/ Caller
  \/ \E c \in CloserThreads : CloseBegin(c) \/ Close(c)
  \/ \E r \in Readers : ReadBegin(r) \/ Read(r)

Spec == Init /\ [][Next]_vars

(***************************************************************************)
(* The Go scheduler runs every goroutine that can run, and client.Do       *)
(* connects or fails within its dial timeout.  Nobody has to call Close or *)
(* Read, to cancel the context or to send data on an open body.            *)
(***************************************************************************)
Fairness ==
  /\ WF_vars(RespDo \/ RespSet)
  /\ WF_vars(Caller)
  /\ \A c \in CloserThreads : WF_vars(Close(c))
  /\ \A r \in Readers : WF_vars(ReadLoad(r) \/ ReadWait(r) \/ ReadReload(r))

FairSpec == Spec /\ Fairness

-----------------------------------------------------------------------------
(* Properties.                                                             *)

RespPcs == {"notStarted", "do", "gotConn", "markClosed", "release", "drain", "closing", "setStore",
            "setCheck", "setSwap", "setBody", "setWait", "end"}

\* The state of an OpenStream call is well formed.
TypeOK ==
  /\ uploadOnly \in BOOLEAN /\ ctxDone \in BOOLEAN
  /\ wait \in BOOLEAN /\ reader \in BOOLEAN
  /\ bodyArrived \in BOOLEAN
  /\ bodyCloses \in Nat
  /\ attempts \in 0 .. MaxAttempts
  /\ tracedAddr \in 1 .. MaxAttempts \cup {None}
  /\ gotConn \in BOOLEAN /\ clientClosed \in BOOLEAN
  /\ callerPc \in {"build", "failed", "select", "load", "returned"}
  /\ retAddr \in 1 .. MaxAttempts \cup {None}
  /\ respPc \in RespPcs
  /\ cpc \in [CloserThreads -> {"idle", "wait", "swap", "body", "done"}]
  /\ rpc \in [Readers -> {"idle", "load", "wait", "reload", "body"}]
  /\ rres \in [Readers -> Results]
  /\ lateRead \in [Readers -> BOOLEAN]

\* The response body is closed exactly once whatever the order of Set and the
\* Close calls: never twice, and it is not orphaned once the response goroutine
\* ended and some Close returned, unless a Close that took it is still at work.
BodyClosedExactlyOnce ==
  /\ bodyCloses <= 1
  /\ (bodyArrived /\ respPc = "end" /\ \A c \in CloserThreads : cpc[c] # "body")
        /\ CloseReturned => bodyCloses = 1

\* OpenStream returns the address of the first attempt, the one that released
\* it, however many attempts client.Do makes.
FirstAttemptWins == retAddr \in {1, None}

\* A download stream whose dial failed has its client marked closed by the time
\* OpenStream returns without an address, so that the pool will not hand the
\* client out again.
DeadClientIsMarked ==
  callerPc = "returned" /\ retAddr = None /\ ~ctxDone /\ ~uploadOnly => clientClosed

\* A Read reports a closed pipe only when somebody called Close: the handover
\* of the body by Set never looks like an end of stream to a waiting reader.
\* And a Read that begins after Close returned, when the body was handed over
\* or given up, does report it and does not reach the body (the comment above
\* WaitReadCloser).
ClosedPipeMeansClose ==
  /\ (\E r \in Readers : rres[r] = "ErrClosedPipe") => \E c \in CloserThreads : cpc[c] # "idle"
  /\ \A r \in Readers : lateRead[r] => rres[r] \in {"none", "ErrClosedPipe"}

\* OpenStream returns: a failed dial releases the caller too.  And a reader that
\* waits for the body is released once Close is called.
OpenStreamReturns ==
  /\ <>(callerPc \in {"returned", "failed"})
  /\ \A r \in Readers :
       (rpc[r] = "wait" /\ \E c \in Closers : cpc[c] # "idle") ~> rpc[r] # "wait"
=============================================================================

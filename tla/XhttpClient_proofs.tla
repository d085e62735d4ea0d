------------------------- MODULE XhttpClient_proofs -------------------------
(***************************************************************************)
(* Proofs about the client's half of an XHTTP connection: OpenStream, for  *)
(* any number of readers, closers and connection attempts; PacketUp, for   *)
(* any writers and sizes; and DeafWatch, for any thresholds.               *)
(***************************************************************************)
EXTENDS OpenStream, PacketUp, DeafWatch, TLAPS

-----------------------------------------------------------------------------
(* OpenStream.  The argument is one of custody.  From the moment client.Do   *)
(* returns a body until it is closed, exactly one party owes its Close: the  *)
(* response goroutine (before SetStore, or after its own swap), the shared   *)
(* pointer, or the one Close call that swapped the pointer out.              *)


RespHolds == respPc \in {"setStore", "drain", "setBody"}
CloserHolds(c) == cpc[c] = "body"

\* At most one party owes the Close, and nobody does once it has happened.
SingleCustody ==
  /\ RespHolds => bodyCloses = 0 /\ ~reader /\ \A c \in CloserThreads : ~CloserHolds(c)
  /\ reader => bodyCloses = 0 /\ \A c \in CloserThreads : ~CloserHolds(c)
  /\ \A c \in CloserThreads : CloserHolds(c) => bodyCloses = 0
  /\ \A c, d \in CloserThreads : CloserHolds(c) /\ CloserHolds(d) => c = d
  /\ bodyCloses \in {0, 1}

\* A body that is not closed is in somebody's custody.
NotOrphaned ==
  bodyArrived /\ bodyCloses = 0 =>
    RespHolds \/ reader \/ \E c \in CloserThreads : CloserHolds(c)

\* Before the body arrives nobody can owe it.
NoBodyYet ==
  /\ callerPc = "build" => respPc = "notStarted"
  /\ respPc \in {"notStarted", "do", "gotConn", "markClosed", "release"} => ~bodyArrived
  /\ ~bodyArrived => /\ bodyCloses = 0 /\ ~reader /\ ~RespHolds
                     /\ \A c \in CloserThreads : ~CloserHolds(c)
  /\ reader => respPc \in {"setCheck", "setSwap", "setWait", "end"}

\* Close closes the wait channel before it swaps, so a body that Set publishes
\* after a Close returned is taken back by the check in Set.
CloseIsNoticed ==
  /\ \A c \in CloserThreads : cpc[c] \in {"swap", "body", "done"} => wait
  /\ CloseReturned /\ reader => respPc \in {"setCheck", "setSwap"}

CustodyInv == TypeOK /\ SingleCustody /\ NotOrphaned /\ NoBodyYet /\ CloseIsNoticed

-----------------------------------------------------------------------------
\* Every step keeps the state well formed.
LEMMA TypeStep == TypeOK /\ [Next]_vars => TypeOK'
<1>. SUFFICES ASSUME TypeOK, [Next]_vars PROVE TypeOK'
  BY Zenon
<1>. USE AttemptsAssumption, NoneAssumption DEF TypeOK, respVars, callerVars, readerVars,
         argVars, streamVars, CloserThreads, RespPcs, Results
<1>1. TypeOK'
  <2>1. CASE CtxCancel
    BY <2>1 DEF CtxCancel
  <2>2. CASE GotConnCAS
    BY <2>2 DEF GotConnCAS, RespStep
  <2>3. CASE GotConnClose
    BY <2>3 DEF GotConnClose, RespStep
  <2>4. CASE DoFails
    BY <2>4 DEF DoFails, RespStep
  <2>5. CASE MarkClosed
    BY <2>5 DEF MarkClosed, RespStep
  <2>6. CASE ReleaseCaller
    BY <2>6 DEF ReleaseCaller, RespStep
  <2>7. CASE DoReturns
    BY <2>7 DEF DoReturns, RespStep
  <2>8. CASE DrainBody
    BY <2>8 DEF DrainBody, RespStep
  <2>9. CASE RespEnd
    BY <2>9 DEF RespEnd, RespStep
  <2>10. CASE SetStore
    BY <2>10 DEF SetStore, SetStep, RespStep
  <2>11. CASE SetCheck
    BY <2>11 DEF SetCheck, SetStep, RespStep
  <2>12. CASE SetSwap
    <3>1. respPc' \in RespPcs
      BY <2>12 DEF SetSwap, SetStep, RespStep
    <3>2. reader' \in BOOLEAN
      BY <2>12, Zenon DEF SetSwap
    <3>. QED
      BY <2>12, <3>1, <3>2 DEF SetSwap, SetStep, RespStep
  <2>13. CASE SetCloseBody
    BY <2>13 DEF SetCloseBody, SetStep, RespStep
  <2>14. CASE SetWait
    BY <2>14 DEF SetWait, SetStep, RespStep
  <2>15. CASE BuildFails \/ CallerWakes
    BY <2>15 DEF BuildFails, CallerWakes, CallerFrame
  <2>16. CASE StartRequest
    BY <2>16 DEF StartRequest
  <2>17. CASE CallerLoads
    BY <2>17 DEF CallerLoads, CallerFrame
  <2>18. CASE CallerGivesUp
    BY <2>18 DEF CallerGivesUp, CallerFrame
  <2>19. CASE \E c \in CloserThreads : CloseBegin(c)
    BY <2>19 DEF CloseBegin, CloseFrame
  <2>20. CASE \E c \in CloserThreads : CloseWait(c)
    BY <2>20 DEF CloseWait, CloseFrame
  <2>21. CASE \E c \in CloserThreads : CloseSwap(c)
    <3>. PICK c \in CloserThreads : CloseSwap(c)
      BY <2>21
    <3>1. cpc' \in [CloserThreads -> {"idle", "wait", "swap", "body", "done"}]
      BY DEF CloseSwap
    <3>2. reader' \in BOOLEAN
      BY Zenon DEF CloseSwap
    <3>. QED
      BY <3>1, <3>2 DEF CloseSwap, CloseFrame
  <2>22. CASE \E c \in CloserThreads : CloseBody(c)
    BY <2>22 DEF CloseBody, CloseFrame
  <2>23. CASE \E r \in Readers : ReadBegin(r)
    BY <2>23 DEF ReadBegin, ReadFrame, CloseReturned
  <2>24. CASE \E r \in Readers : ReadLoad(r)
    BY <2>24 DEF ReadLoad, ReadFrame
  <2>25. CASE \E r \in Readers : ReadWait(r)
    BY <2>25 DEF ReadWait, ReadFrame
  <2>26. CASE \E r \in Readers : ReadReload(r)
    BY <2>26 DEF ReadReload, ReadFrame
  <2>27. CASE \E r \in Readers : ReadBody(r)
    BY <2>27 DEF ReadBody, ReadFrame
  <2>28. CASE UNCHANGED vars
    BY <2>28 DEF vars
  <2>. QED
    BY <2>1, <2>2, <2>3, <2>4, <2>5, <2>6, <2>7, <2>8, <2>9, <2>10, <2>11, <2>12, <2>13, <2>14,
       <2>15, <2>16, <2>17, <2>18, <2>19, <2>20, <2>21, <2>22, <2>23, <2>24, <2>25, <2>26, <2>27,
       <2>28, Zenon DEF Next, RespDo, RespSet, Caller, Close, Read
<1>. QED
  BY <1>1, SMTT(40)

\* The initial states are well formed.
LEMMA TypeInit == Init => TypeOK
<1>. SUFFICES ASSUME Init PROVE TypeOK
  OBVIOUS
<1>. USE AttemptsAssumption, NoneAssumption DEF Init
<1>1. attempts \in 0 .. MaxAttempts /\ tracedAddr = None /\ retAddr = None
  OBVIOUS
<1>2. /\ uploadOnly \in BOOLEAN /\ ctxDone \in BOOLEAN /\ wait \in BOOLEAN
      /\ reader \in BOOLEAN /\ bodyArrived \in BOOLEAN /\ bodyCloses \in Nat
  BY Zenon
<1>3. /\ cpc \in [CloserThreads -> {"idle", "wait", "swap", "body", "done"}]
      /\ rpc \in [Readers -> {"idle", "load", "wait", "reload", "body"}]
      /\ rres \in [Readers -> Results]
      /\ lateRead \in [Readers -> BOOLEAN]
  BY DEF Results
<1>. QED
  BY <1>1, <1>2, <1>3, Zenon DEF TypeOK, RespPcs

\* The state of an OpenStream call is well formed, for any number of readers,
\* closers and attempts.
THEOREM TypeCorrect == Spec => []TypeOK
  BY TypeInit, TypeStep, PTL DEF Spec

-----------------------------------------------------------------------------
\* Every step keeps the body in a single custody.
LEMMA CustodyStep == CustodyInv /\ [Next]_vars => CustodyInv'
<1>. SUFFICES ASSUME CustodyInv, [Next]_vars PROVE CustodyInv'
  OBVIOUS
<1>. DEFINE Inv == SingleCustody /\ NotOrphaned /\ NoBodyYet /\ CloseIsNoticed
<1>1. TypeOK /\ TypeOK'
  BY TypeStep, Zenon DEF CustodyInv
<1>2. Inv'
  <2>. USE <1>1, RespAssumption DEF CustodyInv, SingleCustody, NotOrphaned, NoBodyYet, CloseIsNoticed,
           callerVars, RespHolds, CloserHolds, CloseReturned, TypeOK, CloserThreads
  <2>1. CASE GotConnCAS
    BY <2>1 DEF GotConnCAS, RespStep, streamVars
  <2>2. CASE GotConnClose
    BY <2>2 DEF GotConnClose, RespStep, streamVars
  <2>3. CASE DoFails
    BY <2>3 DEF DoFails, RespStep, streamVars
  <2>4. CASE MarkClosed
    BY <2>4, Zenon DEF MarkClosed, RespStep, streamVars
  <2>5. CASE ReleaseCaller
    BY <2>5 DEF ReleaseCaller, RespStep, streamVars
  <2>6. CASE DoReturns
    BY <2>6, Zenon DEF DoReturns, RespStep, streamVars
  <2>7. CASE DrainBody
    BY <2>7 DEF DrainBody, RespStep, streamVars
  <2>8. CASE RespEnd
    BY <2>8 DEF RespEnd, RespStep, streamVars
  <2>9. CASE SetStore
    BY <2>9 DEF SetStore, SetStep, RespStep, streamVars
  <2>10. CASE SetCheck
    BY <2>10, Zenon DEF SetCheck, SetStep, RespStep, streamVars
  <2>11. CASE SetSwap
    BY <2>11, Zenon DEF SetSwap, SetStep, RespStep, streamVars
  <2>12. CASE SetCloseBody
    BY <2>12 DEF SetCloseBody, SetStep, RespStep, streamVars
  <2>13. CASE SetWait
    BY <2>13, Zenon DEF SetWait, SetStep, RespStep, streamVars
  <2>14. CASE \E c \in CloserThreads : CloseBegin(c)
    BY <2>14 DEF CloseBegin, CloseFrame, respVars, streamVars
  <2>15. CASE \E c \in CloserThreads : CloseWait(c)
    BY <2>15 DEF CloseWait, CloseFrame, respVars, streamVars
  <2>16. CASE \E c \in CloserThreads : CloseSwap(c)
    BY <2>16 DEF CloseSwap, CloseFrame, respVars, streamVars
  <2>17. CASE \E c \in CloserThreads : CloseBody(c)
    BY <2>17 DEF CloseBody, CloseFrame, respVars, streamVars
  <2>18. CASE UNCHANGED <<streamVars, respVars, cpc>> /\ (callerPc' = "build" => callerPc = "build")
    BY <2>18, Zenon DEF streamVars, respVars
  <2>19. CASE StartRequest
    BY <2>19, Zenon DEF StartRequest, streamVars
  <2>20. CASE CtxCancel \/ Caller \/ UNCHANGED vars
    BY <2>18, <2>19, <2>20, Zenon DEF CtxCancel, Caller, BuildFails, CallerWakes, CallerLoads,
       CallerGivesUp, CallerFrame, callerVars, vars
  <2>21. CASE \E r \in Readers : ReadBegin(r) \/ Read(r)
    BY <2>18, <2>21 DEF ReadBegin, Read, ReadLoad, ReadWait, ReadReload, ReadBody, ReadFrame,
       callerVars
  <2>. QED
    BY <2>1, <2>2, <2>3, <2>4, <2>5, <2>6, <2>7, <2>8, <2>9, <2>10, <2>11, <2>12, <2>13, <2>14,
       <2>15, <2>16, <2>17, <2>20, <2>21, Zenon DEF Next, RespDo, RespSet, Close
<1>. QED
  BY <1>1, <1>2 DEF CustodyInv

\* The body is in nobody's custody in the initial states.
LEMMA CustodyInit == Init => CustodyInv
<1>. SUFFICES ASSUME Init PROVE CustodyInv
  OBVIOUS
<1>1. TypeOK
  BY TypeInit
<1>. QED
  BY <1>1 DEF Init, CustodyInv, SingleCustody, NotOrphaned, NoBodyYet, CloseIsNoticed,
     RespHolds, CloserHolds, CloseReturned

\* The response body is closed exactly once, whatever the number and the order
\* of the Close calls and the reads around Set.
THEOREM BodyClosedOnce == Spec => []BodyClosedExactlyOnce
<1>1. CustodyInv => BodyClosedExactlyOnce
  BY SMTT(30) DEF CustodyInv, SingleCustody, NotOrphaned, CloseIsNoticed, RespHolds, CloserHolds,
     BodyClosedExactlyOnce, CloseReturned, TypeOK
<1>. QED
  BY <1>1, CustodyInit, CustodyStep, PTL DEF Spec

-----------------------------------------------------------------------------
(* What OpenStream returns.  The callback publishes an address once, before *)
(* it releases the caller; a failed dial marks the client before it does.   *)

ReturnInv ==
  /\ TypeOK
  /\ tracedAddr = IF attempts = 0 THEN None ELSE 1
  /\ retAddr \in {1, None}
  /\ respPc = "gotConn" => tracedAddr # None
  /\ respPc = "release" => uploadOnly \/ clientClosed
  /\ gotConn /\ tracedAddr = None => uploadOnly \/ clientClosed
  /\ callerPc = "load" => gotConn
  /\ callerPc = "returned" /\ retAddr = None => ctxDone \/ uploadOnly \/ clientClosed

\* Every step keeps what the caller will return consistent with the dial.
LEMMA ReturnStep == ReturnInv /\ [Next]_vars => ReturnInv'
<1>. SUFFICES ASSUME ReturnInv, [Next]_vars PROVE ReturnInv'
  OBVIOUS
<1>1. TypeOK /\ TypeOK'
  BY TypeStep DEF ReturnInv
<1>. USE <1>1, NoneAssumption, AttemptsAssumption DEF ReturnInv, TypeOK, argVars, callerVars
<1>2. CASE GotConnCAS
  BY <1>2 DEF GotConnCAS, RespStep
<1>3. CASE GotConnClose
  BY <1>3, Zenon DEF GotConnClose, RespStep
<1>4. CASE DoFails
  BY <1>4, Zenon DEF DoFails, RespStep
<1>5. CASE MarkClosed
  BY <1>5, Zenon DEF MarkClosed, RespStep
<1>6. CASE ReleaseCaller
  BY <1>6 DEF ReleaseCaller, RespStep
<1>7. CASE DoReturns
  BY <1>7 DEF DoReturns, RespStep
<1>8. CASE DrainBody
  BY <1>8 DEF DrainBody, RespStep
<1>9. CASE RespEnd
  BY <1>9 DEF RespEnd, RespStep
<1>10. CASE RespSet
  BY <1>10 DEF RespSet, SetStore, SetCheck, SetSwap, SetCloseBody, SetWait, SetStep, RespStep
<1>11. CASE BuildFails \/ CallerWakes
  BY <1>11, Zenon DEF BuildFails, CallerWakes, CallerFrame, respVars
<1>12. CASE StartRequest
  BY <1>12, Zenon DEF StartRequest
<1>13. CASE CallerLoads
  BY <1>13, Zenon DEF CallerLoads, CallerFrame, respVars
<1>14. CASE CallerGivesUp
  BY <1>14, Zenon DEF CallerGivesUp, CallerFrame, respVars
<1>15. CASE CtxCancel
  BY <1>15, Zenon DEF CtxCancel, respVars
<1>16. CASE \E c \in CloserThreads : CloseBegin(c) \/ Close(c)
  BY <1>16 DEF CloseBegin, Close, CloseWait, CloseSwap, CloseBody, CloseFrame, respVars
<1>17. CASE \E r \in Readers : ReadBegin(r) \/ Read(r)
  BY <1>17 DEF ReadBegin, Read, ReadLoad, ReadWait, ReadReload, ReadBody, ReadFrame, respVars
<1>18. CASE UNCHANGED vars
  BY <1>18 DEF vars, respVars
<1>. QED
  BY <1>2, <1>3, <1>4, <1>5, <1>6, <1>7, <1>8, <1>9, <1>10, <1>11, <1>12, <1>13, <1>14, <1>15,
     <1>16, <1>17, <1>18, Zenon DEF Next, RespDo, Caller

\* The initial states satisfy the invariant.
LEMMA ReturnInit == Init => ReturnInv
  BY TypeInit DEF Init, ReturnInv

\* However many attempts client.Do makes, OpenStream returns the address of the
\* first one or none.
THEOREM FirstAttempt == Spec => []FirstAttemptWins
<1>1. ReturnInv => FirstAttemptWins
  BY DEF ReturnInv, FirstAttemptWins
<1>. QED
  BY <1>1, ReturnInit, ReturnStep, PTL DEF Spec

\* OpenStream never returns from a failed download dial before the client is
\* marked closed.
THEOREM DeadClient == Spec => []DeadClientIsMarked
<1>1. ReturnInv => DeadClientIsMarked
  BY DEF ReturnInv, DeadClientIsMarked
<1>. QED
  BY <1>1, ReturnInit, ReturnStep, PTL DEF Spec
-----------------------------------------------------------------------------
(* What a reader is told.  Only a Close takes the body away from a reader   *)
(* that was woken: before one begins, Set has published the body when it    *)
(* closes the wait channel, and the body stays.                             *)

CloseStarted == \E c \in CloserThreads : cpc[c] # "idle"

\* A late read cannot reach the body any more.
LateReadRefused(r) ==
  lateRead[r] => /\ respPc = "end" /\ CloseReturned
                 /\ rpc[r] # "body" /\ rres[r] \in {"none", "ErrClosedPipe"}

HandoverInv ==
  /\ wait => CloseStarted \/ (reader /\ respPc = "end")
  /\ respPc \in {"setCheck", "setWait"} => CloseStarted \/ reader
  /\ respPc \in {"setSwap", "setBody"} => CloseStarted
  /\ \A r \in Readers :
       /\ rpc[r] = "reload" => wait
       /\ rres[r] = "ErrClosedPipe" => CloseStarted
       /\ LateReadRefused(r)

\* Every step keeps what a reader is told consistent with the Closes.
LEMMA HandoverStep == CustodyInv /\ HandoverInv /\ [Next]_vars => HandoverInv'
<1>. SUFFICES ASSUME CustodyInv, HandoverInv, [Next]_vars PROVE HandoverInv'
  OBVIOUS
<1>1. TypeOK /\ TypeOK'
  BY TypeStep, Zenon DEF CustodyInv
<1>2. CloseStarted => CloseStarted'
  <2>1. CASE UNCHANGED cpc
    BY <2>1 DEF CloseStarted
  <2>2. CASE \E c \in CloserThreads : CloseBegin(c) \/ Close(c)
    BY <1>1, <2>2 DEF CloseBegin, Close, CloseWait, CloseSwap, CloseBody, CloseStarted, TypeOK
  <2>3. CASE ReleaseCaller \/ DrainBody
    BY <1>1, <2>3 DEF ReleaseCaller, DrainBody, CloseStarted, TypeOK, CloserThreads
  <2>. QED
    BY <2>1, <2>2, <2>3, Zenon DEF Next, RespDo, RespSet, Caller, Read, CtxCancel, GotConnCAS,
       GotConnClose, DoFails,
       MarkClosed, DoReturns, RespEnd, SetStore, SetCheck, SetSwap, SetCloseBody, SetWait, SetStep, BuildFails,
       StartRequest, CallerWakes, CallerLoads, CallerGivesUp, CallerFrame, ReadBegin, ReadLoad, ReadWait,
       ReadReload, ReadBody, ReadFrame, vars
<1>. USE <1>1, <1>2 DEF HandoverInv, LateReadRefused, TypeOK
<1>3. CASE RespDo
  BY <1>3 DEF RespDo, GotConnCAS, GotConnClose, DoFails, MarkClosed, ReleaseCaller, DoReturns,
     DrainBody, RespEnd,
     RespStep, streamVars, readerVars, CloseStarted
<1>4. CASE RespSet
  BY <1>4 DEF RespSet, SetStore, SetCheck, SetSwap, SetCloseBody, SetWait, SetStep, RespStep,
     streamVars, readerVars
<1>5. CASE \E c \in CloserThreads : CloseBegin(c) \/ Close(c)
  BY <1>5 DEF CloseBegin, Close, CloseWait, CloseSwap, CloseBody, CloseFrame, respVars,
     readerVars, streamVars,
     CloseStarted, CloseReturned
<1>6. CASE CtxCancel \/ Caller \/ UNCHANGED vars
  <2>1. CASE StartRequest
    BY <2>1 DEF StartRequest, CustodyInv, NoBodyYet, streamVars, readerVars, CloseReturned
  <2>2. CASE UNCHANGED <<streamVars, respVars, cpc, readerVars>>
    BY <2>2, Zenon DEF streamVars, respVars, readerVars, CloseReturned, CloseStarted
  <2>. QED
    BY <1>6, <2>1, <2>2, Zenon DEF CtxCancel, Caller, BuildFails, CallerWakes, CallerLoads,
       CallerGivesUp,
       CallerFrame, vars
<1>7. CASE \E r \in Readers : ReadBegin(r) \/ Read(r)
  BY <1>7 DEF CustodyInv, CloseIsNoticed, ReadBegin, Read, ReadLoad, ReadWait, ReadReload,
     ReadBody, ReadFrame,
     streamVars, respVars, CloseReturned
<1>. QED
  BY <1>3, <1>4, <1>5, <1>6, <1>7, Zenon DEF Next

\* A waiting reader is told of a closed pipe only if somebody called Close, and a
\* Read that begins after the Close and the handover never reaches the body.
THEOREM ClosedPipe == Spec => []ClosedPipeMeansClose
<1>1. Init => CustodyInv /\ HandoverInv
  BY CustodyInit DEF Init, HandoverInv, LateReadRefused, CloseStarted
<1>2. HandoverInv => ClosedPipeMeansClose
  BY DEF HandoverInv, LateReadRefused, CloseStarted, ClosedPipeMeansClose
<1>. QED
  BY <1>1, <1>2, CustodyStep, HandoverStep, PTL DEF Spec

-----------------------------------------------------------------------------
(* The upload half of the client *)

\* How many bytes the last body reached up to.
Covered == IF bodies = <<>> THEN 0 ELSE bodies[Len(bodies)][2]

\* A writer at the pipe has something to write, the pipe holds no more than a
\* body may have, a pipe that was not interrupted goes on where the last body
\* ended, and a request is written for the first time while the send loop waits
\* for it; only HTTP/1.1 serialises one before that.
UploadInv ==
  /\ accepted \in Nat /\ from \in 0..accepted
  /\ wpc \in [Writers -> {"idle", "try", "signal", "wait"}]
  /\ left \in [Writers -> 0..MaxWrite]
  /\ bodies \in Seq(Nat \X Nat)
  /\ post \in Seq(PostState)
  /\ spc \in {"read", "wait", "send", "written", "end"}
  /\ Len(bodies) = IF spc = "send" THEN Len(post) + 1 ELSE Len(post)
  /\ \A w \in Writers : wpc[w] \in {"try", "wait"} => left[w] > 0
  /\ accepted - from <= MaxUpload
  /\ pstate # "errord" => from = Covered
  /\ BodiesCover
  /\ \A k \in DOMAIN post : post[k] = "writing" => k = Len(post) /\ spc = "written"
  /\ httpVersion # "1.1" => \A k \in DOMAIN post : post[k] # "serialised"

\* The upload starts with nothing written and no body.
LEMMA UploadInitial == UploadInit => UploadInv
BY SizeAssumption DEF UploadInit, UploadInv, Covered, BodiesCover

\* A Write of the pipe, and the writers woken or closed by it.
LEMMA WriterKeeps ==
  ASSUME UploadInv, NEW w \in Writers,
         WriterSteps(w) \/ \E n \in 1..MaxWrite : Write(w, n)
  PROVE  UploadInv'
<1>1. UNCHANGED <<from, pstate, spc, bodies, post, httpVersion>>
  BY DEF WriterSteps, Write, WriteAccepted, WriteBuffer, WriteRefused, WriteBlocked, WriteSignals,
         WriteWakes, pipeVars, loopVars
<1>2. /\ wpc' \in [Writers -> {"idle", "try", "signal", "wait"}]
      /\ left' \in [Writers -> 0..MaxWrite]
      /\ accepted' \in Nat /\ accepted' >= accepted /\ accepted' - from <= MaxUpload
      /\ \A v \in Writers : wpc'[v] \in {"try", "wait"} => left'[v] > 0
  <2>1. /\ wpc \in [Writers -> {"idle", "try", "signal", "wait"}]
        /\ left \in [Writers -> 0..MaxWrite]
        /\ accepted \in Nat /\ from \in Nat /\ accepted - from <= MaxUpload
        /\ \A v \in Writers : wpc[v] \in {"try", "wait"} => left[v] > 0
    BY DEF UploadInv
  <2> USE SizeAssumption
  <2>2. CASE \E n \in 1..MaxWrite : Write(w, n)
    BY <2>1, <2>2 DEF Write, pipeVars
  <2>3. CASE WriteAccepted(w)
    <3>1. NextBuffer(w) \in 1..BufSize /\ NextBuffer(w) <= left[w]
      BY <2>1, <2>3 DEF WriteAccepted, WriteBuffer, NextBuffer
    <3>2. accepted' \in Nat /\ accepted' >= accepted /\ accepted' - from <= MaxUpload
      BY <2>1, <2>3, <3>1 DEF WriteAccepted, WriteBuffer, isFull
    <3>3. wpc' = [wpc EXCEPT ![w] = "signal"] /\ left' = [left EXCEPT ![w] = @ - NextBuffer(w)]
      BY <2>3 DEF WriteAccepted, WriteBuffer
    <3>4. left[w] - NextBuffer(w) \in 0..MaxWrite
      BY <2>1, <3>1
    <3>5. QED
      BY <2>1, <3>2, <3>3, <3>4, Zenon
  <2>4. CASE WriteRefused(w)
    BY <2>1, <2>4 DEF WriteRefused, pipeVars
  <2>5. CASE WriteBlocked(w)
    BY <2>1, <2>5 DEF WriteBlocked, pipeVars
  <2>6. CASE WriteSignals(w)
    BY <2>1, <2>6 DEF WriteSignals, pipeVars
  <2>7. CASE WriteWakes(w)
    BY <2>1, <2>7 DEF WriteWakes, pipeVars
  <2>8. QED
    BY <2>2, <2>3, <2>4, <2>5, <2>6, <2>7 DEF WriterSteps
<1>3. from' \in 0..accepted'
  BY <1>1, <1>2 DEF UploadInv
<1>4. QED
  BY <1>1, <1>2, <1>3, Zenon DEF UploadInv, Covered, BodiesCover

\* The upload loop (client.go): it reads a body off the pipe, numbers it and
\* starts its POST.
LEMMA LoopKeeps ==
  ASSUME UploadInv, LoopSteps
  PROVE  UploadInv'
<1>1. UNCHANGED <<accepted, pstate, wpc, left, httpVersion>>
  BY DEF LoopSteps, LoopReads, LoopWaits, LoopWakes, LoopEnds, LoopPosts, LoopGoesOn, NextRoundIf,
         pipeVars, writerVars
<1>2. CASE LoopReads
  <2>1. /\ bodies' = Append(bodies, <<from, accepted>>) /\ from' = accepted
        /\ post' = post /\ from = Covered /\ accepted > from
        /\ spc' = "send" /\ spc = "read"
    BY <1>2, Zenon DEF LoopReads, UploadInv
  <2>2. /\ accepted \in Nat /\ from \in Nat /\ accepted - from \in 1..MaxUpload
        /\ bodies \in Seq(Nat \X Nat)
    BY <2>1, SizeAssumption, SMTT(40) DEF UploadInv
  <2>3. /\ bodies' \in Seq(Nat \X Nat) /\ Len(bodies') = Len(bodies) + 1
        /\ bodies'[Len(bodies) + 1] = <<from, accepted>>
        /\ \A k \in 1..Len(bodies) : bodies'[k] = bodies[k]
    BY <2>1, <2>2
  <2>4. BodiesCover'
    <3>1. ASSUME NEW k \in 1..Len(bodies) + 1
          PROVE  /\ bodies'[k][1] = (IF k = 1 THEN 0 ELSE bodies'[k - 1][2])
                 /\ bodies'[k][2] - bodies'[k][1] \in 1..MaxUpload
      <4>1. CASE k = Len(bodies) + 1
        BY <2>1, <2>2, <2>3, <4>1 DEF Covered
      <4>2. CASE k \in 1..Len(bodies)
        <5>1. /\ bodies[k][1] = (IF k = 1 THEN 0 ELSE bodies[k - 1][2])
              /\ bodies[k][2] - bodies[k][1] \in 1..MaxUpload
          <6>1. k \in DOMAIN bodies
            BY <2>2, <4>2
          <6>2. QED
            BY <6>1, Zenon DEF UploadInv, BodiesCover
        <5>2. k # 1 => k - 1 \in 1..Len(bodies)
          <6>1. Len(bodies) \in Nat
            BY <2>2
          <6>2. QED
            BY <4>2, <6>1
        <5>3. QED
          BY <2>3, <4>2, <5>1, <5>2, Zenon
      <4>3. QED
        BY <2>2, <4>1, <4>2
    <3>2. DOMAIN bodies' = 1..Len(bodies) + 1
      BY <2>2, <2>3
    <3>3. QED
      BY <3>1, <3>2, Zenon DEF BodiesCover
  <2>5. from' = Covered'
    <3>1. bodies' # <<>>
      BY <2>2, <2>3
    <3>2. bodies'[Len(bodies')] = <<from, accepted>>
      BY <2>3
    <3>3. QED
      BY <2>1, <3>1, <3>2 DEF Covered
  <2>6. Len(bodies') = Len(post') + 1
    BY <2>1, <2>3 DEF UploadInv
  <2>7. from' \in 0..accepted' /\ accepted' - from' <= MaxUpload
    BY <1>1, <2>1, <2>2, SizeAssumption
  <2>8. /\ \A k \in DOMAIN post' : post'[k] # "writing"
        /\ httpVersion' # "1.1" => \A k \in DOMAIN post' : post'[k] # "serialised"
    BY <1>1, <2>1 DEF UploadInv
  <2>9. QED
    BY <1>1, <2>1, <2>3, <2>4, <2>5, <2>6, <2>7, <2>8, Zenon DEF UploadInv
<1>3. CASE LoopWaits \/ LoopWakes \/ LoopEnds \/ LoopGoesOn
  <2>1. /\ UNCHANGED <<from, bodies, post>> /\ spc # "send" /\ spc' \in {"read", "wait", "end"}
        /\ spc = "written" /\ Len(post) # 0 => post[Len(post)] # "writing"
    BY <1>3 DEF LoopWaits, LoopWakes, LoopEnds, LoopGoesOn, NextRoundIf, pipeVars
  <2>2. /\ \A k \in DOMAIN post' : post'[k] # "writing"
        /\ httpVersion' # "1.1" => \A k \in DOMAIN post' : post'[k] # "serialised"
    BY <1>1, <2>1 DEF UploadInv
  <2>3. QED
    BY <1>1, <2>1, <2>2 DEF UploadInv, Covered, BodiesCover
<1>4. CASE LoopPosts
  <2>1. /\ UNCHANGED <<from, bodies>> /\ spc = "send" /\ spc' = "written"
        /\ post' = Append(post, "writing")
    BY <1>4 DEF LoopPosts, pipeVars
  <2>a. /\ post \in Seq(PostState) /\ "writing" \in PostState
        /\ \A k \in DOMAIN post : post[k] # "writing"
        /\ httpVersion # "1.1" => \A k \in DOMAIN post : post[k] # "serialised"
    BY <2>1 DEF UploadInv, PostState
  <2>2. /\ post' \in Seq(PostState) /\ Len(post') = Len(post) + 1
        /\ DOMAIN post' = DOMAIN post \cup {Len(post')}
        /\ post'[Len(post')] = "writing" /\ \A k \in DOMAIN post : post'[k] = post[k]
    BY <2>1, <2>a
  <2>3. /\ \A k \in DOMAIN post' : post'[k] = "writing" => k = Len(post')
        /\ httpVersion' # "1.1" => \A k \in DOMAIN post' : post'[k] # "serialised"
    <3>1. "writing" # "serialised"
      OBVIOUS
    <3>2. QED
      BY <1>1, <2>a, <2>2, <3>1, Zenon
  <2>4. Len(bodies') = Len(post')
    BY <2>1, <2>2 DEF UploadInv
  <2>5. QED
    BY <1>1, <2>1, <2>2, <2>3, <2>4, Zenon DEF UploadInv, Covered, BodiesCover
<1>5. QED
  BY <1>2, <1>3, <1>4 DEF LoopSteps

\* A POST and its failure, which closes the pipe.
LEMMA PostKeeps ==
  ASSUME UploadInv, NEW k \in DOMAIN post, PostSteps(k)
  PROVE  UploadInv'
<1>1. /\ UNCHANGED <<accepted, wpc, left, spc, bodies, httpVersion>>
      /\ \E s \in PostState \ {"writing"} : /\ post' = [post EXCEPT ![k] = s]
                                            /\ s = "serialised" => httpVersion = "1.1"
  <2>1. /\ UNCHANGED <<accepted, wpc, left, spc, bodies, httpVersion>>
        /\ \/ post' = [post EXCEPT ![k] = IF httpVersion = "1.1" THEN "serialised" ELSE "sent"]
           \/ \E s \in {"again", "failing", "failed", "ok"} : post' = [post EXCEPT ![k] = s]
    BY Zenon DEF PostSteps, PostWritten, PostReplays, PostOK, PostErrs, PostInterrupts, SetPost,
       Interrupt, pipeVars, writerVars
  <2>2. QED
    BY <2>1 DEF PostState
<1>2. /\ post' \in Seq(PostState)
      /\ Len(post') = Len(post) /\ DOMAIN post' = DOMAIN post
      /\ \A j \in DOMAIN post : /\ post'[j] = "writing" => post[j] = "writing"
                                /\ post'[j] = "serialised" =>
                                     post[j] = "serialised" \/ httpVersion = "1.1"
  <2>1. PICK s \in PostState \ {"writing"} : /\ post' = [post EXCEPT ![k] = s]
                                             /\ s = "serialised" => httpVersion = "1.1"
    BY <1>1, Zenon
  <2>2. post \in Seq(PostState) /\ s \in PostState /\ s # "writing"
    BY <2>1, Zenon DEF UploadInv
  <2>3. /\ post' \in Seq(PostState) /\ Len(post') = Len(post) /\ DOMAIN post' = DOMAIN post
        /\ \A j \in DOMAIN post : post'[j] = s \/ post'[j] = post[j]
    BY <2>1, <2>2
  <2>4. s = "serialised" => httpVersion = "1.1"
    BY <2>1
  <2>5. QED
    BY <2>2, <2>3, <2>4
<1>3. /\ from' \in 0..accepted /\ accepted - from' <= MaxUpload
      /\ pstate' # "errord" => pstate # "errord" /\ from' = from
  <2>1. CASE PostInterrupts(k)
    BY <2>1, SizeAssumption DEF PostInterrupts, Interrupt, UploadInv
  <2>2. CASE UNCHANGED pipeVars
    BY <2>2 DEF pipeVars, UploadInv
  <2>3. QED
    BY <2>1, <2>2, Zenon DEF PostSteps, PostWritten, PostReplays, PostOK, PostErrs
<1>4. /\ \A j \in DOMAIN post' : post'[j] = "writing" => j = Len(post') /\ spc' = "written"
      /\ httpVersion' # "1.1" => \A j \in DOMAIN post' : post'[j] # "serialised"
  <2>1. /\ \A j \in DOMAIN post : post[j] = "writing" => j = Len(post) /\ spc = "written"
        /\ httpVersion # "1.1" => \A j \in DOMAIN post : post[j] # "serialised"
    BY Zenon DEF UploadInv
  <2>2. spc' = spc /\ httpVersion' = httpVersion
    BY <1>1, Zenon
  <2>3. QED
    BY <1>2, <2>1, <2>2
<1>5. QED
  BY <1>1, <1>2, <1>3, <1>4, ZenonT(40) DEF UploadInv, Covered, BodiesCover

\* PacketUp keeps its inductive invariant, and its variables their types.
THEOREM UploadInvariant == UploadSpec => [](UploadInv /\ UploadTypeOK)
<1>1. UploadInv /\ [UploadNext]_uploadVars => UploadInv'
  <2> SUFFICES ASSUME UploadInv, [UploadNext]_uploadVars
                 PROVE  UploadInv'
    OBVIOUS
  <2>1. CASE CloseCancels \/ ClosePipe
    BY <2>1, Zenon DEF UploadInv, CloseCancels, ClosePipe, pipeVars, sigVars, writerVars,
       loopVars,
                Covered, BodiesCover
  <2>2. CASE UNCHANGED uploadVars
    BY <2>2 DEF UploadInv, uploadVars, pipeVars, sigVars, writerVars, loopVars,
                Covered, BodiesCover
  <2>3. QED
    BY <2>1, <2>2, WriterKeeps, LoopKeeps, PostKeeps DEF UploadNext
<1> DEFINE Flags ==
      /\ pstate \in {"open", "closed", "errord"} /\ done \in BOOLEAN
      /\ readSig \in BOOLEAN /\ writeSig \in BOOLEAN
      /\ closing \in {"no", "cancelled", "closed"} /\ httpVersion \in Versions
<1>2. UploadInit => Flags
  BY Zenon DEF UploadInit
<1>3. Flags /\ [UploadNext]_uploadVars => Flags'
  <2> SUFFICES ASSUME Flags, [UploadNext]_uploadVars
               PROVE  Flags'
    OBVIOUS
  <2> USE DEF pipeVars, sigVars
  <2>1. ASSUME NEW w \in Writers, WriterSteps(w) \/ \E n \in 1..MaxWrite : Write(w, n)
        PROVE  Flags'
    BY <2>1, Zenon DEF WriterSteps, Write, WriteAccepted, WriteBuffer, WriteRefused, WriteBlocked,
                       WriteSignals, WriteWakes
  <2>2. CASE LoopSteps
    BY <2>2, Zenon DEF LoopSteps, LoopReads, LoopWaits, LoopWakes, LoopEnds, LoopPosts,
       LoopGoesOn,
                       NextRoundIf
  <2>3. ASSUME NEW k \in DOMAIN post, PostSteps(k)
        PROVE  Flags'
    BY <2>3, Zenon DEF PostSteps, PostWritten, PostReplays, PostOK, PostErrs, PostInterrupts,
       Interrupt
  <2>4. CASE CloseCancels \/ ClosePipe \/ UNCHANGED uploadVars
    BY <2>4, Zenon DEF CloseCancels, ClosePipe, uploadVars
  <2>5. QED
    BY <2>1, <2>2, <2>3, <2>4, Zenon DEF UploadNext
<1>4. UploadInv => Len(post) = Len(bodies) - (IF spc = "send" THEN 1 ELSE 0)
  BY DEF UploadInv
<1>5. UploadInv /\ Flags => UploadTypeOK
  BY <1>4, Zenon DEF UploadInv, UploadTypeOK
<1>6. QED
  BY UploadInitial, <1>1, <1>2, <1>3, <1>5, PTL DEF UploadSpec

\* The POSTs carry what the pipe accepted in order, without a gap, and within
\* scMaxEachPostBytes, for any sizes that DialContext accepts, any number of
\* writers, and POSTs that fail at any point (pipe.Interrupt).
THEOREM UploadBodies == UploadSpec => []BodiesCover
BY UploadInvariant, PTL DEF UploadInv

\* Over HTTP/2 and 3 the wait for wroteRequest (client.go:594) puts the POSTs on
\* the wire one after another, up to the requests that the transport sends
\* again; for any number of these, of POSTs and of failures.
THEOREM UploadOrder == UploadSpec => []WrittenInOrder
<1>1. UploadInv => WrittenInOrder
  BY Zenon DEF UploadInv, WrittenInOrder, Unwritten
<1>2. QED
  BY <1>1, UploadInvariant, PTL

-----------------------------------------------------------------------------
(* The detector of a deaf download *)

\* The ages and steps have their types.  episodeLogged says that the current
\* silence has its warning, or that a late one took its place; it is stale only
\* between the two stores of noteDownlink.  A check takes no time.
DeafInv ==
  /\ downAge \in 0..OldDown /\ upAge \in 0..OldUp
  /\ phase \in 0..Period /\ logs \in Nat
  /\ watch \in {"wait", "silence", "cas", "done"}
  /\ note \in {"idle", "reset"}
  /\ note = "reset" => downAge = 0 /\ logs = 0
  /\ note = "idle" /\ logs > 0 => episodeLogged
  /\ note = "idle" /\ episodeLogged => logs = 1 \/ late
  /\ watch \in {"silence", "cas"} => phase = 0
  /\ OneWarningPerSilence

\* DeafWatch keeps its inductive invariant, and its variables their types.
THEOREM DeafInvariant == DeafSpec => [](DeafInv /\ DeafTypeOK)
<1> USE TimeAssumption DEF OldDown, OldUp
<1>1. DeafInit => DeafInv
  BY DEF DeafInit, DeafInv, OneWarningPerSilence, DeafAtTick
<1>2. DeafInv /\ [DeafNext]_deafVars => DeafInv'
  <2> SUFFICES ASSUME DeafInv, [DeafNext]_deafVars
                 PROVE  DeafInv'
    OBVIOUS
  <2> USE DEF DeafInv, OneWarningPerSilence, DeafAtTick
  <2>1. CASE Pass
    BY <2>1 DEF Pass, Older
  <2>2. CASE noteDownlink \/ noteDownlinkResets \/ noteUploadProgress
    BY <2>2 DEF noteDownlink, noteDownlinkResets, noteUploadProgress
  <2>3. CASE checkUplink
    BY <2>3 DEF checkUplink
  <2>4. CASE checkSilence
    BY <2>4 DEF checkSilence
  <2>5. CASE checkLogs
    BY <2>5 DEF checkLogs, Warn
  <2>6. CASE runEnds \/ UNCHANGED deafVars
    BY <2>6 DEF runEnds, deafVars
  <2>7. QED
    BY <2>1, <2>2, <2>3, <2>4, <2>5, <2>6 DEF DeafNext
<1> DEFINE Flags == episodeLogged \in BOOLEAN /\ late \in BOOLEAN
<1>3. DeafInit => Flags
  BY Zenon DEF DeafInit
<1>4. Flags /\ [DeafNext]_deafVars => Flags'
  BY Zenon DEF DeafNext, deafVars, Pass, noteDownlink, noteDownlinkResets, noteUploadProgress,
               checkUplink, checkSilence, checkLogs, Warn, runEnds
<1>5. DeafInv /\ Flags => DeafTypeOK
  BY Zenon DEF DeafInv, DeafTypeOK
<1>6. QED
  BY <1>1, <1>2, <1>3, <1>4, <1>5, PTL DEF DeafSpec

\* A silence that a tick finds deaf gets exactly one warning, whatever the
\* thresholds and the period of the ticker are (deafWatch.check).
THEOREM DeafWarnsOnce == DeafSpec => []OneWarningPerSilence
<1>1. DeafInv => OneWarningPerSilence
  BY DEF DeafInv
<1>2. QED
  BY <1>1, DeafInvariant, PTL

=============================================================================

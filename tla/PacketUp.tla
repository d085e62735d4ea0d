------------------------------ MODULE PacketUp ------------------------------
(***************************************************************************)
(* The upload half of a packet-up connection on the client: writers split  *)
(* their data into buffers and put them into a bounded pipe (writer.go and *)
(* common/xray/pipe), the send loop takes everything the pipe holds as the *)
(* body of the next numbered POST (client.go), and a POST that fails       *)
(* interrupts the pipe.                                                    *)
(*                                                                         *)
(* The bytes are numbered in the order the pipe accepts them; the pipe     *)
(* holds the bytes after `from` up to `accepted`.  Which HTTP client sends *)
(* a POST is the business of XmuxManager.                                  *)
(***************************************************************************)
EXTENDS Integers, Sequences, Functions

CONSTANTS Writers,     \* goroutines that call conn.Write
          BufSize,     \* buf.Size
          MaxUpload,   \* scMaxEachPostBytes
          MaxWrite,    \* the longest Write
          Versions,    \* the HTTP versions that decideHTTPVersion may choose
          MaxBytes     \* bound: the bytes of all Writes that the pipe accepts

\* DialContext refuses a scMaxEachPostBytes that is not above buf.Size.
ASSUME SizeAssumption ==
  /\ BufSize \in Nat \ {0} /\ MaxUpload \in Nat /\ MaxUpload > BufSize
  /\ MaxWrite \in Nat /\ MaxBytes \in Nat
ASSUME VersionAssumption == Versions \subseteq {"1.1", "2", "3"}

VARIABLES
  accepted,  \* bytes the pipe has accepted
  from,      \* bytes that have left it again
  pstate,    \* the pipe's state: open, closed, errord
  done,      \* its done channel is closed
  readSig, writeSig,   \* its Notifiers hold a signal
  wpc,       \* a writer: idle, try, signal, wait
  left,      \* what its Write has left
  spc,       \* the send loop: read, wait, send, written, end
  bodies,    \* the POSTs begun, by sequence number: the bytes <<from, to>>
  post,      \* each of them, see PostState
  closing,   \* conn.Close: no, cancelled (onClose has run), closed
  httpVersion    \* the HTTP version of the connection's clients

pipeVars == <<accepted, from, pstate, done>>
sigVars == <<readSig, writeSig>>
writerVars == <<wpc, left>>
loopVars == <<spc, bodies, post>>
uploadVars == <<pipeVars, sigVars, writerVars, loopVars, closing, httpVersion>>

UploadInit ==
  /\ accepted = 0 /\ from = 0
  /\ pstate = "open" /\ done = FALSE
  /\ readSig = FALSE /\ writeSig = FALSE
  /\ wpc = [w \in Writers |-> "idle"] /\ left = [w \in Writers |-> 0]
  /\ spc = "read" /\ bodies = <<>> /\ post = <<>>
  /\ closing = "no"
  /\ httpVersion \in Versions

-----------------------------------------------------------------------------
(* uploadWriter.Write and pipe.WriteMultiBuffer *)

\* What the Writes under way have left.
Pending == FoldFunction(+, 0, left)

Write(w, n) ==
  /\ wpc[w] = "idle"
  /\ accepted + Pending + n <= MaxBytes
  /\ wpc' = [wpc EXCEPT ![w] = "try"]
  /\ left' = [left EXCEPT ![w] = n]
  /\ UNCHANGED <<pipeVars, sigVars, loopVars, closing, httpVersion>>

\* The pipe's limit leaves room for the one buffer that may exceed it.
isFull == accepted - from > MaxUpload - BufSize

WriteBuffer(w, n) ==
  /\ wpc[w] = "try"
  /\ pstate = "open" /\ ~isFull
  /\ accepted' = accepted + n
  /\ left' = [left EXCEPT ![w] = @ - n]
  /\ wpc' = [wpc EXCEPT ![w] = "signal"]
  /\ UNCHANGED <<from, pstate, done, sigVars, loopVars, closing, httpVersion>>

NextBuffer(w) == IF left[w] < BufSize THEN left[w] ELSE BufSize

\* A buffer goes into the pipe; its length was read before.
WriteAccepted(w) == WriteBuffer(w, NextBuffer(w))

\* The pipe was closed or interrupted: Write returns the error.
WriteRefused(w) ==
  /\ wpc[w] = "try" /\ pstate # "open"
  /\ left' = [left EXCEPT ![w] = 0]
  /\ wpc' = [wpc EXCEPT ![w] = "signal"]
  /\ UNCHANGED <<pipeVars, sigVars, loopVars, closing, httpVersion>>

WriteBlocked(w) ==
  /\ wpc[w] = "try"
  /\ pstate = "open" /\ isFull
  /\ wpc' = [wpc EXCEPT ![w] = "wait"]
  /\ UNCHANGED <<pipeVars, sigVars, left, loopVars, closing, httpVersion>>

WriteReturnsSilently(w) ==
  /\ wpc[w] = "signal"
  /\ wpc' = [wpc EXCEPT ![w] = IF left[w] = 0 THEN "idle" ELSE "try"]
  /\ UNCHANGED <<pipeVars, sigVars, left, loopVars, closing, httpVersion>>

\* readSignal.Signal(), then the next buffer or the end of Write.
WriteSignals(w) ==
  /\ wpc[w] = "signal"
  /\ readSig' = TRUE
  /\ wpc' = [wpc EXCEPT ![w] = IF left[w] = 0 THEN "idle" ELSE "try"]
  /\ UNCHANGED <<pipeVars, writeSig, left, loopVars, closing, httpVersion>>

WriteWakes(w) ==
  /\ wpc[w] = "wait"
  /\ \/ /\ writeSig /\ writeSig' = FALSE
        /\ wpc' = [wpc EXCEPT ![w] = "try"]
        /\ UNCHANGED left
     \/ /\ done
        /\ wpc' = [wpc EXCEPT ![w] = "idle"]
        /\ left' = [left EXCEPT ![w] = 0]
        /\ UNCHANGED writeSig
  /\ UNCHANGED <<pipeVars, readSig, loopVars, closing, httpVersion>>

-----------------------------------------------------------------------------
(* The send loop and pipe.ReadMultiBuffer *)

\* The pipe holds data: take all of it as the next body.
LoopReads ==
  /\ spc = "read" /\ pstate # "errord" /\ accepted > from
  /\ bodies' = Append(bodies, <<from, accepted>>)
  /\ from' = accepted
  /\ spc' = "send"
  /\ UNCHANGED <<accepted, pstate, done, sigVars, writerVars, post, closing, httpVersion>>

LoopWaits ==
  /\ spc = "read" /\ pstate = "open" /\ accepted = from
  /\ spc' = "wait"
  /\ UNCHANGED <<pipeVars, sigVars, writerVars, bodies, post, closing, httpVersion>>

LoopWakes ==
  /\ spc = "wait"
  /\ \/ readSig /\ readSig' = FALSE
     \/ done /\ UNCHANGED readSig
  /\ spc' = "read"
  /\ UNCHANGED <<pipeVars, writeSig, writerVars, bodies, post, closing, httpVersion>>

\* The pipe is interrupted, or closed and drained: the loop is left.
LoopEnds ==
  /\ spc = "read"
  /\ pstate = "errord" \/ (pstate = "closed" /\ accepted = from)
  /\ writeSig' = TRUE
  /\ spc' = "end"
  /\ UNCHANGED <<pipeVars, readSig, writerVars, bodies, post, closing, httpVersion>>

\* writeSignal.Signal(), and the goroutine of the POST starts.
LoopPosts ==
  /\ spc = "send"
  /\ writeSig' = TRUE
  /\ post' = Append(post, "writing")
  /\ spc' = "written"
  /\ UNCHANGED <<pipeVars, readSig, writerVars, bodies, closing, httpVersion>>

NextRoundIf(goOn) ==
  /\ spc = "written" /\ goOn
  /\ spc' = "read"
  /\ UNCHANGED <<pipeVars, sigVars, writerVars, bodies, post, closing, httpVersion>>

LoopGoesOnCancelled == NextRoundIf(post[Len(post)] # "writing" \/ closing # "no")

\* <-wroteRequest.Wait(): the request was written, or PostPacket returned.
LoopGoesOn == NextRoundIf(post[Len(post)] # "writing")

-----------------------------------------------------------------------------
(* The POST goroutines *)

SetPost(k, state) == post' = [post EXCEPT ![k] = state]

\* The WroteRequest hook.  Over HTTP/2 and 3 the request has been written, or an
\* attempt was cut off that may be repeated: the hook does not look at its
\* error.  Over HTTP/1.1 it is in a buffer, and no connection has it yet.
PostWritten(k) ==
  /\ post[k] \in {"writing", "again"}
  /\ SetPost(k, IF httpVersion = "1.1" THEN "serialised" ELSE "sent")
  /\ UNCHANGED <<pipeVars, sigVars, writerVars, spc, bodies, closing, httpVersion>>

\* The server did not process the request (GOAWAY, REFUSED_STREAM, or
\* H3_REQUEST_REJECTED): the transport takes the body from GetBody and sends it
\* again, while the send loop is past it.
PostReplays(k) ==
  /\ post[k] = "sent"
  /\ SetPost(k, "again")
  /\ UNCHANGED <<pipeVars, sigVars, writerVars, spc, bodies, closing, httpVersion>>

\* PostPacket returns nil: the server answered 200, over HTTP/1.1 a connection
\* took the request, whose answer is left to a later POST.
PostOK(k) ==
  /\ post[k] \in IF httpVersion = "1.1" THEN {"serialised"} ELSE {"writing", "sent", "again"}
  /\ SetPost(k, "ok")
  /\ UNCHANGED <<pipeVars, sigVars, writerVars, spc, bodies, closing, httpVersion>>

\* PostPacket fails, over HTTP/1.1 by its dial, by its write or by the answer to
\* an earlier POST; wroteRequest is closed before the pipe is interrupted.
PostErrs(k) ==
  /\ post[k] \in {"writing", "serialised", "sent", "again"}
  /\ SetPost(k, "failing")
  /\ UNCHANGED <<pipeVars, sigVars, writerVars, spc, bodies, closing, httpVersion>>

InterruptDropsData ==
  /\ from' = accepted
  /\ pstate' = IF accepted > from THEN pstate ELSE "errord"
  /\ done' = TRUE
  /\ UNCHANGED accepted

\* pipe.Interrupt drops the data; a pipe that was closed and drained stays
\* as it is.
Interrupt ==
  /\ from' = accepted
  /\ pstate' = IF pstate = "closed" /\ accepted = from THEN "closed" ELSE "errord"
  /\ done' = TRUE
  /\ UNCHANGED accepted

PostInterrupts(k) ==
  /\ post[k] = "failing"
  /\ SetPost(k, "failed")
  /\ Interrupt
  /\ UNCHANGED <<sigVars, writerVars, spc, bodies, closing, httpVersion>>

-----------------------------------------------------------------------------
(* conn.Close *)

\* onClose cancels uploadCtx, on which every POST runs.
CloseCancels ==
  /\ closing = "no"
  /\ closing' = "cancelled"
  /\ UNCHANGED <<pipeVars, sigVars, writerVars, loopVars, httpVersion>>

\* pipe.Close.
ClosePipe ==
  /\ closing = "cancelled"
  /\ closing' = "closed"
  /\ pstate' = IF pstate = "open" THEN "closed" ELSE pstate
  /\ done' = TRUE
  /\ UNCHANGED <<accepted, from, sigVars, writerVars, loopVars, httpVersion>>

-----------------------------------------------------------------------------
WriterSteps(w) ==
  \/ WriteAccepted(w) \/ WriteRefused(w) \/ WriteBlocked(w)
  \/ WriteSignals(w) \/ WriteWakes(w)

LoopSteps == LoopReads \/ LoopWaits \/ LoopWakes \/ LoopEnds \/ LoopPosts \/ LoopGoesOn

PostSteps(k) ==
  PostWritten(k) \/ PostReplays(k) \/ PostOK(k) \/ PostErrs(k) \/ PostInterrupts(k)

UploadNext ==
  \/ \E w \in Writers : WriterSteps(w) \/ \E n \in 1..MaxWrite : Write(w, n)
  \/ LoopSteps
  \/ \E k \in DOMAIN post : PostSteps(k)
  \/ CloseCancels \/ ClosePipe

UploadSpec == UploadInit /\ [][UploadNext]_uploadVars

\* Goroutines run; a POST is written, answered or given up; a Close that has
\* begun goes on to the pipe.  A wake-up and a Close are all that a goroutine
\* may wait for: nobody has to Write or Close.
UploadLiveSpec ==
  /\ UploadSpec
  /\ \A w \in Writers : WF_uploadVars(WriterSteps(w))
  /\ WF_uploadVars(LoopSteps)
  /\ \A k \in 1..MaxBytes :
       WF_uploadVars(k \in DOMAIN post /\ PostSteps(k))
  /\ WF_uploadVars(ClosePipe)

-----------------------------------------------------------------------------
PostState == {"writing", "serialised", "sent", "again", "failing", "failed", "ok"}

UploadTypeOK ==
  /\ accepted \in Nat /\ from \in 0..accepted
  /\ pstate \in {"open", "closed", "errord"} /\ done \in BOOLEAN
  /\ readSig \in BOOLEAN /\ writeSig \in BOOLEAN
  /\ wpc \in [Writers -> {"idle", "try", "signal", "wait"}]
  /\ left \in [Writers -> 0..MaxWrite]
  /\ spc \in {"read", "wait", "send", "written", "end"}
  /\ bodies \in Seq(Nat \X Nat)
  /\ post \in Seq(PostState)
  /\ Len(post) = Len(bodies) - (IF spc = "send" THEN 1 ELSE 0)
  /\ closing \in {"no", "cancelled", "closed"}
  /\ httpVersion \in Versions

\* The POSTs carry the accepted bytes in the order of their numbers without a
\* gap: no POST begins with bytes behind ones that an Interrupt dropped.  And no
\* body exceeds scMaxEachPostBytes, which the server refuses, although the pipe
\* accepts a buffer before it looks at its size.
BodiesCover ==
  \A k \in DOMAIN bodies :
    /\ bodies[k][1] = (IF k = 1 THEN 0 ELSE bodies[k - 1][2])
    /\ bodies[k][2] - bodies[k][1] \in 1..MaxUpload

\* No connection has the request in full, and none had.
Unwritten(k) == post[k] \in {"writing", "serialised"}

\* Over HTTP/2 and 3 no POST begins before the first attempt at every earlier one
\* is over, after a Close too: the wait for wroteRequest puts the POSTs on the
\* wire in the order of their numbers, and what is written behind a later one is
\* a request that the transport sends again.  Over HTTP/1.1 nothing orders them.
WrittenInOrder == httpVersion # "1.1" => \A k \in DOMAIN post : Unwritten(k) => k = Len(post)

\* A Write returns, though it waited for room, and several of them did; what the
\* pipe accepted is taken for a POST, unless an Interrupt drops it; and a Close
\* or a failed POST ends the send loop.
UploadGoesOn ==
  /\ \A w \in Writers : wpc[w] # "idle" ~> wpc[w] = "idle"
  /\ accepted > from ~> accepted = from
  /\ closing # "no" \/ (\E k \in DOMAIN post : post[k] = "failed") ~> spc = "end"
=============================================================================

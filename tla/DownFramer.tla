----------------------------- MODULE DownFramer -----------------------------
(***************************************************************************)
(* The framing of the download stream (framer.go, negotiated in dialer.go  *)
(* and server.go).  The server turns every Write of the proxied connection *)
(* into data records, a keepalive goroutine puts padding records into the  *)
(* pauses, and the client strips the records again.  The response may be   *)
(* cut at any byte on its way.                                             *)
(*                                                                         *)
(* A byte is a number below 2 * Base; those from Base on have the          *)
(* continuation bit of a uvarint (Base is 128 on the wire).  Byte i of the *)
(* proxied stream is i % (2 * Base), so that payload taken for a header,   *)
(* or a header taken for payload, shows.                                   *)
(***************************************************************************)
EXTENDS Integers, Sequences, FiniteSetsExt

CONSTANTS Base,        \* 128: what one byte of a uvarint carries
          MaxRecord,   \* maxFrameRecord
          MaxWrite,    \* the longest Write of the proxied connection
          PadLens,     \* the lengths of the padding (xPaddingBytes)
          Intervals,   \* what scStreamDownServerSecs.Rand() returns
          BufLens,     \* the lengths of the buffers given to Read
          HeaderCut,   \* a CDN may drop the confirming header
          MaxWire      \* bound: nothing is written from this wire length on

ASSUME FrameAssumption ==
  /\ Base \in Nat \ {0, 1} /\ MaxRecord \in Nat \ {0}
  /\ MaxWrite \in Nat /\ MaxWire \in Nat /\ HeaderCut \in BOOLEAN
  /\ PadLens \subseteq Nat /\ BufLens \subseteq Nat \ {0}
  /\ Intervals \subseteq Nat /\ \E i \in Intervals : i > 0 /\ \A j \in Intervals : j <= i

Data == 0
Padding == 1

VARIABLES
  framed,    \* the server frames this response
  strips,    \* the client strips records from it
  sent,      \* how many bytes of the proxied stream are on the wire
  left,      \* what the Write that holds mu has left to frame; -1: mu is free
  isOpen,    \* httpServerConn is not Done
  timer,     \* seconds until the keepalive timer fires; -1: goroutine gone
  interval,  \* what it was set to
  dataAge,   \* seconds since lastWrite
  quiet,     \* history: seconds since anything went on the wire
  wire,      \* the response body
  ends,      \* history: the lengths of wire at which a record ends
  eof,       \* the body ends here: closed by the server or cut
  pos,       \* how much of wire the client has taken
  rpc,       \* the reader: idle, header, skip, payload; or eof, short, large
  acc, weight, \* the uvarint it is reading
  remaining, \* unread bytes of its record
  out        \* the bytes delivered to the application

timeVars == <<timer, interval, dataAge, quiet>>
serverVars == <<sent, left, isOpen, timeVars, wire, ends, eof>>
readerVars == <<pos, rpc, acc, weight, remaining, out>>
frameVars == <<framed, strips, serverVars, readerVars>>

Longest == Max(Intervals)

\* The client's marker, the operator's switch and the confirming header: the
\* server frames when asked and enabled, the client strips when it asked and
\* sees the confirmation.
NegotiateUnconfirmed ==
  \E asked, enabled \in BOOLEAN :
    /\ framed = (asked /\ enabled)
    /\ strips = asked

Negotiate ==
  \E asked, enabled, dropped \in BOOLEAN :
    /\ dropped => HeaderCut
    /\ framed = (asked /\ enabled)
    /\ strips = (asked /\ framed /\ ~dropped)

\* An interval of zero ends the keepalive goroutine.
Armed(i) == IF i = 0 THEN -1 ELSE i

FrameInit ==
  /\ Negotiate
  /\ sent = 0 /\ left = -1 /\ isOpen = TRUE
  /\ interval \in Intervals /\ timer = Armed(interval)
  /\ dataAge = 0 /\ quiet = 0
  /\ wire = <<>> /\ ends = {0} /\ eof = FALSE
  /\ pos = 0 /\ rpc = "idle" /\ acc = 0 /\ weight = 1 /\ remaining = 0
  /\ out = <<>>

-----------------------------------------------------------------------------
(* The server *)

StreamBytes(from, n) == [i \in 1..n |-> (from + i - 1) % (2 * Base)]

\* binary.PutUvarint.
Uvarint[v \in Nat] ==
  IF v < Base THEN <<v>> ELSE <<Base + (v % Base)>> \o Uvarint[v \div Base]

appendRecord(kind, payload) == Uvarint[2 * Len(payload) + kind] \o payload

\* One Write of httpServerConn, which is open.
WriteOut(bytes) ==
  /\ wire' = wire \o bytes
  /\ ends' = ends \cup {Len(wire')}
  /\ quiet' = 0
  /\ UNCHANGED <<isOpen, eof>>

\* The proxied connection writes n bytes.  Unframed they go out as they are;
\* framed, Write takes mu first.
Write(n) ==
  /\ left = -1 /\ isOpen /\ Len(wire) < MaxWire
  /\ IF framed
     THEN left' = n /\ UNCHANGED <<sent, isOpen, timeVars, wire, ends, eof>>
     ELSE /\ WriteOut(StreamBytes(sent, n))
          /\ sent' = sent + n
          /\ UNCHANGED <<left, timer, interval, dataAge>>
  /\ UNCHANGED <<framed, strips, readerVars>>

WriteRecordOf(n) ==
  /\ left >= 0 /\ isOpen
  /\ WriteOut(appendRecord(Data, StreamBytes(sent, n)))
  /\ sent' = sent + n
  /\ dataAge' = 0
  /\ left' = IF left = n THEN -1 ELSE left - n
  /\ UNCHANGED <<framed, strips, timer, interval, readerVars>>

\* One round of the loop in downFramer.Write.
WriteRecord == WriteRecordOf(Min({left, MaxRecord}))

\* httpServerConn was closed meanwhile: Write returns the error.
WriteFails ==
  /\ left >= 0 /\ ~isOpen
  /\ left' = -1
  /\ UNCHANGED <<framed, strips, sent, isOpen, timeVars, wire, ends, eof, readerVars>>

Rearm == interval' \in Intervals /\ timer' = Armed(interval')

PadAfter(due, n) ==
  /\ framed /\ isOpen /\ left = -1
  /\ timer = 0
  /\ IF due
     THEN WriteOut(appendRecord(Padding, [i \in 1..Min({n, MaxRecord}) |-> Base + 1]))
     ELSE UNCHANGED <<isOpen, quiet, wire, ends, eof>>
  /\ Rearm
  /\ UNCHANGED <<framed, strips, sent, left, dataAge, readerVars>>

WritePaddingLater(n) == PadAfter(dataAge > interval, n)

\* The timer fires: WritePadding, unless data went out within the interval,
\* and the next round of the goroutine.
WritePadding(n) == PadAfter(dataAge >= interval, n)

\* A second passes.  Writes take no time and a due timer fires first.
Pass ==
  /\ framed /\ isOpen /\ left = -1 /\ Len(wire) < MaxWire
  /\ timer # 0
  /\ timer' = IF timer > 0 THEN timer - 1 ELSE timer
  /\ dataAge' = Min({dataAge + 1, 2 * Longest})
  /\ quiet' = Min({quiet + 1, 2 * Longest})
  /\ UNCHANGED <<framed, strips, sent, left, isOpen, interval, wire, ends, eof, readerVars>>

\* The connection is closed, which does not wait for mu, and the handler
\* returns.
Close ==
  /\ isOpen
  /\ isOpen' = FALSE /\ eof' = TRUE
  /\ UNCHANGED <<framed, strips, sent, left, timeVars, wire, ends, readerVars>>

\* The response is cut on its way: what follows some byte of it is lost, and
\* the server's context is cancelled.
Cut ==
  /\ isOpen
  /\ \E k \in pos .. Len(wire) : wire' = SubSeq(wire, 1, k)
  /\ isOpen' = FALSE /\ eof' = TRUE
  /\ UNCHANGED <<framed, strips, sent, left, timeVars, ends, readerVars>>

-----------------------------------------------------------------------------
(* The client's reader *)

Available == Len(wire) - pos

\* The body has ended and everything of it was taken.
AtEnd == eof /\ Available = 0

\* Read returns an error; the application stops reading.
Fail(how) ==
  /\ rpc' = how
  /\ UNCHANGED <<pos, acc, weight, remaining, out>>

\* Read returns n bytes of the body.
Deliver(n) ==
  /\ out' = out \o SubSeq(wire, pos + 1, pos + n)
  /\ pos' = pos + n
  /\ rpc' = "idle"

\* The application calls Read.  A raw body is handed on as it comes.
Read ==
  /\ rpc = "idle"
  /\ IF strips
     THEN /\ rpc' = IF remaining = 0 THEN "header" ELSE "payload"
          /\ acc' = 0 /\ weight' = 1
          /\ UNCHANGED <<pos, remaining, out>>
     ELSE \/ AtEnd /\ Fail("eof")
          \/ /\ \E size \in BufLens : \E n \in 1 .. Min({size, Available}) : Deliver(n)
             /\ UNCHANGED <<acc, weight, remaining>>
  /\ UNCHANGED <<framed, strips, serverVars>>

RecordOnce(hdr) ==
  LET length == hdr \div 2
  IN  /\ remaining' = length
      /\ rpc' = IF length > MaxRecord THEN "large"
                ELSE IF hdr % 2 = Padding THEN "skip" ELSE "payload"
      /\ acc' = 0 /\ weight' = 1

\* The last byte of a header: look at the record's length and kind.
Record(hdr) ==
  LET length == hdr \div 2
  IN  /\ remaining' = length
      /\ rpc' = IF length > MaxRecord THEN "large"
                ELSE IF hdr % 2 = Padding THEN "skip"
                ELSE IF length = 0 THEN "header" ELSE "payload"
      /\ acc' = 0 /\ weight' = 1

\* binary.ReadUvarint, a byte at a time; it reports a clean end only before
\* the first byte.
ReadHeader ==
  /\ rpc = "header"
  /\ \/ AtEnd /\ Fail(IF weight = 1 THEN "eof" ELSE "short")
     \/ /\ Available > 0
        /\ pos' = pos + 1
        /\ LET b == wire[pos + 1]
           IN IF b < Base
              THEN Record(acc + b * weight)
              ELSE /\ acc' = acc + (b - Base) * weight
                   /\ weight' = weight * Base
                   /\ UNCHANGED <<rpc, remaining>>
        /\ UNCHANGED out
  /\ UNCHANGED <<framed, strips, serverVars>>

SkipUntil(how) ==
  /\ rpc = "skip"
  /\ \/ remaining > 0 /\ AtEnd /\ Fail(how)
     \/ /\ remaining > 0 /\ Available > 0
        /\ pos' = pos + 1 /\ remaining' = remaining - 1
        /\ UNCHANGED <<rpc, acc, weight, out>>
     \/ /\ remaining = 0
        /\ rpc' = "header"
        /\ UNCHANGED <<pos, acc, weight, remaining, out>>
  /\ UNCHANGED <<framed, strips, serverVars>>

SkipPaddingEOF == SkipUntil("eof")

\* io.CopyN to io.Discard; an end inside the padding is unexpected.
SkipPadding == SkipUntil("short")

\* br.Read into the application's buffer, up to the end of the record.
ReadPayload ==
  /\ rpc = "payload"
  /\ \/ AtEnd /\ Fail("short")
     \/ \E size \in BufLens : \E n \in 1 .. Min({size, remaining, Available}) :
          /\ Deliver(n)
          /\ remaining' = remaining - n
          /\ UNCHANGED <<acc, weight>>
  /\ UNCHANGED <<framed, strips, serverVars>>

ReaderSteps == Read \/ ReadHeader \/ SkipPadding \/ ReadPayload

FrameNext ==
  \/ \E n \in 0..MaxWrite : Write(n)
  \/ WriteRecord \/ WriteFails
  \/ \E n \in PadLens : WritePadding(n)
  \/ Pass \/ Close \/ Cut
  \/ ReaderSteps

FrameSpec == FrameInit /\ [][FrameNext]_frameVars

\* The bytes on the wire arrive, and the application keeps reading.
FrameLiveSpec == FrameSpec /\ WF_frameVars(ReaderSteps) /\ WF_frameVars(WriteRecord)

-----------------------------------------------------------------------------
FrameTypeOK ==
  /\ {framed, strips, isOpen, eof} \subseteq BOOLEAN
  /\ sent \in Nat /\ left \in -1 .. MaxWrite
  /\ interval \in Intervals /\ timer \in -1 .. interval
  /\ dataAge \in 0 .. 2 * Longest /\ quiet \in 0 .. 2 * Longest
  /\ wire \in Seq(0 .. 2 * Base - 1)
  /\ ends \subseteq Nat /\ pos \in 0 .. Len(wire)
  /\ rpc \in {"idle", "header", "skip", "payload", "eof", "short", "large"}
  /\ acc \in Nat /\ weight \in Nat /\ remaining \in Nat
  /\ out \in Seq(0 .. 2 * Base - 1)

\* What the application reads is a prefix of what the proxied connection
\* wrote: no header and no padding leaks in and no byte is lost between,
\* whatever the two sides negotiated and wherever the response is cut.
DeliveredIsPrefix == Len(out) <= sent /\ out = StreamBytes(0, Len(out))

\* A stripping client takes the end of the body for a clean one only where a
\* record ends; an end inside a record is reported as unexpected.
CleanEndIsWhole == strips /\ rpc = "eof" => pos \in ends

\* While the response is open something goes on the wire at least every two
\* keepalive intervals, so that no CDN finds it idle.
SilenceBounded == framed /\ isOpen => quiet < 2 * Longest

\* Everything the proxied connection wrote reaches the application, unless
\* the response is cut.
AllDelivered == []<>(eof \/ Len(out) = sent)
=============================================================================

------------------------------- MODULE Receiver -------------------------------
(***************************************************************************)
(* The receiving half of a tornado_http2 connection: the loop that reads   *)
(* frames and dispatches them (connection.py, _conn_loop and handle_frame) *)
(* and the state machine every stream runs on what it is given (stream.py, *)
(* handle_frame to _handle_window_update_frame).                           *)
(*                                                                         *)
(* One action handles one frame, from the return of _read_frame to the     *)
(* next suspension: the handlers do not suspend, only the loop does, while *)
(* it waits for its RST_STREAM or GOAWAY to be flushed.                    *)
(***************************************************************************)
EXTENDS Integers, SequencesExt

CONSTANTS
  Roles,        \* the values of is_client: TRUE for a client, FALSE for a server
  Ids,          \* bound: the stream identifiers used on the connection
  Lengths,      \* the Content-Length values a peer announces
  Pads,         \* the padding lengths of DATA frames: None, or the pad length byte
  None,
  MaxBody       \* bound: bytes the peer sends on one stream

ASSUME ConstantsAssumption ==
  /\ Roles \subseteq BOOLEAN
  /\ Ids \subseteq Nat \ {0} /\ IsFiniteSet(Ids)
  /\ Lengths \subseteq Nat
  /\ None \notin Int
  /\ Pads \subseteq 0 .. 255 \cup {None}
  /\ MaxBody \in Nat

VARIABLES
  isClient,     \* which end of the connection this is; it never changes
  upgraded,     \* stream 1 is the request of HTTP/1 that asked for this connection,
                \* see Upgrade; it never changes either
  open,         \* conn.stream, the IOStream, is not closed
  loop,         \* what _conn_loop waits for: the client's preface, a frame, or
                \* its own RST_STREAM or GOAWAY to be flushed
  known,        \* the keys of conn.streams
  nextId,       \* next_stream_id
  maxRemote,    \* max_remote_stream_id
  last,         \* last_stream
  stream,       \* the streams, see Stream
  connGranted,  \* bytes returned to the peer's window of the connection
  undecoded     \* history: a header block was discarded before the HPACK decoder

conn == <<isClient, upgraded, known, nextId, maxRemote>>
vars == <<open, loop, conn, last, stream, connGranted, undecoded>>

Stream == [
  phase     : {"HEADERS", "BODY", "TRAILERS"},
  block     : {"none", "small", "large"},  \* _header_frames: large if it exceeds
                                           \* max_header_size
  ending    : BOOLEAN,                     \* END_STREAM flag of its first frame
  remaining : Int \cup {None},             \* _incoming_content_remaining
  started   : BOOLEAN,                     \* _delegate_started
  finished  : BOOLEAN,                     \* finish_future.done()
  pending   : Seq(Nat \ {0}),              \* data whose future is not resolved
  granted   : Nat,                         \* bytes returned to the peer's window
  refused   : BOOLEAN,                     \* a 431 response was written
  \* what the delegate was told
  told      : {"nothing", "headers", "finish"},
  declared  : Nat \cup {None},
  got       : Nat,
  hung      : BOOLEAN,
  body      : Nat]                         \* history: bytes in the peer's DATA frames

NewStream == [
  phase |-> "HEADERS", block |-> "none", ending |-> FALSE, remaining |-> None,
  started |-> FALSE, finished |-> FALSE, pending |-> <<>>, granted |-> 0,
  refused |-> FALSE, told |-> "nothing", declared |-> None, got |-> 0, hung |-> FALSE,
  body |-> 0]

TypeOK ==
  /\ isClient \in Roles
  /\ upgraded \in BOOLEAN
  /\ open \in BOOLEAN
  /\ loop \in {"preface", "reading", "rst", "goaway", "ended"}
  /\ known \subseteq Ids
  /\ nextId \in Nat
  /\ maxRemote \in Ids \cup {0}
  /\ last \in known \cup {None}
  /\ stream \in [Ids -> Stream]
  /\ connGranted \in Nat
  /\ undecoded \in BOOLEAN

\* The connection that switch_protocols makes of a request of HTTP/1 has a stream 1,
\* the only one without a delegate, and this stream is put into conn.streams past
\* the code that counts identifiers.
HasDelegate(s) == ~(upgraded /\ s = 1)

\* A client writes its preface and does not wait for one.  A client that has asked for
\* an upgrade sends nothing before it has the answer.
Init ==
  /\ isClient \in Roles
  /\ open = TRUE
  /\ loop = IF isClient THEN "reading" ELSE "preface"
  /\ upgraded \in BOOLEAN
  /\ upgraded => ~isClient /\ 1 \in Ids
  /\ known = IF upgraded THEN {1} ELSE {}
  /\ nextId = IF isClient THEN 1 ELSE 2
  /\ maxRemote = 0
  /\ last = None
  /\ stream = [s \in Ids |-> NewStream]
  /\ connGranted = 0
  /\ undecoded = FALSE
-----------------------------------------------------------------------------
(* How a handler may end, with the stream left as r.  A closed IOStream     *)
(* still serves the frames it had read before, but takes no more: writing  *)
(* to it raises StreamClosedError, which ends the loop.                    *)

Continue(s, r) ==
  /\ stream' = [stream EXCEPT ![s] = r]
  /\ UNCHANGED <<open, loop>>

\* raise StreamError: the loop writes RST_STREAM and waits for it to be flushed.
FailStream(s, r) ==
  /\ stream' = [stream EXCEPT ![s] = r]
  /\ loop' = IF open THEN "rst" ELSE "ended"
  /\ UNCHANGED open

\* raise ConnectionError: the same with GOAWAY, then the loop ends.
FailConn(s, r) ==
  /\ stream' = [stream EXCEPT ![s] = r]
  /\ loop' = IF open THEN "goaway" ELSE "ended"
  /\ UNCHANGED open

\* Any other exception: the loop closes the connection and ends.
Crash(s, r) ==
  /\ stream' = [stream EXCEPT ![s] = r]
  /\ loop' = "ended"
  /\ open' = FALSE

\* The same where no stream changes.
Ignore == UNCHANGED <<open, loop, stream>>
Reject == UNCHANGED <<open, stream>> /\ loop' = IF open THEN "goaway" ELSE "ended"
Stop == UNCHANGED stream /\ loop' = "ended" /\ open' = FALSE
-----------------------------------------------------------------------------
(* Stream: header blocks.                                                  *)

\* Mutant: _delegate_started is not reset.
MutantEndStream(r) ==
  [r EXCEPT !.finished = TRUE, !.told = IF r.started THEN "finish" ELSE @]

EndStream(r) ==
  [r EXCEPT !.started = FALSE, !.finished = TRUE,
            !.told = IF r.started THEN "finish" ELSE @]

MaybeEndStream(s, r, end) ==
  \/ ~end /\ Continue(s, r)
  \/ end /\ r.remaining \notin {None, 0} /\ FailStream(s, r)
  \/ end /\ r.remaining \in {None, 0} /\ Continue(s, EndStream(r))

\* The delegate gets the headers.  An announced length replaces the one of an
\* interim response, and no announced length keeps that.  A response to HEAD and
\* a 304 count as announcing 0.
StartRequest(r, length, interim) ==
  [r EXCEPT !.remaining = IF length = None THEN @ ELSE length,
            !.phase = IF interim THEN @ ELSE "BODY",
            !.started = TRUE, !.told = "headers", !.declared = length]

\* _parse_headers.  The headers themselves are abstracted to what becomes of
\* them: they may break HPACK, a rule of HTTP/2, or the code that converts them,
\* and they do break the code that hands them on where there is no delegate.
ParseHeaders(s, r) ==
  LET parsed == [r EXCEPT !.block = "none"]
  IN  \/ FailConn(s, parsed)
      \/ FailStream(s, parsed)
      \/ Crash(s, parsed)
      \/ /\ r.phase = "HEADERS"
         /\ HasDelegate(s)
         /\ \E length \in Lengths \cup {None}, interim \in {FALSE, isClient} :
              MaybeEndStream(s, StartRequest(parsed, length, interim), r.ending)
      \/ /\ r.phase = "TRAILERS"
         /\ r.ending
         /\ MaybeEndStream(s, parsed, TRUE)

\* _check_header_length has answered a block that is too large: a client's
\* delegate is told that the connection closed, a server writes a response.
HeadersTooLarge(r) ==
  IF isClient THEN [r EXCEPT !.hung = TRUE] ELSE [r EXCEPT !.refused = TRUE]

\* A frame of a header block was appended; whatever its size it is then parsed if
\* it is the last one.  The response to a block that is too large fails on a
\* closed connection, and when it cuts short the body of an earlier response,
\* which trailers can come after, and anything on the stream of an upgrade.
AddFragment(s, r, endHeaders) ==
  \/ /\ r.block = "large"
     /\ ~isClient
     /\ ~open \/ r.phase = "TRAILERS" \/ ~HasDelegate(s)
     /\ Crash(s, r)
  \/ /\ r.block = "large" /\ ~isClient => open
     /\ LET checked == IF r.block = "large" THEN HeadersTooLarge(r) ELSE r
        IN  IF endHeaders THEN ParseHeaders(s, checked) ELSE Continue(s, checked)

\* A block only grows.
Grown(block) == IF block = "large" THEN {"large"} ELSE {"small", "large"}

HandleHeaders(s, r, endHeaders, endStream) ==
  LET begun == [r EXCEPT !.phase = IF @ = "BODY" THEN "TRAILERS" ELSE @]
  IN  \/ FailConn(s, begun)        \* more padding than frame
      \/ Crash(s, begun)           \* no pad length in a PADDED frame
      \/ \E size \in Grown("none") :
           AddFragment(s, [begun EXCEPT !.block = size, !.ending = endStream], endHeaders)
-----------------------------------------------------------------------------
(* Stream: data.                                                           *)

\* Mutant: the pad length byte stays in the data.
MutantUnpadded(n, pad) == IF pad = None THEN n ELSE n + 1

\* Frame.without_padding: data[1:-pad_len] of a frame with n bytes and pad bytes
\* of padding, where pad_len is read as a signed byte.
Unpadded(n, pad) ==
  CASE pad = None -> n
    [] pad = 0 -> 0
    [] pad \in 1 .. 127 -> n
    [] pad \in 128 .. 255 -> IF 255 - pad < n + pad THEN 255 - pad ELSE n + pad

\* Mutant: the padding, which the delegate does not see, is returned, too.
MutantReturnCredit(r, n) == [r EXCEPT !.granted = @ + n + 1]

\* Data the delegate is done with is returned to both windows.
ReturnCredit(r, n) == [r EXCEPT !.granted = @ + n]

\* data_received(): the delegate is done at once, or returns a future.  The
\* credit cannot be written to a closed connection.
Deliver(s, r, n, end) ==
  LET given == [r EXCEPT !.got = @ + n]
  IN  \/ /\ open
         /\ MaybeEndStream(s, ReturnCredit(given, n), end)
         /\ connGranted' = connGranted + n
      \/ /\ ~open
         /\ Crash(s, given)
         /\ UNCHANGED connGranted
      \/ /\ MaybeEndStream(s, [given EXCEPT !.pending = Append(@, n)], end)
         /\ UNCHANGED connGranted

\* Mutant: empty data is delivered, too.
MutantDelivers(s, len) == stream[s].started

Delivers(s, len) == len > 0 /\ stream[s].started

\* _handle_data_frame with n bytes of data.
HandleData(s, n, pad, end) ==
  LET len == Unpadded(n, pad)
      begun == [stream[s] EXCEPT !.phase = "BODY"]
      counted == [begun EXCEPT !.remaining = IF @ = None THEN None ELSE @ - len,
                               !.body = @ + n]
      tooLong == counted.remaining # None /\ counted.remaining < 0
  IN  \/ /\ stream[s].block # "none" \/ stream[s].phase = "TRAILERS"
         /\ FailConn(s, stream[s])
         /\ UNCHANGED connGranted
      \/ /\ stream[s].block = "none" /\ stream[s].phase # "TRAILERS"
         /\ \/ /\ pad # None                              \* malformed padding
               /\ FailStream(s, begun) \/ Crash(s, begun)
               /\ UNCHANGED connGranted
            \/ /\ tooLong
               /\ FailStream(s, counted)
               /\ UNCHANGED connGranted
            \/ /\ ~tooLong
               /\ Delivers(s, len)
               /\ Deliver(s, counted, len, end)
            \/ /\ ~tooLong
               /\ ~Delivers(s, len)
               /\ MaybeEndStream(s, counted, end)
               /\ UNCHANGED connGranted
-----------------------------------------------------------------------------
(* The frames, as the loop dispatches them.                                *)

NeedsContinuation == last # None /\ stream[last].block # "none"

\* Mutant: the rule on CONTINUATION is not enforced.
MutantAdmitted(isContinuation, s) == loop = "reading"

\* A frame that the rule on CONTINUATION lets pass ...
Admitted(isContinuation, s) ==
  /\ loop = "reading"
  /\ NeedsContinuation => isContinuation /\ s = last

\* ... and any other: a ConnectionError.
RefusedFrame ==
  /\ loop = "reading"
  /\ NeedsContinuation
  /\ Reject
  /\ UNCHANGED <<conn, last, connGranted, undecoded>>

\* So is a frame larger than MAX_FRAME_SIZE, of which _read_frame reads the header only.
OversizedFrame ==
  /\ loop = "reading"
  /\ Reject
  /\ UNCHANGED <<conn, last, connGranted, undecoded>>

\* A frame for a stream of conn.streams.
Known(isContinuation, s) ==
  /\ Admitted(isContinuation, s)
  /\ s \in known
  /\ last' = s

\* HEADERS.  The block of a stream that is finished is not looked at.
HeadersFrame(s, endHeaders, endStream) ==
  /\ Known(FALSE, s)
  /\ \/ /\ stream[s].finished
        /\ FailStream(s, stream[s])
        /\ undecoded' = TRUE
     \/ /\ ~stream[s].finished
        /\ HandleHeaders(s, stream[s], endHeaders, endStream)
        /\ UNCHANGED undecoded
  /\ UNCHANGED <<conn, connGranted>>

ContinuationFrame(s, endHeaders) ==
  /\ Known(TRUE, s)
  /\ \/ /\ stream[s].finished
        /\ FailStream(s, stream[s])
     \/ /\ ~stream[s].finished
        /\ stream[s].block = "none"
        /\ FailConn(s, stream[s])
     \/ /\ ~stream[s].finished
        /\ stream[s].block # "none"
        /\ \E size \in Grown(stream[s].block) :
             AddFragment(s, [stream[s] EXCEPT !.block = size], endHeaders)
  /\ UNCHANGED <<conn, connGranted, undecoded>>

DataFrame(s, n, pad, end) ==
  /\ Known(FALSE, s)
  /\ stream[s].body + n <= MaxBody
  /\ \/ /\ stream[s].finished
        /\ FailStream(s, stream[s])
        /\ UNCHANGED connGranted
     \/ /\ ~stream[s].finished
        /\ HandleData(s, n, pad, end)
  /\ UNCHANGED <<conn, undecoded>>

\* RST_STREAM, of a wrong length or not.  The stream itself goes on.
RstStreamFrame(s) ==
  /\ Known(FALSE, s)
  /\ \/ FailConn(s, stream[s])
     \/ Continue(s, [stream[s] EXCEPT !.hung = @ \/ stream[s].started])
  /\ UNCHANGED <<conn, connGranted, undecoded>>

\* The other types: PRIORITY and WINDOW_UPDATE may be malformed or out of range;
\* SETTINGS, GOAWAY and PUSH_PROMISE have no business on a stream; PING and
\* unknown types are discarded unless the stream is finished.
OtherFrame(s, type) ==
  /\ Known(FALSE, s)
  /\ \/ type \in {"PRIORITY", "WINDOW_UPDATE"} /\ Continue(s, stream[s])
     \/ type \in {"PRIORITY", "WINDOW_UPDATE"} /\ FailStream(s, stream[s])
     \/ type = "WINDOW_UPDATE" /\ FailConn(s, stream[s])
     \/ type = "SETTINGS" /\ Crash(s, stream[s])
     \/ type = "PING" /\ ~stream[s].finished /\ Continue(s, stream[s])
     \/ type = "PING" /\ stream[s].finished /\ FailStream(s, stream[s])
  /\ UNCHANGED <<conn, connGranted, undecoded>>

\* The identifiers of the streams this end opens have the parity of nextId.
Local(s) == s % 2 = nextId % 2

\* Mutant: the identifier of the newest stream is taken for the largest.
MutantLargestRemote(s) == s

LargestRemote(s) == IF s > maxRemote THEN s ELSE maxRemote

\* HEADERS with a new identifier: a server opens the stream.  Nothing asks that
\* identifiers increase.
CreateOnHeaders(s, endHeaders, endStream) ==
  /\ Admitted(FALSE, s)
  /\ s \notin known /\ ~isClient /\ ~Local(s)
  /\ maxRemote' = LargestRemote(s)
  /\ known' = known \cup {s}
  /\ last' = s
  /\ HandleHeaders(s, NewStream, endHeaders, endStream)
  /\ UNCHANGED <<isClient, upgraded, nextId, connGranted, undecoded>>

\* Any other frame for a stream that does not exist: whether it once did is read
\* off its identifier.
UnknownStreamFrame(s, type) ==
  /\ Admitted(type = "CONTINUATION", s)
  /\ s \notin known
  /\ \/ type = "HEADERS" /\ ~isClient /\ Local(s) /\ Reject
     \/ /\ type = "HEADERS" => isClient
        /\ LET past == s <= IF Local(s) THEN nextId - 2 ELSE maxRemote
           IN  \/ past /\ type \in {"WINDOW_UPDATE", "RST_STREAM"} /\ Ignore
               \/ past /\ type \notin {"WINDOW_UPDATE", "RST_STREAM"} /\ FailStream(s, stream[s])
               \/ ~past /\ Reject
  /\ UNCHANGED <<conn, last, connGranted, undecoded>>

\* SETTINGS.  New ones are stored, one by one, and acknowledged, unless one of them is
\* out of range or the frame is no multiple of six bytes.  A closed connection does
\* not take the acknowledgement.
SettingsFrame(ack) ==
  /\ Admitted(FALSE, 0)
  /\ \/ ack /\ Ignore
     \/ ~ack /\ open /\ Ignore
     \/ ~ack /\ ~open /\ Stop
     \/ Reject
  /\ UNCHANGED <<conn, last, connGranted, undecoded>>

\* PING is echoed.
PingFrame(ack) ==
  /\ Admitted(FALSE, 0)
  /\ \/ ack /\ Ignore
     \/ ~ack /\ open /\ Ignore
     \/ ~ack /\ ~open /\ Stop
     \/ ~ack /\ Reject       \* not of eight bytes
  /\ UNCHANGED <<conn, last, connGranted, undecoded>>

\* The other frames for stream 0: a type that belongs to a stream is an error, one
\* that is unknown is discarded.
ConnFrame(type) ==
  /\ Admitted(FALSE, 0)
  /\ \/ type \in {"WINDOW_UPDATE", "UNKNOWN"} /\ Ignore
     \/ type \in {"WINDOW_UPDATE", "STREAM"} /\ Reject
     \/ type = "GOAWAY" /\ Stop
  /\ UNCHANGED <<conn, last, connGranted, undecoded>>
-----------------------------------------------------------------------------
(* The other steps.                                                        *)

Preface ==
  /\ loop = "preface"
  /\ \/ open /\ loop' = "reading" /\ UNCHANGED open
     \/ loop' = "ended" /\ open' = FALSE
  /\ UNCHANGED <<conn, last, stream, connGranted, undecoded>>

\* Connection.create_stream, as the client calls it.
CreateStream ==
  /\ isClient
  /\ nextId \in Ids
  /\ known' = known \cup {nextId}
  /\ nextId' = nextId + 2
  /\ UNCHANGED <<isClient, upgraded, open, loop, maxRemote, last, stream, connGranted, undecoded>>

\* Mutant: the credit goes to the stream's window alone.
MutantDataConsumed(s, i) ==
  /\ i \in DOMAIN stream[s].pending
  /\ LET n == stream[s].pending[i]
         rest == [stream[s] EXCEPT !.pending = RemoveAt(@, i)]
     IN  IF open THEN Continue(s, ReturnCredit(rest, n)) ELSE Continue(s, rest)
  /\ UNCHANGED <<conn, last, connGranted, undecoded>>

\* The future a call of data_received() returned is resolved, in any order; the
\* error of writing to a closed connection is logged.
DataConsumed(s, i) ==
  /\ i \in DOMAIN stream[s].pending
  /\ LET n == stream[s].pending[i]
         rest == [stream[s] EXCEPT !.pending = RemoveAt(@, i)]
     IN  IF open
         THEN Continue(s, ReturnCredit(rest, n)) /\ connGranted' = connGranted + n
         ELSE Continue(s, rest) /\ UNCHANGED connGranted
  /\ UNCHANGED <<conn, last, undecoded>>

\* The frame the loop wrote was flushed.
LoopFlushed ==
  /\ open
  /\ \/ loop = "rst" /\ loop' = "reading" /\ UNCHANGED open
     \/ loop = "goaway" /\ loop' = "ended" /\ open' = FALSE
  /\ UNCHANGED <<conn, last, stream, connGranted, undecoded>>

\* The connection was closed: the loop's read, or its flush, fails.
LoopFails ==
  /\ ~open
  /\ loop # "ended"
  /\ loop' = "ended"
  /\ UNCHANGED <<open, conn, last, stream, connGranted, undecoded>>

\* The peer hangs up, or the connection is closed from outside the loop.
Close ==
  /\ open
  /\ open' = FALSE
  /\ UNCHANGED <<loop, conn, last, stream, connGranted, undecoded>>
-----------------------------------------------------------------------------
Types == {"DATA", "HEADERS", "PRIORITY", "RST_STREAM", "SETTINGS", "PING",
          "WINDOW_UPDATE", "CONTINUATION"}

Frames(s) ==
  \/ \E endHeaders \in BOOLEAN :
       \/ ContinuationFrame(s, endHeaders)
       \/ \E end \in BOOLEAN :
            HeadersFrame(s, endHeaders, end) \/ CreateOnHeaders(s, endHeaders, end)
  \/ \E n \in 0 .. MaxBody, pad \in Pads, end \in BOOLEAN : DataFrame(s, n, pad, end)
  \/ RstStreamFrame(s)
  \/ \E type \in Types : OtherFrame(s, type) \/ UnknownStreamFrame(s, type)

Next ==
  \/ \E s \in Ids : Frames(s) \/ \E i \in DOMAIN stream[s].pending : DataConsumed(s, i)
  \/ \E type \in {"WINDOW_UPDATE", "UNKNOWN", "STREAM", "GOAWAY"} : ConnFrame(type)
  \/ \E ack \in BOOLEAN : SettingsFrame(ack) \/ PingFrame(ack)
  \/ RefusedFrame
  \/ OversizedFrame
  \/ Preface
  \/ CreateStream
  \/ LoopFlushed
  \/ LoopFails
  \/ Close

Spec == Init /\ [][Next]_vars
-----------------------------------------------------------------------------
(* Properties.                                                             *)

\* Header blocks do not interleave: while the loop reads, a block that is not
\* complete is the one of last_stream, so that the test on CONTINUATION sees it,
\* whatever frames of known, new and unknown streams came before.
HeaderBlockIsContiguous ==
  loop = "reading" => \A s \in Ids : stream[s].block # "none" => last = s

\* The identifiers tell a stream that once existed from one that never did, in any
\* order of arrival: no stream lies beyond nextId or maxRemote, but the one of an
\* upgrade, which no frame can find missing.
IdsAreBounded ==
  /\ \A s \in known : IF Local(s) THEN s < nextId ELSE s <= maxRemote \/ ~HasDelegate(s)
  /\ upgraded => 1 \in known

\* A delegate sees a well-formed message, whatever the peer sends and whenever
\* streams are reset: see Message.
DelegateView == INSTANCE Message WITH
  told     <- [s \in Ids |-> stream[s].told],
  declared <- [s \in Ids |-> stream[s].declared],
  got      <- [s \in Ids |-> stream[s].got],
  hung     <- [s \in Ids |-> stream[s].hung]

ImplementsMessage == DelegateView!Spec

Pending(s) == SumFunction(stream[s].pending)

\* All the data a delegate got is returned to the peer's windows, of the stream
\* and of the connection alike, exactly once and as soon as it is consumed, in
\* whatever order the futures of its data_received() calls are resolved.
CreditIsReturned ==
  open => /\ \A s \in Ids : stream[s].got = stream[s].granted + Pending(s)
          /\ connGranted = SumFunction([s \in Ids |-> stream[s].granted])

\* Frame.without_padding "Returns a new Frame, equal to this one with any padding
\* removed" (frames.py): what the delegate has when it is told that the message is
\* complete is what the peer put into its DATA frames.
BodyIsDelivered ==
  \A s \in Ids : stream[s].told = "finish" => stream[s].got = stream[s].body

(* What the repository says of the program, and the program does not do.   *)

\* A server that refuses a header block, because it is too large, does not know
\* the request: "If we're rejecting the headers we can't know so just make
\* something up" (stream.py).  So it does not start one.
RefusedIsNotStarted ==
  [][\A s \in Ids : stream[s].refused /\ stream[s].told = "nothing"
                      => stream'[s].told = "nothing"]_stream

\* A StreamError "leaves the connection intact" (errors.py): as long as the loop
\* reads frames the HPACK decoder has seen every header block.
EveryBlockIsDecoded == loop = "reading" => ~undecoded
=============================================================================

# A verification of tornado_http2

tornado_http2 adds HTTP/2 to the Tornado web framework (version 4.5): a server,
a client, and between them a `Connection` that multiplexes `Stream`s over one
`IOStream`. This directory holds TLA+ models of that code, the TLC
configurations that check them, and TLAPS proofs of what matters most. Paths
below are relative to `src/tornado_http2/`.

## 1. The system

| component | state it keeps | operations |
|---|---|---|
| flow control (`flow_control.py`) | `Window.size`, `parent`, a `Condition` | `consume`, `adjust`, `apply_window_update`, `close` |
| stream, sending (`stream.py` 268-361) | `write_lock`, `_outgoing_content_remaining` | `write_headers`, `write`, `finish`, `reset` |
| stream, receiving (`stream.py` 53-262) | `_phase`, `_header_frames`, `_incoming_content_remaining`, `_delegate_started`, `finish_future` | `handle_frame` and one handler per frame type |
| connection loop (`connection.py`) | `streams`, `next_stream_id`, `_settings`, and in `_conn_loop` `last_stream` and `max_remote_stream_id` | `_conn_loop`, `handle_frame`, `create_stream`, `close` |
| frames (`frames.py`) | none | `without_padding`, `parse_window_update_frame` |
| HPACK (`hpack.py`) | a dynamic table, its size and its limit, in the encoder and in the decoder | `encode`, `decode` |
| bit coding (`encoding.py`) | a bit position | prefix integers, Huffman strings |
| server (`server.py`) | `_UpgradingConnection`'s buffered calls | ALPN, cleartext preface, h2c upgrade |
| client (`client.py`), curl (`curl.py`) | none | connect, create one stream |

How they interact. Everything runs on one IOLoop: a coroutine or handler runs
undisturbed from its resumption to its next `yield` of a future that is not
done. Three kinds of activity interleave at those points: the connection's loop,
which reads a frame and calls a handler; the application, which calls a stream's
methods or resolves futures that it returned; and the coroutines of
`Stream.write` and `finish`, which wait for a lock, for credit, or for a flush.
They share the windows (every stream's window has the connection's as parent),
the HPACK tables and the IOStream. Failure enters as an exception: `StreamError`
is answered with RST_STREAM, `ConnectionError` with GOAWAY, anything else closes
the connection.

What is hard, and what makes each part correct:

* **Flow control.** `consume` reads a size, waits for its parent, then subtracts.
  No credit may be lost or spent twice, no waiter may miss its wakeup, and a
  stream must get on although others empty the shared window first.
* **Sending.** `write` and `finish` need not be awaited. Bytes must come out in
  the order of the calls, END_STREAM last and only after Content-Length bytes.
* **Receiving.** The peer chooses the order of frames. A delegate must see a
  well-formed message, and what it consumed must be returned as credit, although
  it consumes at its own pace.
* **The loop.** Header blocks of different streams must not mix, whether a stream
  once existed must be decided correctly, errors must end what they should end.
* **HPACK.** Two tables in two processes must agree at every block.
* **Bits.** An integer or a string that ends within a byte must leave the next field
  where its reader looks for it.
* **Two ends.** Credit that one end spends is what the other returns: neither may wait
  for the other for ever, or refuse what the other may write.
* **Upgrade.** Calls are held back while protocols are switched and replayed in order,
  and the connection must never be out of the server's sight.

`PROJECT.json` lists under `hazards` each place where one of these can go wrong,
with the properties that would show it, and says why some have none.

## 2. The modules

| module | what it is |
|---|---|
| `FlowControl` | windows, `write_lock`, and the writers of all streams of a connection |
| `CreditPipe` | abstract: what a flow-controlled sender promises its peer |
| `FlowControl_proofs` | TLAPS: the inductive invariant of `FlowControl`, the credit of the connection, and that `FlowControl` implements `CreditPipe` |
| `Receiver` | the loop's dispatch and the receiving state machine of every stream |
| `Message` | abstract: the message a delegate sees |
| `Receiver_proofs` | TLAPS: what holds of `Receiver`, and that it implements `Message` |
| `Hpack` | encoder, decoder, and the header blocks on their way |
| `HeaderPipe` | abstract: header lists come out as they went in |
| `Hpack_proofs` | TLAPS: the tables fit, and `Hpack` implements `HeaderPipe` |
| `Endpoints` | composes `FlowControl` and `Receiver`: two ends of one connection and the frames between them |
| `Endpoints_wire_proofs` | TLAPS: what may be underway to a stream, and what each end does to that |
| `Endpoints_proofs` | TLAPS: messages arrive, no credit is lost between the ends, only frames that are too large are refused |
| `Coding` | the bits of a header block, and the fields they are read as |
| `Coding_proofs` | TLAPS: blocks are bytes, a string ends where it says, and fields are read as they were written |
| `Upgrade` | a server's connection until its protocol is settled, and the h2c upgrade |
| `CallPipe` | abstract: an application's calls arrive in order, once, in one protocol |
| `Upgrade_proofs` | TLAPS: connections are tracked, and `Upgrade` implements `CallPipe` |
| `Sums` | TLAPS: lemmas on sums over finite sets and sequences, and on counting |
| `MCFlowControl`, `MCReceiver`, `MCHpack`, `MCEndpoints`, `MCCoding`, `MCUpgrade` | constants and constraints for TLC |

In every module an operator named `Mutant...` is a wrong variant of the
definition that follows it. Nothing refers to these; substituting one for the
original shows that a property can fail.

### FlowControl

`connWin` and `strWin` are `Window.size`. A stream has at most one coroutine that
holds `write_lock`; `pc` says at which suspension it stands, `chunk` and `amount`
are its local variables, `queue` is the lock's FIFO of waiters. A coroutine that
is done is distinguished from its caller having run (`parentReturned`,
`returned`), because Tornado resumes a caller in a later callback and other
callbacks may run in between. Bytes are numbered by the order of the calls of
`write`, so that a chunk is an interval.

| action | code |
|---|---|
| `WriteHeaders`, `Write`, `Finish` | the application's calls, up to where the coroutine they start suspends |
| `ResumeLock`, `ResumeStreamWait`, `ResumeConnWait`, `ParentReturned`, `ConsumeReturned`, `Flushed`, `FlushFailed` | a coroutine runs from one suspension to the next |
| `ConnWindowUpdate`, `StreamWindowUpdate` | `apply_window_update` and `adjust`, with the loop's answer to their errors |
| `LoopFlushed`, `LoopStops`, `LoopFails`, `Close` | the loop goes on, or the connection ends |

### Receiver

One action handles one frame. `stream[s]` is a record of the Stream's fields;
its last fields record what the delegate was told. Handlers are operators on such
a record, so that a handler that calls another (`HandleHeaders` calls
`AddFragment` calls `ParseHeaders` calls `MaybeEndStream`) is one step, and they
end in `Continue`, `FailStream`, `FailConn` or `Crash`, the four ways to leave a
handler. `isClient` is the end, chosen
once from `Roles`, and `upgraded` says that the connection was made of a request of
HTTP/1: `switch_protocols` puts stream 1 into `conn.streams` past the code that counts
identifiers, and without a delegate (`HasDelegate`), so that headers for it end the loop.

Data are abstracted to what decides: a pending header block is small or larger
than `max_header_size`; the contents of a block are the outcome of parsing it
(HPACK broken, a rule of HTTP/2 broken, a conversion failed, or headers with a
length, interim or final); a DATA frame is its length and pad length. A closed
IOStream still serves frames it had read before, so handlers may run when `open`
is false, and then fail where they write. An exception that a delegate raises
ends the loop as `Crash` does; it is not a separate case.

Frames for stream 0 are `SettingsFrame`, `PingFrame` and `ConnFrame`; the two that are
answered cannot be on a closed connection. `OversizedFrame` is refused by `_read_frame`
before its type is known. Padding that `without_padding` cannot strip is an error only
of a frame that has padding.

### Hpack

Both tables, and between them blocks as sequences of fields. `Encode` and
`Decode` process a block in one step, as the code does. `FindKeyIndex` searches
the static table only: the code compares each dynamic entry, a pair, with the
name, and they are never equal. `foreign` chooses once whether the decoder's peer is
this encoder or a program that sends any fields.

### Endpoints

The sending half of one end, `S`, and the receiving half of the other, `R`, are
instances; `down` and `up` are the frames underway. No step is modelled again: what a
step of `S` or `R` writes is derived from what it changes (`Written`, `Answer`), and
`HandleDown` and `HandleUp` let the other half handle the oldest frame. The receiving
end is a client whose streams `Open` creates, or a server; a server sends on streams
its client has opened. `Understood` is the knowledge that the headers this program
writes are well-formed for itself: `Hpack` and `Coding` are about that part. Each
direction of a connection is such a system; the only state both directions share is
the loop, which reads the frames of both.

### Coding

The state is a block, and every state is decoded: `Decoded` is the decoder run on
`data`. An encoder or decoder is a record of its bit position and of what it has
written or read, operators are its methods; a decoder that has raised EODError or
IndexError is one with `ok` FALSE, and `decode` makes an HpackError of either.
`WriteField` appends a field as `write_header` writes it after its search of the
tables, `ForeignByte` any byte. The Huffman tree is the constant `Code` itself: what its leaves
say of the next bits is `Leaf`. `CodeAssumption` says that no code is a prefix of another
and that each has a zero; both hold of the 256 codes in `hpack_huffman_data.txt`. The
second says that the ones which fill the last byte are never a character. Loops are
functions from the number of rounds to the state after them (`Loop`), and a `while`
(`While`) is a loop of as many rounds as can do anything: each takes a bit, a byte or a
field of what is left.

### Upgrade

| action | code |
|---|---|
| `Handshake`, `FirstLine`, `FirstLineFails` | the choice by ALPN, or by the first lines |
| `HeadersReceived`, `RequestComplete`, `StreamReset`, `Http1Ends` | what tornado, or a `Stream`, tells `_UpgradingRequestAdapter`, and the end of tornado's loop |
| `RequestComplete`, `SwitchResumes` | `switch_protocols` up to its `yield`, and after it |
| `Preface`, `Http2Ends` | the part of `Connection._conn_loop` that matters here |
| `AppCall`, `SetLimits` | the application calls `_UpgradingConnection` |

`h2_conn.start()` runs the loop at once, with what the client has sent already:
`Started` has one outcome for each case. `start_request` wraps a request of HTTP/2 just
as one of HTTP/1, and reads `Upgrade` off the headers of either. On a connection that has
HTTP/2 already, `switch_protocols` fails at once, since a `Stream` cannot be detached: the
error goes to a future that nobody reads, the calls stay held back, and the application is
never told that its request is complete. `stream` is what has been read of a request of
HTTP/2. The history variables `made` and `arrived` are
what `CallPipe` sees.

## 3. The runs

Passing runs:

| run | question | bounds |
|---|---|---|
| `windows` | no lost wakeup, no lost credit, bytes in order, END_STREAM last, and the peer sees a `CreditPipe` | largest window 2; one stream to its limits (3 bytes, lengths 0, 2, 3, credit 4 per window), or two streams that compete in `Shallow` ways |
| `receiver` | header blocks do not mix, identifiers are judged correctly, the delegate sees a `Message` with the peer's body, credit reaches both windows | a server, with or without an upgrade, or a client; identifiers 1, 2, 3, 2 bytes, lengths 0 to 2; one stream in depth, or several in `Shallow` ways |
| `hpack` | encoder and decoder implement `HeaderPipe`; the table stays within its limit for any input | lists of 2 headers, 2 blocks underway, table of 3 units; 2 foreign fields per block, limits 0 to 4 |
| `endpoints` | credit circulates, nothing is refused but a frame that is too large, messages arrive complete; every byte and every `finish()` arrives | one stream to a client or a server, or two streams of a server; 3 bytes, windows of 2, frames of 1 |
| `coding` | what is written is read; a string takes the bytes it announces | blocks of 2 fields, 5 characters, 9 integers; any 4 of 9 bytes |
| `upgrade` | calls arrive in order in one protocol, the connection is tracked, the upgrade ends if the client goes on | 4 calls of the application, by every way to a protocol |

Why the bounds are enough for what happens: two streams suffice for one to spend
what woke the other; a window of 2 and credit of 3 allow an overflow, a partial
grant, and a grant that covers two writers; 2 bytes make chunks that are written
whole, in parts, and queued behind another. With two bytes two futures of
`data_received` are pending at once, and a declared length can be missed on
either side. A table of 3 units with entries of 1 and 2 is filled, evicts one or
two entries at once, and meets a limit of 0 under an entry of 2. In `endpoints` a window
is smaller than what is written, so that every message waits for credit, and two streams
share what is enough for one; it is larger than a frame, so that two bytes written at once
are refused and two written one by one are not. In `coding` the integers are the
largest that fit into 4, 5, 6 and 7 bits, the ones before and after, and one that
needs two further bytes; the codes have 5, 7, 8, 10 and 13 bits. Four calls are
headers, two chunks and `finish()`. `MaxCredit`, `MaxBytes`, `MaxBody`, `MaxHeaders`,
`MaxUnderway`, `MaxFields` and `MaxCalls` are guards and the only artificial ones.
`Ids` bounds the identifiers.

A CONSTRAINT (`Bound` in `MCFlowControl`, `MCReceiver` and `MCEndpoints`) cuts the
product of depth and width: either one stream goes as far as the constants allow, or
several streams do less each. In `windows` and `receiver` only safety is checked, and a
constraint can hide states, never invent them. In `endpoints` liveness is checked as
well: what `Bound` excludes begins with a call of an application, with the opening of
a stream, or with a hang-up, none of which is fair, so that no behaviour within the
bound is forced out of it.

The real constants (a largest window of 2^31 - 1, 65535 bytes at the start, a
table of 4096) are replaced by small ones. Python's integers do not wrap, so that
only comparisons with these constants matter; increments are 31-bit numbers
because the reserved bit is stripped.

Runs that end in a violation show where the code and the repository's own words
differ:

| run | what TLC finds |
|---|---|
| `stream_error` | after a StreamError ("terminates a stream") the stream's writer goes on to send DATA and END_STREAM |
| `finish_lock` | `finish()` waits for ever behind a write that failed and kept `write_lock` |
| `padding` | a DATA frame with pad length 0 loses its data: `data[1:-0]` is empty |
| `refused` | after a 431 response for too large headers the request is started all the same |
| `undecoded` | a header block for a finished stream never reaches the HPACK decoder, and the connection goes on |
| `frame_size` | a write larger than MAX_FRAME_SIZE becomes one DATA frame, which the other end of the same program refuses with GOAWAY |

`BodyIsDelivered`, which `padding` violates, holds in the run `receiver`, whose pad
length is 1: the property fails through the padding alone. In no run is the other half of
what is wrong there, a length beyond 127 that is read as negative; `Unpadded` has it, and
TLC finds the same violation with `Pads = {None, 1, 200}`. `NoAccusation`, which `frame_size`
violates, fails through the size alone: that is what `OnlySizeIsRefused` says in the run
`endpoints`, where frames are smaller than windows, as in the code.

The systems may stop, and deadlock is not checked where they do: the application has
finished, the connection has ended, or the bounds are reached. That nobody waits for
ever is stated by the liveness properties instead.

### Fairness

`Endpoints` assumes weak fairness of every coroutine that can resume and of each
loop's next frame: an IOLoop runs every callback it was handed, and TCP delivers while
the connection is open. It assumes that a delegate resolves the futures it returned,
which is what consuming data means. Credit is then not assumed but follows: the sender's
peer is this program. Nothing is assumed of the applications that write, nor of anybody
hanging up, and the properties excuse a connection that has ended. `Condition` wakes its
waiters in FIFO order; the model lets them run in any order, so that what is shown does
not rest on that order. `MaxBytes` bounds what the other stream writes, so that a
competitor who writes for ever is outside this run.

`Upgrade` assumes the IOLoop's fairness: `switch_protocols` goes on once the settings are
written, and the loops of a closed connection end. Only the first is needed. Nothing is
assumed of clients: there is no timeout for the rest of a request, nor, after the 101, for
the preface. So `UpgradeCompletes` is conditional: if the connection is not for ever in the
body of the request of HTTP/1 and not for ever before the preface, then an upgrade that was
asked for in HTTP/1 completes. It excuses a connection that closes and an application whose
calls a `Stream` refuses. `LoopFairSpec` (run `finish_lock`) has the
IOLoop's fairness only.

## 4. The proofs

Every theorem holds for all constants that satisfy the `ConstantsAssumption` of its
module: any finite set of streams or identifiers, any windows, lengths, tables and
bounds. That `Streams` and `Ids` are finite is the one assumption made for the sake of
sums; stream identifiers are 31-bit numbers. The theorems that share a name with a
property of a run state that property; "types" is `TypeOK`.

| module | theorem | states |
|---|---|---|
| `FlowControl_proofs` | `TypeCorrect` | types; in particular no window is ever negative |
| | `NoWakeupIsLost` | `NoLostWakeup` |
| | `StreamCreditIsConserved` | `StreamCreditConserved` |
| | `EndStreamIsComplete` | `EndIsComplete` |
| | `WritesAreInOrder` | the action property `InOrder` |
| | `ConnCreditIsConserved` | `ConnCreditConserved` |
| | `Implementation` | `ImplementsCreditPipe` |
| `Receiver_proofs` | `TypeCorrect`, `Contiguity`, `IdBounds` | types, `HeaderBlockIsContiguous`, `IdsAreBounded` |
| | `CreditReturned` | `CreditIsReturned` |
| | `BodyDelivered` | `BodyIsDelivered`, if no frame is padded with length 0 or more than 127 |
| | `Implementation` | `ImplementsMessage` |
| `Hpack_proofs` | `TypeCorrect`, `TablesFit` | types, `TableFits` |
| | `TablesAgreeAgain` | `TablesAgree` |
| | `Implementation` | `ImplementsHeaderPipe` |
| `Coding_proofs` | `Types` | types; in particular only bytes are written |
| | `StringsEnd` | `StringsEndWhereTheySay` |
| | `ReadAsWritten` | `RoundTrip` |
| `Upgrade_proofs` | `TypeCorrect`, `Tracking` | types, `ConnectionsAreTracked` |
| | `Implementation` | `ImplementsCallPipe` |
| `Endpoints_proofs` | `ArrivalCorrect` | `MessageArrives` |
| | `OnlySizeRefused` | the action property `OnlySizeIsRefused`; with `FramesFit`, `NoAccusation` follows (`NothingRefused`) |
| | `CreditCorrect` | `CreditCirculates` |

**Flow control.** None of the invariants is inductive alone. `IInv` adds, per stream,
what a suspended coroutine may rely on: it is parked only on an empty window
(`Parked`), the amount it has reserved is covered by the stream's window and by what
is left of its chunk (`Reserved`), its chunk starts at the first unwritten byte
(`Holder`), the queue continues it without a gap (`Waiting`), an END_STREAM that
waits is the last in the queue (`EndIsLast`), and the Content-Length and credit
accounts balance (`LengthKept`, `CreditKept`). The heart of the credit argument is
that nobody but the holder of the stream's lock takes from the stream's window, so
that between the look at the window and the subtraction it can only grow. The wakeup
argument is that `adjust` skips `notify_all` only for a zero increment, which leaves
the window as it was, or for an overflow; and since an increment is at most
`MaxWindow` only a window that was not empty can overflow, and on such a window nobody
waits. `OthersKeepInv` says that a step of one stream leaves the invariant of the
others alone; then there is one lemma per action, and `NextInv` puts them together.

The connection's window is shared, and its account is a sum over the streams. A second
invariant, `ConnKept`, says that what is in the window and what the streams have sent or
hold (`UsedBy`) make up the credit granted, or less once a writer has failed. Every step
is one of two kinds: it `Moves` credit between the window and one stream, or it `Gives`
credit and touches no stream. The same division shows that each step is one of
`CreditPipe`.

**Receiving.** A frame's handlers turn one stream's record `r` into `q`. They are proved
one by one, as lemmas about records: `q` is as good as `r`, and the step from `r` to `q`
is one that `Message` allows. `BodyDelivered` has the hypothesis `SmallPads`, no pad
length of 0 or beyond 127 as `without_padding` reads it; without it the property is
false, as run `padding` shows. The
stream of an upgrade has no place in the order of identifiers: `IdsAreBounded` excepts it,
and says that it is always there, so that no frame for it is judged by that order. What
the delegate consumed is returned whatever the order in which futures are resolved:
`SumRemoveAt`.

**HPACK.** The two tables are never compared directly, since they differ while a block is
underway. The invariant `Chained` says that there is a table for each place between the
blocks, from the decoder's to the encoder's, and that reading a block with the table
before it gives its header list and the table after it. `WritingIsRead` extends the
chain at the encoder's end, `NextIsRead` shortens it at the decoder's. Below that are the
facts that one field of the encoder is read as its header (`HeaderIsRead`), that every
field, right or wrong, leaves the decoder's table good (`FieldKeepsReader`), and that
eviction ends within the limit with the size of what is left (`GcIsGood`). The proof uses
that `FindKeyIndex` never finds a dynamic entry: a search of the dynamic table would have
to be made before the entry is added.

**Bits.** The decoder first, for any bytes: `Decoding` says that it stands within the block,
and `IsAfter` that a character takes a bit and none beyond its string, so that the rounds of
`ReadHuffman` suffice to reach the end. `StringsEnd` needs no more. For `RoundTrip` what the
encoder has written is stated of the bytes and not of the encoder: `IntIn`, `StringIn` and
`FieldIn` say what stands between the p-th byte and the q-th, and what is written later
leaves it there (`Extends`). The invariant `BlockIs` says that fields which touch each other
make up a block that no peer has begun. A decoder at the p-th byte then reads what stands
there and comes to the q-th: `ReadIntOf`, where an integer in sevens is what has been read
and what is still to come; `ReadHuffmanOf`, where the decoder has, after r rounds, the first
r characters and stands behind the r-th code, since two codes that stand in one place are
one (`OneCode`), and at last meets only ones (`ReadNoChar`); `ReadStringOf` and `ReadFieldOf`.
A byte that is written bit by bit is a sum; that its bits are those written is `BitOfSum`.

**Upgrade.** `Held`: while calls are held back nothing has arrived and `Buffered`, read
from three variables, is what was `made`; afterwards what has arrived is a prefix of it.
What keeps the three variables in order is that nothing follows `finish()`.

**Two ends.** The two ends keep the invariants of their own proofs, whatever the other
does, since every step of `Endpoints` is one of theirs or leaves them alone. What is added
relates them by what is underway. `InStep`: for each stream the receiving end's record and
the frames underway to it give what the sending end wrote, that is the bytes got and
those underway are those sent, HEADERS comes before anything else of the stream,
nothing but RST_STREAM follows END_STREAM, and the record is one of the few that such
frames lead to (`Plain`). `CreditReturns`: the credit the sending end was granted, with that
underway to it, is what it began with and what the receiving end returned. `Arrived` keeps
what of this is needed when the loop no longer reads. Each frame then meets a stream that
is ready for it: DATA stays within the announced length, because the sender's invariant
says so of all that was accepted, and END_STREAM finds all of it; and the windows
have room for the credit, as they began with no more than the largest window and none
was given that was not spent. `Endpoints_wire_proofs` shows that writing behind what is
underway, or reading its first frame, keeps what is said of the other streams; below
that are the sums over sequences (`SumAppend`, `SumConcat`).

`FramesFit` says that no window begins larger than MAX_FRAME_SIZE. The code does not
ensure it: `write` cuts data to its credit but not to the size of a frame, and the windows
of 65535 bytes are larger than its frames of 16384. So
`OnlySizeRefused` says of the code as it is that a step which first makes either end
answer with an error is one that reads a DATA frame larger than MAX_FRAME_SIZE: run
`frame_size` shows that step. For it each frame's handling is looked at once more: wherever
the receiving loop could turn to GOAWAY or RST_STREAM, `InStep` contradicts the guard, and
what is left is `TooLarge`. `CreditCirculates` accounts for the credit up to that GOAWAY,
after which the connection ends; `MessageArrives` needs no such condition.

**Sums and loops.** `SumFunction`, the loops of `encode` and `decode` and those of the bit
coder are recursive. The induction theorems of the library cannot be used, so `Sums` and `RunExists` argue with
a least counterexample instead: that the recursive function exists, that it is the
only one, and that its value at a set does not depend on the order of summation.
`CountUp` is that argument for the loops, with a set in place of a predicate.

Only model-checked:

* Liveness (`EveryByteArrives`, `FinishArrives`, `UpgradeCompletes`) and the runs that
  end in a violation.

## 5. What is not modelled

* The values that SETTINGS store. Two of them are read anywhere: INITIAL_WINDOW_SIZE,
  for the window of a new stream (`StreamInits` stands for it), and MAX_FRAME_SIZE, for
  incoming frames (`MaxFrame`, and `OversizedFrame` at any time).
* The packing and parsing of frame headers, and the loading of the two tables of HPACK.
* Of the server: the set-up of the SSL context; `close_callback`, which a Stream ignores;
  an HTTP/1 connection's further requests, each of which has an `_UpgradingConnection` of
  its own, as has each stream of a connection that began with HTTP/2; the method and path
  that `switch_protocols` hands to the new stream.
* Of the client: the options of SSL and the choice of the protocol, which keep no state
  in this code. The curl client sets an option of libcurl. Decompression is tornado's.
* `Window.close`, which nothing calls, and logging.
* What a client sends along with a request that asks for an upgrade, in `Receiver`: the
  loop would handle it inside `h2_conn.start()`, before stream 1 is there. `Upgrade` has the
  outcomes for the connection (`Started`); that a stream 1 made in there is then replaced
  is in neither module. In `Receiver` an upgraded connection starts with its stream 1, as
  it does when the client waits for the 101. `Endpoints` never starts with an upgrade: this
  program's client asks for none.
* The content of headers, except as the outcome of parsing it (`Receiver`) or as fields
  (`Hpack`). The 431 response is an effect on the receiver; its own `write_headers` and
  `finish` are not calls of `FlowControl`'s application.
* In `Endpoints`: a second RST_STREAM for a stream, which changes nothing at the other
  end, and SETTINGS and PING, which touch neither credit nor messages.
* In `Coding`: the growth of the Huffman tree, which changes no answer.

`tornado.gen`, `Lock`, `Condition`, `IOStream`, `HTTPServer` and `http1connection` are
external: they are modelled from how this code uses them, version 4.5.

## 6. Plan

Done: `FlowControl`, `Receiver`, `Hpack`, `Endpoints`, `Coding`, `Upgrade` with their runs, and
the proofs of section 4: every safety property of the passing runs is a theorem. What
could follow are the steps of liveness that need no fairness: which action ends each wait.

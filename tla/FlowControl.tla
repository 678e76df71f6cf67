----------------------------- MODULE FlowControl -----------------------------
(***************************************************************************)
(* The sending half of a tornado_http2 connection: the two-level flow      *)
(* control windows (flow_control.py) and the coroutines that write to the  *)
(* streams under them (stream.py, write_headers to _write_end_stream).     *)
(*                                                                         *)
(* Everything runs on one IOLoop, so a step of this module is one run of   *)
(* a coroutine or handler from its resumption to its next suspension.  A   *)
(* `yield` on a future that is already done does not suspend.              *)
(*                                                                         *)
(* The bytes the application writes to stream s are numbered 1, 2, ... in  *)
(* the order of the calls.  A chunk is the interval from+1 .. upto; the    *)
(* call of finish() that waits for the lock is the empty interval.         *)
(***************************************************************************)
EXTENDS Integers, Sequences, FiniteSetsExt

CONSTANTS
  Streams,      \* the streams open on the connection
  MaxWindow,    \* constants.MAX_WINDOW_SIZE, 2^31 - 1 in the code
  ConnInit,     \* initial size of the connection's window, 65535 in the code
  StreamInits,  \* the INITIAL_WINDOW_SIZE settings a stream may start with
  Lengths,      \* the Content-Length values an application may declare
  None,         \* no Content-Length was declared
  MaxBytes,     \* bound: bytes the application writes to one stream, and by
                \* which it exceeds the Content-Length
  MaxCredit     \* bound: credit the peer gives one window, its initial size included

ASSUME ConstantsAssumption ==
  /\ IsFiniteSet(Streams)
  /\ MaxWindow \in Nat \ {0}
  /\ ConnInit \in 0 .. MaxWindow
  /\ StreamInits \subseteq 0 .. MaxWindow
  /\ Lengths \subseteq Nat
  /\ None \notin Int
  /\ MaxBytes \in Nat
  /\ MaxCredit \in Nat

VARIABLES
  open,         \* conn.stream, the IOStream, is not closed
  loop,         \* _conn_loop reads frames, waits for RST_STREAM or GOAWAY to
                \* be flushed, or has ended
  connWin,      \* conn.window.size
  strWin,       \* stream.window.size of every stream
  pc,           \* where the coroutine that holds write_lock stands
  chunk,        \* the bytes it has still to write
  amount,       \* the amount it asks of, or got from, Window.consume
  queue,        \* write_lock's waiters: chunks and finish() calls, FIFO
  app,          \* the application's progress on the stream
  remaining,    \* _outgoing_content_remaining
  fin,          \* the future of finish()
  \* what the peer sees of the stream
  sent,         \* bytes of DATA frames written
  ended,        \* END_STREAM was written
  rst,          \* why RST_STREAM was written: an error of the application
                \* (reset()) or a StreamError in the connection's loop
  \* history, read by the properties only
  accepted,     \* bytes write() has taken
  declared,     \* the Content-Length write_headers() was given
  connCredit,   \* credit the peer ever granted to the connection ...
  strCredit     \* ... and to every stream, the initial windows included

windows == <<connWin, strWin>>
writer  == <<pc, chunk, amount, queue>>
caller  == <<app, remaining, accepted, declared>>
credit  == <<connCredit, strCredit>>
vars == <<open, loop, windows, writer, caller, fin, sent, ended, rst, credit>>

Pcs == {"idle",             \* write_lock is free
        "granted",          \* the lock was handed over, the coroutine not yet run
        "parkStream",       \* in stream.window.cond.wait()
        "wakeStream",       \* notified there, not yet run
        "parkConn",         \* in conn.window.cond.wait()
        "wakeConn",         \* notified there, not yet run
        "parentReturned",   \* parent.consume() is done, its caller not yet run
        "returned",         \* window.consume() is done, its caller not yet run
        "flush",            \* waits for the frame it wrote to be flushed
        "failed"}           \* raised, and never released the lock

Chunks == [from : Nat, upto : Nat]
Size(c) == c.upto - c.from
IsEnd(c) == c.from = c.upto
Lesser(a, b) == IF a <= b THEN a ELSE b

TypeOK ==
  /\ open \in BOOLEAN
  /\ loop \in {"reading", "rst", "goaway", "ended"}
  /\ connWin \in Nat
  /\ strWin \in [Streams -> Nat]
  /\ pc \in [Streams -> Pcs]
  /\ chunk \in [Streams -> Chunks]
  /\ amount \in [Streams -> Nat]
  /\ queue \in [Streams -> Seq(Chunks)]
  /\ app \in [Streams -> {"new", "writing", "finished"}]
  /\ remaining \in [Streams -> Int \cup {None}]
  /\ fin \in [Streams -> {"no", "called", "done", "failed"}]
  /\ sent \in [Streams -> Nat]
  /\ ended \in [Streams -> BOOLEAN]
  /\ rst \in [Streams -> SUBSET {"reset", "StreamError"}]
  /\ accepted \in [Streams -> Nat]
  /\ declared \in [Streams -> Nat \cup {None}]
  /\ connCredit \in Nat
  /\ strCredit \in [Streams -> Nat]

Init ==
  /\ open = TRUE
  /\ loop = "reading"
  /\ connWin = ConnInit
  /\ strWin \in [Streams -> StreamInits]
  /\ pc = [s \in Streams |-> "idle"]
  /\ chunk = [s \in Streams |-> [from |-> 0, upto |-> 0]]
  /\ amount = [s \in Streams |-> 0]
  /\ queue = [s \in Streams |-> <<>>]
  /\ app = [s \in Streams |-> "new"]
  /\ remaining = [s \in Streams |-> None]
  /\ fin = [s \in Streams |-> "no"]
  /\ sent = [s \in Streams |-> 0]
  /\ ended = [s \in Streams |-> FALSE]
  /\ rst = [s \in Streams |-> {}]
  /\ accepted = [s \in Streams |-> 0]
  /\ declared = [s \in Streams |-> None]
  /\ connCredit = ConnInit
  /\ strCredit = strWin
-----------------------------------------------------------------------------
(* Stretches of coroutine code between two suspensions.                    *)

\* The holder of s's lock stands at p with the bytes c left to write.
Suspend(s, p, c, n) ==
  /\ pc' = [pc EXCEPT ![s] = p]
  /\ chunk' = [chunk EXCEPT ![s] = c]
  /\ amount' = [amount EXCEPT ![s] = n]

\* Mutant: the loop does not cut the chunk it has written.
MutantWriteData(s, c, n) ==
  \/ /\ open
     /\ sent' = [sent EXCEPT ![s] = @ + n]
     /\ Suspend(s, "flush", c, 0)
  \/ /\ ~open
     /\ Suspend(s, "failed", c, 0)
     /\ UNCHANGED sent

\* conn._write_frame(DATA, chunk[:n]).  IOStream.write raises when the
\* connection is closed; the handler's reset() then raises as well, and the
\* coroutine ends without releasing write_lock.
WriteData(s, c, n) ==
  \/ /\ open
     /\ sent' = [sent EXCEPT ![s] = @ + n]
     /\ Suspend(s, "flush", [c EXCEPT !.from = @ + n], 0)
  \/ /\ ~open
     /\ Suspend(s, "failed", c, 0)
     /\ UNCHANGED sent

\* What stream.window.consume(len(chunk)) asks of its parent.
Wanted(s, c) == Lesser(Size(c), strWin[s])

\* The two places at which Window.consume can suspend.
WaitForStream(s, c) ==
  /\ strWin[s] <= 0
  /\ Suspend(s, "parkStream", c, 0)
  /\ UNCHANGED <<windows, sent>>

WaitForConn(s, c) ==
  /\ strWin[s] > 0
  /\ connWin <= 0
  /\ Suspend(s, "parkConn", c, Wanted(s, c))
  /\ UNCHANGED <<windows, sent>>

\* Both windows have room: parent.consume() and consume() run to their ends.
ConsumeBoth(s, n) ==
  /\ strWin[s] > 0
  /\ connWin > 0
  /\ connWin' = connWin - n
  /\ strWin' = [strWin EXCEPT ![s] = @ - n]

\* Mutant: the round spends what the stream's window allows, as if parent.consume()
\* returned the amount it was asked for.
MutantWriteRound(s, c) ==
  \/ WaitForStream(s, c)
  \/ WaitForConn(s, c)
  \/ ConsumeBoth(s, Wanted(s, c)) /\ WriteData(s, c, Wanted(s, c))

\* One round of _write_chunk's loop, from the call of window.consume() on.
WriteRound(s, c) ==
  \/ WaitForStream(s, c)
  \/ WaitForConn(s, c)
  \/ LET n == Lesser(Wanted(s, c), connWin)
     IN  ConsumeBoth(s, n) /\ WriteData(s, c, n)

\* write_lock.release(): the lock is handed to the first waiter, if any.
Release(s) ==
  \/ /\ queue[s] = <<>>
     /\ Suspend(s, "idle", chunk[s], 0)
     /\ UNCHANGED queue
  \/ /\ queue[s] # <<>>
     /\ Suspend(s, "granted", Head(queue[s]), 0)
     /\ queue' = [queue EXCEPT ![s] = Tail(@)]

\* conn._write_frame(DATA, END_STREAM) and the outcome of finish().
WriteEnd(s) ==
  /\ ended' = [ended EXCEPT ![s] = @ \/ open]
  /\ fin' = [fin EXCEPT ![s] = IF open THEN "done" ELSE "failed"]

\* RST_STREAM for s, when the connection still takes frames.
WriteReset(s, why) ==
  rst' = [rst EXCEPT ![s] = IF open THEN @ \cup {why} ELSE @]
-----------------------------------------------------------------------------
(* Calls of the application (an HTTPConnection's user): write_headers()    *)
(* once, then write() and at last finish().                                *)

\* Stream.write(chunk) with n bytes; n = 0 is a call without a chunk.  rem is
\* the content length that was left when the call was made.
WriteBody(s, n, rem) ==
  \/ /\ n = 0
     /\ remaining' = [remaining EXCEPT ![s] = rem]
     /\ UNCHANGED <<windows, writer, sent, rst, accepted>>
  \/ /\ n > 0
     /\ rem # None
     /\ rem < n       \* HTTPOutputError, after the subtraction
     /\ remaining' = [remaining EXCEPT ![s] = rem - n]
     /\ WriteReset(s, "reset")
     /\ UNCHANGED <<windows, writer, sent, accepted>>
  \/ /\ n > 0
     /\ \/ rem = None /\ remaining' = [remaining EXCEPT ![s] = None]
        \/ rem # None /\ rem >= n /\ remaining' = [remaining EXCEPT ![s] = rem - n]
     /\ accepted' = [accepted EXCEPT ![s] = @ + n]
     /\ LET c == [from |-> accepted[s], upto |-> accepted[s] + n]
        IN  \/ /\ pc[s] = "idle"
               /\ WriteRound(s, c)
               /\ UNCHANGED queue
            \/ /\ pc[s] # "idle"
               /\ queue' = [queue EXCEPT ![s] = Append(@, c)]
               /\ UNCHANGED <<windows, pc, chunk, amount, sent>>
     /\ UNCHANGED rst

WriteHeaders(s, length, n) ==
  /\ app[s] = "new"
  /\ accepted[s] + n <= MaxBytes
  /\ app' = [app EXCEPT ![s] = "writing"]
  /\ declared' = [declared EXCEPT ![s] = length]
  /\ \/ open /\ WriteBody(s, n, length)
     \/ /\ ~open      \* the HEADERS frame is not written: StreamClosedError
        /\ remaining' = [remaining EXCEPT ![s] = length]
        /\ UNCHANGED <<windows, writer, sent, rst, accepted>>
  /\ UNCHANGED <<open, loop, fin, ended, credit>>

\* An application may go on after a write was refused; MaxBytes bounds how
\* long, too.
Write(s, n) ==
  /\ app[s] = "writing"
  /\ n > 0
  /\ accepted[s] + n <= MaxBytes
  /\ remaining[s] # None => remaining[s] + MaxBytes >= n
  /\ WriteBody(s, n, remaining[s])
  /\ UNCHANGED <<open, loop, app, declared, fin, ended, credit>>

\* Mutant: finish() does not wait for write_lock.
MutantFinish(s) ==
  /\ app[s] = "writing"
  /\ app' = [app EXCEPT ![s] = "finished"]
  /\ remaining[s] \in {None, 0}
  /\ WriteEnd(s)
  /\ UNCHANGED <<open, loop, windows, writer, remaining, accepted, declared, sent, rst,
                 credit>>

Finish(s) ==
  /\ app[s] = "writing"
  /\ app' = [app EXCEPT ![s] = "finished"]
  /\ \/ /\ remaining[s] \notin {None, 0}      \* HTTPOutputError
        /\ fin' = [fin EXCEPT ![s] = "failed"]
        /\ WriteReset(s, "reset")
        /\ UNCHANGED <<queue, ended>>
     \/ /\ remaining[s] \in {None, 0}
        /\ pc[s] = "idle"
        /\ WriteEnd(s)
        /\ UNCHANGED <<queue, rst>>
     \/ /\ remaining[s] \in {None, 0}
        /\ pc[s] # "idle"
        /\ fin' = [fin EXCEPT ![s] = "called"]
        /\ queue' = [queue EXCEPT ![s] =
                       Append(@, [from |-> accepted[s], upto |-> accepted[s]])]
        /\ UNCHANGED <<ended, rst>>
  /\ UNCHANGED <<open, loop, windows, pc, chunk, amount, remaining, accepted, declared,
                 sent, credit>>
-----------------------------------------------------------------------------
(* Coroutines the IOLoop resumes.                                          *)

\* write_lock.acquire() is done: _write_chunk or _write_end_stream goes on.
ResumeLock(s) ==
  /\ pc[s] = "granted"
  /\ \/ /\ ~IsEnd(chunk[s])
        /\ WriteRound(s, chunk[s])
        /\ UNCHANGED <<queue, ended, fin>>
     \/ /\ IsEnd(chunk[s])
        /\ WriteEnd(s)
        /\ Release(s)
        /\ UNCHANGED <<windows, sent>>
  /\ UNCHANGED <<open, loop, caller, rst, credit>>

\* stream.window.cond.wait() is done: consume() tests its size again.  Its
\* caller waits for it, so even without a further wait that runs later.
ResumeStreamWait(s) ==
  /\ pc[s] = "wakeStream"
  /\ \/ WaitForStream(s, chunk[s])
     \/ WaitForConn(s, chunk[s])
     \/ LET n == Lesser(Wanted(s, chunk[s]), connWin)
        IN  /\ ConsumeBoth(s, n)
            /\ Suspend(s, "returned", chunk[s], n)
            /\ UNCHANGED sent
  /\ UNCHANGED <<open, loop, queue, caller, fin, ended, rst, credit>>

\* Mutant: parent.consume() subtracts what it was asked for, not what it grants.
MutantResumeConnWait(s) ==
  /\ pc[s] = "wakeConn"
  /\ \/ /\ connWin <= 0
        /\ Suspend(s, "parkConn", chunk[s], amount[s])
        /\ UNCHANGED connWin
     \/ /\ connWin > 0
        /\ connWin' = connWin - amount[s]
        /\ Suspend(s, "parentReturned", chunk[s], Lesser(amount[s], connWin))
  /\ UNCHANGED <<open, loop, strWin, queue, caller, fin, sent, ended, rst, credit>>

\* conn.window.cond.wait() is done: parent.consume() tests its size again.
ResumeConnWait(s) ==
  /\ pc[s] = "wakeConn"
  /\ \/ /\ connWin <= 0
        /\ Suspend(s, "parkConn", chunk[s], amount[s])
        /\ UNCHANGED connWin
     \/ /\ connWin > 0
        /\ LET n == Lesser(amount[s], connWin)
           IN  /\ connWin' = connWin - n
               /\ Suspend(s, "parentReturned", chunk[s], n)
  /\ UNCHANGED <<open, loop, strWin, queue, caller, fin, sent, ended, rst, credit>>

\* Mutant: consume() subtracts the amount it had asked its parent for.
MutantParentReturned(s) ==
  /\ pc[s] = "parentReturned"
  /\ strWin' = [strWin EXCEPT ![s] = @ - Wanted(s, chunk[s])]
  /\ Suspend(s, "returned", chunk[s], amount[s])
  /\ UNCHANGED <<open, loop, connWin, queue, caller, fin, sent, ended, rst, credit>>

\* parent.consume() is done: the stream's consume() takes the amount it got
\* from its own window and returns it.
ParentReturned(s) ==
  /\ pc[s] = "parentReturned"
  /\ strWin' = [strWin EXCEPT ![s] = @ - amount[s]]
  /\ Suspend(s, "returned", chunk[s], amount[s])
  /\ UNCHANGED <<open, loop, connWin, queue, caller, fin, sent, ended, rst, credit>>

\* window.consume() is done: _write_chunk writes the frame it allows.
ConsumeReturned(s) ==
  /\ pc[s] = "returned"
  /\ WriteData(s, chunk[s], amount[s])
  /\ UNCHANGED <<open, loop, windows, queue, caller, fin, ended, rst, credit>>

\* Mutant: a write that is done keeps the lock.
MutantFlushed(s) ==
  /\ pc[s] = "flush"
  /\ Size(chunk[s]) > 0
  /\ WriteRound(s, chunk[s])
  /\ UNCHANGED <<open, loop, queue, caller, fin, ended, rst, credit>>

\* The frame was flushed: _write_chunk loops, or releases the lock and ends.
Flushed(s) ==
  /\ pc[s] = "flush"
  /\ \/ /\ Size(chunk[s]) > 0
        /\ WriteRound(s, chunk[s])
        /\ UNCHANGED queue
     \/ /\ Size(chunk[s]) = 0
        /\ Release(s)
        /\ UNCHANGED <<windows, sent>>
  /\ UNCHANGED <<open, loop, caller, fin, ended, rst, credit>>

\* The connection closed before the frame was flushed: StreamClosedError.
FlushFailed(s) ==
  /\ pc[s] = "flush"
  /\ ~open
  /\ Suspend(s, "failed", chunk[s], 0)
  /\ UNCHANGED <<open, loop, windows, queue, caller, fin, sent, ended, rst, credit>>
-----------------------------------------------------------------------------
(* The connection's loop: WINDOW_UPDATE frames (apply_window_update and     *)
(* adjust), the answers to errors, and the end of the connection.  A       *)
(* closed IOStream still serves the frames it had read before, so the loop *)
(* may handle some when `open` is FALSE; a frame it writes then raises.    *)

\* Mutant: Condition.notify(), which wakes one waiter.
MutantWakeOne ==
  \/ /\ \A s \in Streams : pc[s] # "parkConn"
     /\ UNCHANGED pc
  \/ \E s \in Streams : pc[s] = "parkConn" /\ pc' = [pc EXCEPT ![s] = "wakeConn"]

\* Condition.notify_all() on the connection's window.
WakeConnWaiters ==
  pc' = [s \in Streams |-> IF pc[s] = "parkConn" THEN "wakeConn" ELSE pc[s]]

\* Mutant: adjust() does not notify.
MutantWakeNobody(s) == UNCHANGED pc

\* Condition.notify_all() on a stream's window: at most the lock's holder waits.
WakeStreamWaiter(s) ==
  pc' = [pc EXCEPT ![s] = IF @ = "parkStream" THEN "wakeStream" ELSE @]

\* An error on the connection's window is a ConnectionError: the loop writes
\* GOAWAY and reads no more.  An overflowing window keeps its new size.
ConnWindowUpdate(n) ==
  /\ loop = "reading"
  /\ connCredit + n <= MaxCredit
  /\ connCredit' = connCredit + n
  /\ connWin' = connWin + n
  /\ \/ /\ n > 0
        /\ connWin + n <= MaxWindow
        /\ WakeConnWaiters
        /\ UNCHANGED loop
     \/ /\ n = 0 \/ connWin + n > MaxWindow
        /\ loop' = IF open THEN "goaway" ELSE "ended"
        /\ UNCHANGED pc
  /\ UNCHANGED <<open, strWin, chunk, amount, queue, caller, fin, sent, ended, rst,
                 strCredit>>

\* An error on a stream's window is a StreamError: the loop writes RST_STREAM.
StreamWindowUpdate(s, n) ==
  /\ loop = "reading"
  /\ strCredit[s] + n <= MaxCredit
  /\ strCredit' = [strCredit EXCEPT ![s] = @ + n]
  /\ strWin' = [strWin EXCEPT ![s] = @ + n]
  /\ \/ /\ n > 0
        /\ strWin[s] + n <= MaxWindow
        /\ WakeStreamWaiter(s)
        /\ UNCHANGED <<loop, rst>>
     \/ /\ n = 0 \/ strWin[s] + n > MaxWindow
        /\ loop' = IF open THEN "rst" ELSE "ended"
        /\ WriteReset(s, "StreamError")
        /\ UNCHANGED pc
  /\ UNCHANGED <<open, connWin, chunk, amount, queue, caller, fin, sent, ended,
                 connCredit>>

\* The frame the loop wrote was flushed: after RST_STREAM it reads on, after
\* GOAWAY it closes the connection.
LoopFlushed ==
  /\ open
  /\ \/ loop = "rst" /\ loop' = "reading" /\ UNCHANGED open
     \/ loop = "goaway" /\ open' = FALSE /\ loop' = "ended"
  /\ UNCHANGED <<windows, writer, caller, fin, sent, ended, rst, credit>>

\* The peer hangs up, or the connection is closed from outside the loop.
Close ==
  /\ open
  /\ open' = FALSE
  /\ UNCHANGED <<loop, windows, writer, caller, fin, sent, ended, rst, credit>>

\* A GOAWAY frame, or an error that is none of the protocol: the loop closes the
\* connection and ends.
LoopStops ==
  /\ loop = "reading"
  /\ open' = FALSE
  /\ loop' = "ended"
  /\ UNCHANGED <<windows, writer, caller, fin, sent, ended, rst, credit>>

\* The connection was closed: the loop's read, or its flush, fails.
LoopFails ==
  /\ ~open
  /\ loop # "ended"
  /\ loop' = "ended"
  /\ UNCHANGED <<open, windows, writer, caller, fin, sent, ended, rst, credit>>
-----------------------------------------------------------------------------
Resume(s) ==
  \/ ResumeLock(s)
  \/ ResumeStreamWait(s)
  \/ ResumeConnWait(s)
  \/ ParentReturned(s)
  \/ ConsumeReturned(s)
  \/ Flushed(s)
  \/ FlushFailed(s)

Call(s) ==
  \/ \E length \in Lengths \cup {None}, n \in 0 .. MaxBytes : WriteHeaders(s, length, n)
  \/ \E n \in 1 .. MaxBytes : Write(s, n)
  \/ Finish(s)

\* An increment is a 31-bit number: the reserved bit is stripped.
Increments == 0 .. MaxWindow

Peer ==
  \/ \E n \in Increments : ConnWindowUpdate(n)
  \/ \E s \in Streams, n \in Increments : StreamWindowUpdate(s, n)
  \/ Close
  \/ LoopStops

\* IOLoop callbacks and calls of the application interleave with the frames.
Next ==
  \/ Peer
  \/ LoopFlushed
  \/ LoopFails
  \/ \E s \in Streams : Call(s) \/ Resume(s)

Spec == Init /\ [][Next]_vars

\* The IOLoop alone, whatever the peer does.
LoopFairSpec ==
  /\ Spec
  /\ WF_vars(LoopFlushed)
  /\ \A s \in Streams : WF_vars(Resume(s))
-----------------------------------------------------------------------------
(* Properties.                                                             *)

\* A coroutine is parked on a window only while that window is empty: credit
\* that arrives always finds its waiters notified, although adjust() raises
\* before notify_all() when a window overflows.
NoLostWakeup ==
  \A s \in Streams :
    /\ pc[s] = "parkStream" => strWin[s] = 0
    /\ pc[s] = "parkConn" => connWin = 0 /\ strWin[s] > 0

\* Bytes the holder of s's lock has taken from a window and not yet written.
TakenFromStream(s) == IF pc[s] = "returned" THEN amount[s] ELSE 0
TakenFromConn(s) == IF pc[s] \in {"parentReturned", "returned"} THEN amount[s] ELSE 0

\* No credit of a stream is lost or spent twice, although consume() looks at
\* the window, waits for the parent and only then subtracts: what was granted
\* is in the window, on the wire, or held by the one coroutine that took it.  A
\* write that failed on a closed connection may have taken credit with it.
StreamCreditConserved ==
  \A s \in Streams :
    /\ strWin[s] >= 0
    /\ strWin[s] + sent[s] + TakenFromStream(s) <= strCredit[s]
    /\ open => strWin[s] + sent[s] + TakenFromStream(s) = strCredit[s]

\* The same for the connection's window, which the streams share.
ConnCreditConserved ==
  LET used == SumFunction([s \in Streams |-> sent[s] + TakenFromConn(s)])
  IN  /\ connWin >= 0
      /\ connWin + used <= connCredit
      /\ open => connWin + used = connCredit

\* END_STREAM follows every byte write() accepted, and exactly as many bytes as
\* Content-Length announced, although finish() may be called while chunks wait
\* for the lock or for credit, and writes may have been refused before.
EndIsComplete ==
  \A s \in Streams :
    ended[s] => /\ sent[s] = accepted[s]
                /\ declared[s] \in {None, sent[s]}

\* The bytes of a stream are written in the order of the calls of write():
\* a frame starts at the byte after the last one written.
InOrder ==
  [][\A s \in Streams :
       sent'[s] # sent[s] =>
         \/ pc[s] = "idle" /\ sent[s] = accepted[s]
         \/ pc[s] # "idle" /\ chunk[s].from = sent[s]]_vars

\* What the peer sees is a CreditPipe: the sender never writes more DATA than
\* the peer allowed, however the streams compete for the connection's window.
PeerView == INSTANCE CreditPipe WITH
  backlog  <- [s \in Streams |-> accepted[s] - sent[s]],
  strRoom  <- [s \in Streams |-> strCredit[s] - sent[s]],
  connRoom <- connCredit - SumFunction(sent)

ImplementsCreditPipe == PeerView!Spec

(* What the repository says of the program, and the program does not do.   *)

\* errors.py calls StreamError "An error which terminates a stream but leaves
\* the connection intact": after its RST_STREAM the stream sends no more.
StreamErrorTerminates ==
  [][\A s \in Streams :
       "StreamError" \in rst[s] => sent'[s] = sent[s] /\ ended'[s] = ended[s]]_vars

\* stream.py has finish() take the lock because "Callers are not required to wait
\* for write() before calling finish": when the write it waits for fails, finish()
\* ends, too.
FinishSettles ==
  \A s \in Streams :
    fin[s] = "called" /\ pc[s] = "failed" ~> fin[s] \in {"done", "failed"}
=============================================================================

-------------------------- MODULE FlowControl_proofs --------------------------
(***************************************************************************)
(* Theorems about FlowControl, for every finite set of streams and all     *)
(* window sizes.  An invariant of one stream, LocalInv, is inductive       *)
(* together with the types and the sign of the connection's window: a step *)
(* of one stream disturbs another only by taking from the connection's     *)
(* window, and it takes only when there is something to take.              *)
(*                                                                         *)
(* The second part is what the streams do together: they share the         *)
(* connection's credit without losing any, and to the peer they are a      *)
(* CreditPipe.  Both follow from one description of a step, Moves: what    *)
(* the window of the connection loses in a step of stream s, stream s has  *)
(* taken or sent.  ConnKept is inductive relative to IInv, the invariant   *)
(* of the first part.                                                      *)
(***************************************************************************)
EXTENDS FlowControl, Sums, SequenceTheorems, TLAPS

\* A coroutine waits only for a window that is empty.
Parked(s) ==
  /\ pc[s] = "parkStream" => strWin[s] = 0
  /\ pc[s] = "parkConn" => connWin = 0 /\ strWin[s] > 0

\* The amount that is asked of the parent window still fits the stream's window
\* when the parent answers, because only the lock's holder takes from that window.
Reserved(s) ==
  /\ pc[s] \in {"parkConn", "wakeConn", "parentReturned"} =>
       1 <= amount[s] /\ amount[s] <= strWin[s]
  /\ pc[s] \in {"parkConn", "wakeConn", "parentReturned", "returned"} =>
       1 <= amount[s] /\ amount[s] <= Size(chunk[s])

\* The bytes accepted and not yet sent are those of the holder's chunk and of the
\* chunks that wait, in this order and without a gap.
Holder(s) ==
  /\ pc[s] = "idle" => queue[s] = <<>> /\ sent[s] = accepted[s]
  /\ pc[s] # "idle" =>
       /\ chunk[s].from = sent[s]
       /\ chunk[s].from <= chunk[s].upto
       /\ pc[s] \notin {"granted", "flush", "failed"} => chunk[s].from < chunk[s].upto
       /\ queue[s] = <<>> => chunk[s].upto = accepted[s]
       /\ queue[s] # <<>> => /\ queue[s][1].from = chunk[s].upto
                             /\ queue[s][Len(queue[s])].upto = accepted[s]

Waiting(s) ==
  \A i \in 1 .. Len(queue[s]) :
    /\ queue[s][i].from <= queue[s][i].upto
    /\ i < Len(queue[s]) => queue[s][i + 1].from = queue[s][i].upto

\* finish() has been called, and Content-Length did not forbid it.
Complete(s) == app[s] = "finished" /\ remaining[s] \in {None, 0}

\* The call of finish() is the last to wait for the lock and to get it.
EndIsLast(s) ==
  /\ \A i \in 1 .. Len(queue[s]) :
       IsEnd(queue[s][i]) => i = Len(queue[s]) /\ Complete(s)
  /\ pc[s] = "granted" /\ IsEnd(chunk[s]) => queue[s] = <<>> /\ Complete(s)
  /\ ended[s] => pc[s] = "idle" /\ fin[s] = "done" /\ Complete(s)

\* What Content-Length leaves to be written, until a write was refused.
LengthKept(s) ==
  /\ app[s] = "new" => accepted[s] = 0
  /\ declared[s] # None => accepted[s] <= declared[s]
  /\ remaining[s] = None <=> declared[s] = None
  /\ remaining[s] # None /\ remaining[s] >= 0 =>
       accepted[s] + remaining[s] = declared[s]

CreditKept(s) ==
  /\ strWin[s] >= 0
  /\ strWin[s] + sent[s] + TakenFromStream(s) <= strCredit[s]
  /\ open => strWin[s] + sent[s] + TakenFromStream(s) = strCredit[s]

LocalInv(s) ==
  /\ Parked(s)
  /\ Reserved(s)
  /\ Holder(s)
  /\ Waiting(s)
  /\ EndIsLast(s)
  /\ LengthKept(s)
  /\ CreditKept(s)

IInv ==
  /\ TypeOK
  /\ connWin >= 0
  /\ \A s \in Streams : LocalInv(s)
-----------------------------------------------------------------------------
(* What a step of one stream does to the others.                           *)

SameAt(t) ==
  /\ strWin'[t] = strWin[t] /\ pc'[t] = pc[t] /\ chunk'[t] = chunk[t]
  /\ amount'[t] = amount[t] /\ queue'[t] = queue[t] /\ app'[t] = app[t]
  /\ remaining'[t] = remaining[t] /\ sent'[t] = sent[t] /\ ended'[t] = ended[t]
  /\ accepted'[t] = accepted[t] /\ declared'[t] = declared[t]
  /\ strCredit'[t] = strCredit[t] /\ fin'[t] = fin[t]

\* A step of stream s leaves every other stream's state alone, and the connection's
\* window with it unless that had room.
OthersAlone(s) ==
  /\ \A t \in Streams \ {s} : SameAt(t)
  /\ connWin' = connWin \/ connWin > 0
  /\ open' => open

\* Such a step keeps the invariant of the other streams.
LEMMA OthersKeepInv ==
  ASSUME IInv, NEW s \in Streams, OthersAlone(s)
  PROVE  \A t \in Streams \ {s} : LocalInv(t)'
<1> SUFFICES ASSUME NEW t \in Streams, t # s PROVE LocalInv(t)'
  OBVIOUS
<1>1. SameAt(t) /\ (connWin' = connWin \/ connWin > 0) /\ (open' => open)
  BY DEF OthersAlone
<1>2. LocalInv(t)
  BY DEF IInv
<1>3. Parked(t)'
  BY <1>1, <1>2 DEF LocalInv, Parked, SameAt
<1>4. Reserved(t)' /\ Holder(t)' /\ Waiting(t)'
  BY <1>1, <1>2 DEF LocalInv, Reserved, Holder, Waiting, SameAt
<1>5. EndIsLast(t)' /\ LengthKept(t)'
  BY <1>1, <1>2 DEF LocalInv, EndIsLast, Complete, LengthKept, SameAt
<1>6. CreditKept(t)'
  BY <1>1, <1>2 DEF LocalInv, CreditKept, TakenFromStream, SameAt
<1> QED
  BY <1>3, <1>4, <1>5, <1>6 DEF LocalInv
-----------------------------------------------------------------------------
(* The stretches of coroutine code.                                        *)

\* What one round of the write loop may assume and what it leaves behind, for
\* the chunk c of stream s.
RoundResult(s, c) ==
  /\ connWin' \in Nat
  /\ strWin' \in [Streams -> Nat]
  /\ pc' \in [Streams -> Pcs]
  /\ chunk' \in [Streams -> Chunks]
  /\ amount' \in [Streams -> Nat]
  /\ sent' \in [Streams -> Nat]
  /\ pc'[s] \in {"parkStream", "parkConn", "flush", "failed"}
  /\ chunk'[s].from = sent'[s]
  /\ chunk'[s].upto = c.upto
  /\ chunk'[s].from <= c.upto
  /\ pc'[s] \in {"parkStream", "parkConn"} => chunk'[s].from < c.upto
  /\ \A t \in Streams \ {s} :
       /\ strWin'[t] = strWin[t] /\ pc'[t] = pc[t] /\ chunk'[t] = chunk[t]
       /\ amount'[t] = amount[t] /\ sent'[t] = sent[t]
  /\ connWin' = connWin \/ connWin > 0
  /\ strWin'[s] >= 0
  /\ strWin'[s] + sent'[s] <= strWin[s] + sent[s]
  /\ open => strWin'[s] + sent'[s] = strWin[s] + sent[s]
  /\ pc'[s] = "parkStream" => strWin'[s] = 0
  /\ pc'[s] = "parkConn" =>
       /\ connWin' = 0
       /\ 1 <= amount'[s] /\ amount'[s] <= strWin'[s] /\ amount'[s] <= Size(chunk'[s])

LEMMA RoundStep ==
  ASSUME IInv, NEW s \in Streams, NEW c \in Chunks,
         c.from = sent[s], c.from < c.upto, WriteRound(s, c)
  PROVE  RoundResult(s, c)
<1> USE DEF TypeOK, Pcs, Chunks, Size
<1>0. /\ connWin \in Nat /\ strWin[s] \in Nat /\ sent[s] \in Nat
      /\ strWin \in [Streams -> Nat] /\ pc \in [Streams -> Pcs]
      /\ chunk \in [Streams -> Chunks] /\ amount \in [Streams -> Nat]
      /\ sent \in [Streams -> Nat]
  BY DEF IInv, LocalInv, CreditKept
<1>1. CASE WaitForStream(s, c)
  BY <1>0, <1>1 DEF RoundResult, WaitForStream, Suspend, windows
<1>2. CASE WaitForConn(s, c)
  <2>1. Wanted(s, c) \in Nat /\ 1 <= Wanted(s, c)
        /\ Wanted(s, c) <= strWin[s] /\ Wanted(s, c) <= Size(c)
    BY <1>0, <1>2 DEF Wanted, Lesser, WaitForConn
  <2> QED
    BY <1>0, <1>2, <2>1 DEF RoundResult, WaitForConn, Suspend, windows
<1>3. ASSUME NEW n, n = Lesser(Wanted(s, c), connWin),
             ConsumeBoth(s, n), WriteData(s, c, n)
      PROVE  RoundResult(s, c)
  <2>1. n \in Nat /\ 1 <= n /\ n <= strWin[s] /\ n <= connWin /\ n <= c.upto - c.from
    BY <1>0, <1>3 DEF Wanted, Lesser, ConsumeBoth
  <2>2. connWin' = connWin - n /\ strWin' = [strWin EXCEPT ![s] = @ - n] /\ connWin > 0
    BY <1>3 DEF ConsumeBoth
  <2>3. CASE open
    <3>1. /\ sent' = [sent EXCEPT ![s] = @ + n]
          /\ pc' = [pc EXCEPT ![s] = "flush"]
          /\ chunk' = [chunk EXCEPT ![s] = [c EXCEPT !.from = @ + n]]
          /\ amount' = [amount EXCEPT ![s] = 0]
      BY <1>3, <2>3 DEF WriteData, Suspend
    <3>2. [c EXCEPT !.from = @ + n] \in Chunks
      BY <2>1
    <3> QED
      BY <1>0, <2>1, <2>2, <3>1, <3>2 DEF RoundResult
  <2>4. CASE ~open
    <3>1. /\ sent' = sent
          /\ pc' = [pc EXCEPT ![s] = "failed"]
          /\ chunk' = [chunk EXCEPT ![s] = c]
          /\ amount' = [amount EXCEPT ![s] = 0]
      BY <1>3, <2>4 DEF WriteData, Suspend
    <3> QED
      BY <1>0, <2>1, <2>2, <2>4, <3>1 DEF RoundResult
  <2> QED
    BY <2>3, <2>4
<1> QED
  BY <1>1, <1>2, <1>3 DEF WriteRound

\* Handing the lock on, once the holder's bytes are all sent.
ReleaseResult(s) ==
  /\ pc' \in [Streams -> Pcs]
  /\ chunk' \in [Streams -> Chunks]
  /\ amount' \in [Streams -> Nat]
  /\ queue' \in [Streams -> Seq(Chunks)]
  /\ pc'[s] \in {"idle", "granted"}
  /\ \A t \in Streams \ {s} :
       /\ pc'[t] = pc[t] /\ chunk'[t] = chunk[t]
       /\ amount'[t] = amount[t] /\ queue'[t] = queue[t]
  /\ Holder(s)'
  /\ Waiting(s)'
  /\ EndIsLast(s)'

LEMMA ReleaseStep ==
  ASSUME IInv, NEW s \in Streams, Release(s),
         pc[s] # "idle", IsEnd(chunk[s]),
         UNCHANGED <<sent, accepted, app, remaining>>,
         ended'[s] => pc'[s] = "idle" /\ fin'[s] = "done" /\ Complete(s)'
  PROVE  ReleaseResult(s)
<1> DEFINE q == queue[s]
<1>1. /\ pc \in [Streams -> Pcs] /\ chunk \in [Streams -> Chunks]
      /\ amount \in [Streams -> Nat] /\ queue \in [Streams -> Seq(Chunks)]
      /\ q \in Seq(Chunks)
  BY DEF IInv, TypeOK
<1>2. Holder(s) /\ Waiting(s) /\ EndIsLast(s)
  BY DEF IInv, LocalInv
<1>3. chunk[s].upto = sent[s]
  BY <1>2 DEF Holder, IsEnd
<1>4. CASE q = <<>>
  <2>1. /\ pc' = [pc EXCEPT ![s] = "idle"]
        /\ chunk' = [chunk EXCEPT ![s] = chunk[s]]
        /\ amount' = [amount EXCEPT ![s] = 0]
        /\ queue' = queue
    BY <1>4 DEF Release, Suspend
  <2>2. Holder(s)'
    BY <1>1, <1>2, <1>3, <1>4, <2>1 DEF Holder
  <2>3. Waiting(s)' /\ EndIsLast(s)'
    BY <1>1, <1>2, <1>4, <2>1 DEF Waiting, EndIsLast, Complete
  <2> QED
    BY <1>1, <2>1, <2>2, <2>3 DEF ReleaseResult, Pcs
<1>5. CASE q # <<>>
  <2>1. /\ pc' = [pc EXCEPT ![s] = "granted"]
        /\ chunk' = [chunk EXCEPT ![s] = Head(q)]
        /\ amount' = [amount EXCEPT ![s] = 0]
        /\ queue' = [queue EXCEPT ![s] = Tail(q)]
    BY <1>5 DEF Release, Suspend
  <2>2. /\ Head(q) = q[1] /\ q[1] \in Chunks
        /\ Tail(q) \in Seq(Chunks)
        /\ Len(q) \in Nat /\ Len(q) >= 1
        /\ Len(Tail(q)) = Len(q) - 1
        /\ \A i \in 1 .. Len(q) - 1 : Tail(q)[i] = q[i + 1]
        /\ Tail(q) = <<>> <=> Len(q) = 1
    <3>1. Head(q) = q[1] /\ Len(q) \in Nat /\ Len(q) >= 1 /\ q[1] \in Chunks
      BY <1>1, <1>5, EmptySeq, LenProperties
    <3>2. /\ Tail(q) \in Seq(Chunks)
          /\ Len(Tail(q)) = Len(q) - 1
          /\ \A i \in 1 .. Len(Tail(q)) : Tail(q)[i] = q[i + 1]
      BY <1>1, <1>5, HeadTailProperties
    <3>3. Tail(q) = <<>> <=> Len(Tail(q)) = 0
      BY <3>2, EmptySeq
    <3> QED
      BY <3>1, <3>2, <3>3
  <2>3. chunk'[s] = q[1] /\ queue'[s] = Tail(q) /\ pc'[s] = "granted"
    BY <1>1, <2>1, <2>2
  <2>4. /\ q[1].from = sent[s]
        /\ q[Len(q)].upto = accepted[s]
        /\ \A i \in 1 .. Len(q) :
             /\ q[i].from <= q[i].upto
             /\ i < Len(q) => q[i + 1].from = q[i].upto
        /\ \A i \in 1 .. Len(q) : IsEnd(q[i]) => i = Len(q) /\ Complete(s)
    BY <1>2, <1>3, <1>5, <2>2 DEF Holder, Waiting, EndIsLast
  <2>5. Holder(s)'
    BY <2>2, <2>3, <2>4 DEF Holder
  <2>6. Waiting(s)'
    <3>1. \A i \in 1 .. Len(Tail(q)) :
            /\ Tail(q)[i].from <= Tail(q)[i].upto
            /\ i < Len(Tail(q)) => Tail(q)[i + 1].from = Tail(q)[i].upto
      <4> SUFFICES ASSUME NEW i \in 1 .. Len(Tail(q))
                   PROVE  /\ Tail(q)[i].from <= Tail(q)[i].upto
                          /\ i < Len(Tail(q)) => Tail(q)[i + 1].from = Tail(q)[i].upto
        OBVIOUS
      <4>1. Tail(q)[i] = q[i + 1] /\ i + 1 \in 1 .. Len(q)
        BY <2>2
      <4>2. i < Len(Tail(q)) => Tail(q)[i + 1] = q[i + 2] /\ i + 1 < Len(q)
        BY <2>2
      <4> QED
        BY <2>4, <4>1, <4>2
    <3> QED
      BY <2>3, <3>1 DEF Waiting
  <2>7. EndIsLast(s)'
    <3>1. Complete(s)' <=> Complete(s)
      BY DEF Complete
    <3>2. IsEnd(q[1]) => Tail(q) = <<>> /\ Complete(s)
      BY <2>2, <2>4
    <3>3. \A i \in 1 .. Len(Tail(q)) : IsEnd(Tail(q)[i]) => i = Len(Tail(q)) /\ Complete(s)
      BY <2>2, <2>4
    <3> QED
      BY <2>3, <3>1, <3>2, <3>3 DEF EndIsLast, IsEnd
  <2> QED
    BY <1>1, <2>1, <2>2, <2>3, <2>5, <2>6, <2>7 DEF ReleaseResult, Pcs
<1> QED
  BY <1>4, <1>5

\* Another chunk, or the call of finish(), waits for the lock.
QueueResult(s) ==
  /\ queue' \in [Streams -> Seq(Chunks)]
  /\ \A t \in Streams \ {s} : queue'[t] = queue[t]
  /\ Holder(s)'
  /\ Waiting(s)'
  /\ EndIsLast(s)'

LEMMA QueueStep ==
  ASSUME IInv, NEW s \in Streams, NEW c \in Chunks, pc[s] # "idle",
         queue' = [queue EXCEPT ![s] = Append(@, c)],
         UNCHANGED <<pc, chunk, sent>>, ended' = ended,
         c.from = accepted[s], c.from <= c.upto, accepted'[s] = c.upto,
         ~Complete(s), IsEnd(c) => Complete(s)',
         ~(pc[s] = "granted" /\ IsEnd(chunk[s]))
  PROVE  QueueResult(s)
<1> DEFINE q == queue[s]
<1>1. queue \in [Streams -> Seq(Chunks)] /\ q \in Seq(Chunks)
  BY DEF IInv, TypeOK
<1>2. Holder(s) /\ Waiting(s) /\ EndIsLast(s)
  BY DEF IInv, LocalInv
<1>3. queue'[s] = Append(q, c)
  BY <1>1
<1>4. /\ Append(q, c) \in Seq(Chunks)
      /\ Len(q) \in Nat
      /\ Len(Append(q, c)) = Len(q) + 1
      /\ \A i \in 1 .. Len(q) : Append(q, c)[i] = q[i]
      /\ Append(q, c)[Len(q) + 1] = c
      /\ q = <<>> <=> Len(q) = 0
      /\ Append(q, c) # <<>>
  BY <1>1
<1>5. Holder(s)'
  BY <1>2, <1>3, <1>4 DEF Holder
<1>6. Waiting(s)'
  BY <1>2, <1>3, <1>4 DEF Waiting, Holder
<1>7. EndIsLast(s)'
  <2>1. \A i \in 1 .. Len(q) : ~IsEnd(q[i])
    BY <1>2 DEF EndIsLast
  <2>2. \A i \in 1 .. Len(Append(q, c)) :
          IsEnd(Append(q, c)[i]) => i = Len(Append(q, c)) /\ Complete(s)'
    BY <1>4, <2>1
  <2>3. ~ended'[s] /\ ~(pc'[s] = "granted" /\ IsEnd(chunk'[s]))
    BY <1>2 DEF EndIsLast, IsEnd
  <2> QED
    BY <1>3, <2>2, <2>3 DEF EndIsLast, IsEnd
<1> QED
  BY <1>1, <1>3, <1>4, <1>5, <1>6, <1>7 DEF QueueResult

\* A round of the write loop keeps the parts of the stream's invariant it touches.
LEMMA RoundKeepsInv ==
  ASSUME IInv, NEW s \in Streams, NEW c \in Chunks, RoundResult(s, c),
         pc[s] \in {"idle", "granted", "flush"},
         UNCHANGED <<open, queue, ended, strCredit>>, ~ended[s],
         queue[s] = <<>> => c.upto = accepted'[s],
         queue[s] # <<>> => /\ queue[s][1].from = c.upto
                           /\ queue[s][Len(queue[s])].upto = accepted'[s],
         Complete(s) => Complete(s)'
  PROVE  /\ Parked(s)' /\ Reserved(s)' /\ Holder(s)'
         /\ Waiting(s)' /\ EndIsLast(s)' /\ CreditKept(s)'
<1>1. Parked(s) /\ Holder(s) /\ Waiting(s) /\ EndIsLast(s) /\ CreditKept(s)
  BY DEF IInv, LocalInv
<1>2. /\ strWin[s] \in Nat /\ sent[s] \in Nat /\ strCredit[s] \in Nat
      /\ strWin'[s] \in Nat /\ sent'[s] \in Nat /\ chunk'[s] \in Chunks
      /\ amount'[s] \in Nat
  BY DEF IInv, TypeOK, RoundResult
<1>3. Parked(s)'
  BY <1>2 DEF RoundResult, Parked
<1>4. Reserved(s)'
  BY <1>2 DEF RoundResult, Reserved, Size
<1>5. Holder(s)'
  BY <1>2 DEF RoundResult, Holder
<1>6. Waiting(s)'
  BY <1>1 DEF Waiting
<1>7. EndIsLast(s)'
  BY <1>1 DEF EndIsLast, RoundResult, IsEnd
<1>8. CreditKept(s)'
  <2>1. TakenFromStream(s) = 0 /\ TakenFromStream(s)' = 0
    BY DEF TakenFromStream, RoundResult
  <2> QED
    BY <1>1, <1>2, <2>1 DEF CreditKept, RoundResult
<1> QED
  BY <1>3, <1>4, <1>5, <1>6, <1>7, <1>8
-----------------------------------------------------------------------------
(* The calls of the application.                                           *)

\* What a step of stream s has to establish.
StepResult(s) ==
  /\ TypeOK'
  /\ connWin' >= 0
  /\ LocalInv(s)'
  /\ OthersAlone(s)

LEMMA WriteBodyStep ==
  ASSUME IInv, NEW s \in Streams, NEW n \in Nat, NEW rem \in Int \cup {None},
         WriteBody(s, n, rem), app[s] # "finished",
         app' = [app EXCEPT ![s] = "writing"],
         declared' \in [Streams -> Nat \cup {None}],
         \A t \in Streams \ {s} : declared'[t] = declared[t],
         rem = None <=> declared'[s] = None,
         rem # None /\ rem >= 0 => accepted[s] + rem = declared'[s],
         declared'[s] # None => accepted[s] <= declared'[s],
         UNCHANGED <<open, loop, fin, ended, credit>>
  PROVE  StepResult(s)
<1>1. TypeOK /\ connWin >= 0 /\ LocalInv(s)
  BY DEF IInv
<1>2. /\ ~ended[s] /\ ~Complete(s)
      /\ ~(pc[s] = "granted" /\ IsEnd(chunk[s]))
      /\ app' \in [Streams -> {"new", "writing", "finished"}]
      /\ app'[s] = "writing" /\ \A t \in Streams \ {s} : app'[t] = app[t]
  BY <1>1 DEF LocalInv, EndIsLast, Complete, TypeOK
<1>3. None \notin Int
  BY ConstantsAssumption
<1>4. UNCHANGED <<open, loop, fin, ended, connCredit, strCredit>>
  BY DEF credit
<1>5. CASE n = 0 /\ remaining' = [remaining EXCEPT ![s] = rem]
            /\ UNCHANGED <<windows, writer, sent, rst, accepted>>
  <2>1. UNCHANGED <<connWin, strWin, pc, chunk, amount, queue, sent, rst, accepted>>
    BY <1>5 DEF windows, writer
  <2>2. remaining'[s] = rem
    BY <1>1, <1>5 DEF TypeOK
  <2>3. LocalInv(s)'
    BY <1>1, <1>2, <1>4, <2>1, <2>2
    DEF LocalInv, Parked, Reserved, Holder, Waiting, EndIsLast, Complete, LengthKept,
        CreditKept, TakenFromStream
  <2>4. OthersAlone(s)
    BY <1>1, <1>2, <1>4, <1>5, <2>1 DEF OthersAlone, SameAt, TypeOK
  <2>5. TypeOK'
    BY <1>1, <1>2, <1>4, <1>5, <2>1 DEF TypeOK
  <2> QED
    BY <1>1, <2>1, <2>3, <2>4, <2>5 DEF StepResult
<1>6. CASE /\ n > 0 /\ rem # None /\ rem < n
           /\ remaining' = [remaining EXCEPT ![s] = rem - n]
           /\ WriteReset(s, "reset")
           /\ UNCHANGED <<windows, writer, sent, accepted>>
  <2>1. UNCHANGED <<connWin, strWin, pc, chunk, amount, queue, sent, accepted>>
    BY <1>6 DEF windows, writer
  <2>2. remaining'[s] = rem - n /\ rem - n \in Int /\ rem - n < 0
    BY <1>1, <1>6 DEF TypeOK
  <2>3. LocalInv(s)'
    BY <1>1, <1>2, <1>3, <1>4, <1>6, <2>1, <2>2
    DEF LocalInv, Parked, Reserved, Holder, Waiting, EndIsLast, Complete, LengthKept,
        CreditKept, TakenFromStream
  <2>4. OthersAlone(s)
    BY <1>1, <1>2, <1>4, <1>6, <2>1 DEF OthersAlone, SameAt, TypeOK
  <2>5. rst' \in [Streams -> SUBSET {"reset", "StreamError"}]
    BY <1>1, <1>6 DEF TypeOK, WriteReset
  <2>6. TypeOK'
    BY <1>1, <1>2, <1>4, <1>6, <2>1, <2>2, <2>5 DEF TypeOK
  <2> QED
    BY <1>1, <2>1, <2>3, <2>4, <2>6 DEF StepResult
<1>7. ASSUME n > 0,
             \/ rem = None /\ remaining' = [remaining EXCEPT ![s] = None]
             \/ rem # None /\ rem >= n /\ remaining' = [remaining EXCEPT ![s] = rem - n],
             accepted' = [accepted EXCEPT ![s] = @ + n],
             NEW c, c = [from |-> accepted[s], upto |-> accepted[s] + n],
             \/ pc[s] = "idle" /\ WriteRound(s, c) /\ UNCHANGED queue
             \/ /\ pc[s] # "idle"
                /\ queue' = [queue EXCEPT ![s] = Append(@, c)]
                /\ UNCHANGED <<windows, pc, chunk, amount, sent>>,
             UNCHANGED rst
      PROVE  StepResult(s)
  <2>1. /\ accepted[s] \in Nat /\ accepted'[s] = accepted[s] + n
        /\ accepted' \in [Streams -> Nat]
        /\ \A t \in Streams \ {s} : accepted'[t] = accepted[t]
    BY <1>1, <1>7 DEF TypeOK
  <2>2. /\ c \in Chunks /\ c.from = accepted[s] /\ c.upto = accepted'[s] /\ c.from < c.upto
        /\ ~IsEnd(c) /\ c.from <= c.upto
    BY <1>7, <2>1 DEF Chunks, IsEnd
  <2>3. /\ remaining' \in [Streams -> Int \cup {None}]
        /\ \A t \in Streams \ {s} : remaining'[t] = remaining[t]
        /\ LengthKept(s)'
    <3>1. CASE rem = None /\ remaining' = [remaining EXCEPT ![s] = None]
      BY <1>1, <1>2, <3>1 DEF TypeOK, LengthKept
    <3>2. CASE rem # None /\ rem >= n /\ remaining' = [remaining EXCEPT ![s] = rem - n]
      BY <1>1, <1>2, <1>3, <2>1, <3>2 DEF TypeOK, LengthKept
    <3> QED
      BY <1>7, <3>1, <3>2
  <2>4. CASE pc[s] = "idle" /\ WriteRound(s, c) /\ UNCHANGED queue
    <3>1. queue[s] = <<>> /\ c.from = sent[s]
      BY <1>1, <2>2, <2>4 DEF LocalInv, Holder
    <3>2. RoundResult(s, c)
      BY <2>2, <2>4, <3>1, RoundStep
    <3>3. /\ Parked(s)' /\ Reserved(s)' /\ Holder(s)'
          /\ Waiting(s)' /\ EndIsLast(s)' /\ CreditKept(s)'
      BY <1>2, <1>4, <2>2, <2>4, <3>1, <3>2, RoundKeepsInv
    <3>4. LocalInv(s)'
      BY <2>3, <3>3 DEF LocalInv
    <3>5. OthersAlone(s)
      BY <1>2, <1>4, <2>1, <2>3, <2>4, <3>2 DEF OthersAlone, SameAt, RoundResult
    <3>6. TypeOK'
      <4>1. /\ connWin' \in Nat /\ strWin' \in [Streams -> Nat] /\ pc' \in [Streams -> Pcs]
            /\ chunk' \in [Streams -> Chunks] /\ amount' \in [Streams -> Nat]
            /\ sent' \in [Streams -> Nat]
        BY <3>2 DEF RoundResult
      <4>2. UNCHANGED <<queue, rst>>
        BY <1>7, <2>4
      <4> QED
        BY <1>1, <1>2, <1>4, <2>1, <2>3, <4>1, <4>2 DEF TypeOK
    <3>7. connWin' >= 0
      BY <3>2 DEF RoundResult
    <3> QED
      BY <3>4, <3>5, <3>6, <3>7 DEF StepResult
  <2>5. CASE /\ pc[s] # "idle"
             /\ queue' = [queue EXCEPT ![s] = Append(@, c)]
             /\ UNCHANGED <<windows, pc, chunk, amount, sent>>
    <3>1. UNCHANGED <<connWin, strWin, pc, chunk, amount, sent>>
      BY <2>5 DEF windows
    <3>2. QueueResult(s)
      <4>1. UNCHANGED <<pc, chunk, sent>> /\ ended' = ended
        BY <1>4, <3>1
      <4> QED
        BY <1>2, <2>2, <2>5, <4>1, QueueStep
    <3>3. Parked(s)' /\ Reserved(s)' /\ CreditKept(s)'
      BY <1>1, <1>4, <3>1
      DEF LocalInv, Parked, Reserved, CreditKept, TakenFromStream
    <3>4. LocalInv(s)'
      BY <2>3, <3>2, <3>3 DEF LocalInv, QueueResult
    <3>5. OthersAlone(s)
      BY <1>2, <1>4, <2>1, <2>3, <3>1, <3>2 DEF OthersAlone, SameAt, QueueResult
    <3>6. TypeOK'
      BY <1>1, <1>2, <1>4, <1>7, <2>1, <2>3, <3>1, <3>2 DEF TypeOK, QueueResult
    <3> QED
      BY <1>1, <3>1, <3>4, <3>5, <3>6 DEF StepResult
  <2> QED
    BY <1>7, <2>4, <2>5
<1> QED
  BY <1>5, <1>6, <1>7 DEF WriteBody

LEMMA WriteHeadersStep ==
  ASSUME IInv, NEW s \in Streams, NEW length \in Lengths \cup {None}, NEW n \in Nat,
         WriteHeaders(s, length, n)
  PROVE  StepResult(s)
<1>1. TypeOK /\ connWin >= 0 /\ LocalInv(s)
  BY DEF IInv
<1>2. None \notin Int /\ length \in Nat \cup {None}
  BY ConstantsAssumption
<1>3. /\ app[s] = "new" /\ accepted[s] = 0
      /\ app' = [app EXCEPT ![s] = "writing"] /\ app'[s] = "writing"
      /\ declared' = [declared EXCEPT ![s] = length]
      /\ declared' \in [Streams -> Nat \cup {None}]
      /\ declared'[s] = length
      /\ \A t \in Streams \ {s} : declared'[t] = declared[t]
      /\ UNCHANGED <<open, loop, fin, ended, credit>>
  BY <1>1, <1>2 DEF WriteHeaders, TypeOK, LocalInv, LengthKept
<1>4. CASE WriteBody(s, n, length)
  <2>1. length \in Int \cup {None}
    BY <1>2
  <2>2. length # None /\ length >= 0 => accepted[s] + length = declared'[s]
    BY <1>2, <1>3
  <2>3. declared'[s] # None => accepted[s] <= declared'[s]
    BY <1>2, <1>3
  <2> QED
    BY <1>3, <1>4, <2>1, <2>2, <2>3, WriteBodyStep
<1>5. CASE /\ remaining' = [remaining EXCEPT ![s] = length]
           /\ UNCHANGED <<windows, writer, sent, rst, accepted>>
  <2>1. UNCHANGED <<connWin, strWin, pc, chunk, amount, queue, sent, rst, accepted,
                    open, loop, fin, ended, connCredit, strCredit>>
    BY <1>3, <1>5 DEF windows, writer, credit
  <2>2. remaining'[s] = length /\ remaining' \in [Streams -> Int \cup {None}]
    BY <1>1, <1>2, <1>5 DEF TypeOK
  <2>3. LengthKept(s)'
    BY <1>2, <1>3, <2>1, <2>2 DEF LengthKept
  <2>4. EndIsLast(s)'
    BY <1>1, <1>3, <2>1 DEF LocalInv, EndIsLast, Complete
  <2>5. LocalInv(s)'
    BY <1>1, <2>1, <2>3, <2>4
    DEF LocalInv, Parked, Reserved, Holder, Waiting, CreditKept, TakenFromStream
  <2>6. OthersAlone(s)
    BY <1>1, <1>3, <1>5, <2>1 DEF OthersAlone, SameAt, TypeOK
  <2>7. TypeOK'
    BY <1>1, <1>3, <2>1, <2>2 DEF TypeOK
  <2> QED
    BY <1>1, <2>1, <2>5, <2>6, <2>7 DEF StepResult
<1> QED
  BY <1>4, <1>5 DEF WriteHeaders

LEMMA WriteStep ==
  ASSUME IInv, NEW s \in Streams, NEW n \in Nat, Write(s, n)
  PROVE  StepResult(s)
<1>1. TypeOK /\ LocalInv(s)
  BY DEF IInv
<1>2. /\ app[s] = "writing" /\ WriteBody(s, n, remaining[s])
      /\ UNCHANGED <<open, loop, app, declared, fin, ended, credit>>
  BY DEF Write
<1>3. /\ app' = [app EXCEPT ![s] = "writing"]
      /\ declared' \in [Streams -> Nat \cup {None}]
      /\ remaining[s] \in Int \cup {None}
  BY <1>1, <1>2 DEF TypeOK
<1>4. /\ remaining[s] = None <=> declared'[s] = None
      /\ remaining[s] # None /\ remaining[s] >= 0 =>
           accepted[s] + remaining[s] = declared'[s]
      /\ declared'[s] # None => accepted[s] <= declared'[s]
  BY <1>1, <1>2 DEF LocalInv, LengthKept
<1> QED
  BY <1>2, <1>3, <1>4, WriteBodyStep

LEMMA FinishStep ==
  ASSUME IInv, NEW s \in Streams, Finish(s)
  PROVE  StepResult(s)
<1>1. TypeOK /\ connWin >= 0 /\ LocalInv(s)
  BY DEF IInv
<1>2. /\ app[s] = "writing" /\ app' = [app EXCEPT ![s] = "finished"]
      /\ app'[s] = "finished"
      /\ UNCHANGED <<open, loop, connWin, strWin, pc, chunk, amount, remaining, accepted,
                     declared, sent, connCredit, strCredit>>
  BY <1>1 DEF Finish, windows, credit, TypeOK
<1>3. /\ ~ended[s] /\ ~Complete(s)
      /\ ~(pc[s] = "granted" /\ IsEnd(chunk[s]))
  BY <1>1, <1>2 DEF LocalInv, EndIsLast, Complete
<1>4. Parked(s)' /\ Reserved(s)' /\ LengthKept(s)' /\ CreditKept(s)'
  BY <1>1, <1>2
  DEF LocalInv, Parked, Reserved, LengthKept, CreditKept, TakenFromStream
<1>5. app' \in [Streams -> {"new", "writing", "finished"}]
  BY <1>1, <1>2 DEF TypeOK
<1>6. CASE /\ fin' = [fin EXCEPT ![s] = "failed"]
           /\ WriteReset(s, "reset")
           /\ UNCHANGED <<queue, ended>>
  <2>1. EndIsLast(s)'
    BY <1>1, <1>2, <1>3, <1>6 DEF LocalInv, EndIsLast, Complete
  <2>2. Holder(s)' /\ Waiting(s)'
    BY <1>1, <1>2, <1>6 DEF LocalInv, Holder, Waiting
  <2>3. OthersAlone(s)
    BY <1>1, <1>2, <1>6 DEF OthersAlone, SameAt, TypeOK
  <2>4. rst' \in [Streams -> SUBSET {"reset", "StreamError"}]
    BY <1>1, <1>6 DEF TypeOK, WriteReset
  <2>5. TypeOK'
    BY <1>1, <1>2, <1>5, <1>6, <2>4 DEF TypeOK
  <2> QED
    BY <1>1, <1>2, <1>4, <2>1, <2>2, <2>3, <2>5 DEF StepResult, LocalInv
<1>7. CASE /\ remaining[s] \in {None, 0}
           /\ pc[s] = "idle"
           /\ WriteEnd(s)
           /\ UNCHANGED <<queue, rst>>
  <2>0. ended'[s] => fin'[s] = "done"
    BY <1>1, <1>3, <1>7 DEF WriteEnd, TypeOK
  <2>1. EndIsLast(s)'
    BY <1>1, <1>2, <1>3, <1>7, <2>0 DEF LocalInv, EndIsLast, Complete
  <2>2. Holder(s)' /\ Waiting(s)'
    BY <1>1, <1>2, <1>7 DEF LocalInv, Holder, Waiting
  <2>3. /\ ended' \in [Streams -> BOOLEAN]
        /\ fin' \in [Streams -> {"no", "called", "done", "failed"}]
        /\ \A t \in Streams \ {s} : ended'[t] = ended[t] /\ fin'[t] = fin[t]
    BY <1>1, <1>7 DEF WriteEnd, TypeOK
  <2>4. OthersAlone(s)
    BY <1>1, <1>2, <1>7, <2>3 DEF OthersAlone, SameAt, TypeOK
  <2>5. TypeOK'
    BY <1>1, <1>2, <1>5, <1>7, <2>3 DEF TypeOK
  <2> QED
    BY <1>1, <1>2, <1>4, <2>1, <2>2, <2>4, <2>5 DEF StepResult, LocalInv
<1>8. CASE /\ remaining[s] \in {None, 0}
           /\ pc[s] # "idle"
           /\ fin' = [fin EXCEPT ![s] = "called"]
           /\ queue' = [queue EXCEPT ![s] =
                          Append(@, [from |-> accepted[s], upto |-> accepted[s]])]
           /\ UNCHANGED <<ended, rst>>
  <2> DEFINE c == [from |-> accepted[s], upto |-> accepted[s]]
  <2>1. c \in Chunks /\ c.from = accepted[s] /\ c.upto = accepted'[s] /\ c.from <= c.upto
    BY <1>1, <1>2 DEF Chunks, TypeOK
  <2>2. Complete(s)' /\ UNCHANGED <<pc, chunk, sent>> /\ ended' = ended
    BY <1>2, <1>8 DEF Complete
  <2>3. QueueResult(s)
    <3> HIDE DEF c
    <3>1. queue' = [queue EXCEPT ![s] = Append(@, c)]
      BY <1>8 DEF c
    <3> QED
      BY <1>3, <1>8, <2>1, <2>2, <3>1, QueueStep
  <2>4. OthersAlone(s)
    BY <1>1, <1>2, <1>8, <2>3 DEF OthersAlone, SameAt, TypeOK, QueueResult
  <2>5. fin' \in [Streams -> {"no", "called", "done", "failed"}]
    BY <1>1, <1>8 DEF TypeOK
  <2>6. TypeOK'
    BY <1>1, <1>2, <1>5, <1>8, <2>3, <2>5 DEF TypeOK, QueueResult
  <2> QED
    BY <1>1, <1>2, <1>4, <2>3, <2>4, <2>6 DEF StepResult, LocalInv, QueueResult
<1> QED
  BY <1>6, <1>7, <1>8 DEF Finish
-----------------------------------------------------------------------------
(* The coroutines the IOLoop resumes.                                      *)

\* A round for the chunk the lock's holder has, when it is not done.
LEMMA HolderRoundStep ==
  ASSUME IInv, NEW s \in Streams, pc[s] \in {"granted", "flush"},
         Size(chunk[s]) > 0, WriteRound(s, chunk[s]),
         UNCHANGED <<open, loop, queue, caller, fin, ended, rst, credit>>
  PROVE  StepResult(s)
<1> DEFINE c == chunk[s]
<1>1. TypeOK /\ LocalInv(s) /\ c \in Chunks
  BY DEF IInv, TypeOK
<1>2. UNCHANGED <<open, loop, queue, app, remaining, accepted, declared, fin, ended, rst,
                  connCredit, strCredit>>
  BY DEF caller, credit
<1>3. c.from = sent[s] /\ c.from < c.upto
  BY <1>1 DEF LocalInv, Holder, Size, Chunks
<1>4. /\ queue[s] = <<>> => c.upto = accepted'[s]
      /\ queue[s] # <<>> => /\ queue[s][1].from = c.upto
                            /\ queue[s][Len(queue[s])].upto = accepted'[s]
  BY <1>1, <1>2 DEF LocalInv, Holder
<1>5. ~ended[s] /\ (Complete(s) => Complete(s)') /\ UNCHANGED <<open, queue, ended, strCredit>>
  BY <1>1, <1>2 DEF LocalInv, EndIsLast, Complete
<1>6. LengthKept(s)'
  BY <1>1, <1>2 DEF LocalInv, LengthKept
<1>7. WriteRound(s, c)
  OBVIOUS
<1> HIDE DEF c
<1>8. RoundResult(s, c)
  BY <1>1, <1>3, <1>7, RoundStep
<1>9. /\ Parked(s)' /\ Reserved(s)' /\ Holder(s)'
      /\ Waiting(s)' /\ EndIsLast(s)' /\ CreditKept(s)'
  BY <1>1, <1>4, <1>5, <1>8, RoundKeepsInv
<1>10. OthersAlone(s)
  BY <1>2, <1>8 DEF OthersAlone, SameAt, RoundResult
<1>11. /\ connWin' \in Nat /\ strWin' \in [Streams -> Nat] /\ pc' \in [Streams -> Pcs]
       /\ chunk' \in [Streams -> Chunks] /\ amount' \in [Streams -> Nat]
       /\ sent' \in [Streams -> Nat] /\ connWin' >= 0
  BY <1>8 DEF RoundResult
<1>12. TypeOK'
  BY <1>1, <1>2, <1>11 DEF TypeOK
<1> QED
  BY <1>6, <1>9, <1>10, <1>11, <1>12 DEF StepResult, LocalInv

LEMMA ResumeLockStep ==
  ASSUME IInv, NEW s \in Streams, ResumeLock(s)
  PROVE  StepResult(s)
<1>1. TypeOK /\ connWin >= 0 /\ LocalInv(s) /\ chunk[s] \in Chunks
  BY DEF IInv, TypeOK
<1>2. pc[s] = "granted" /\ UNCHANGED <<open, loop, caller, rst, credit>>
  BY DEF ResumeLock
<1>3. CASE /\ ~IsEnd(chunk[s])
           /\ WriteRound(s, chunk[s])
           /\ UNCHANGED <<queue, ended, fin>>
  <2>1. Size(chunk[s]) > 0
    BY <1>1, <1>2, <1>3 DEF LocalInv, Holder, IsEnd, Size, Chunks
  <2> QED
    BY <1>2, <1>3, <2>1, HolderRoundStep
<1>4. CASE /\ IsEnd(chunk[s])
           /\ WriteEnd(s)
           /\ Release(s)
           /\ UNCHANGED <<windows, sent>>
  <2>1. UNCHANGED <<open, loop, connWin, strWin, app, remaining, accepted, declared, rst,
                    sent, connCredit, strCredit>>
    BY <1>2, <1>4 DEF caller, credit, windows
  <2>2. queue[s] = <<>> /\ Complete(s)
    BY <1>1, <1>2, <1>4 DEF LocalInv, EndIsLast
  <2>3. pc' = [pc EXCEPT ![s] = "idle"]
    BY <1>4, <2>2 DEF Release, Suspend
  <2>4. pc'[s] = "idle" /\ Complete(s)'
    BY <1>1, <2>1, <2>2, <2>3 DEF TypeOK, Complete
  <2>5. ReleaseResult(s)
    <3>1. UNCHANGED <<sent, accepted, app, remaining>> /\ pc[s] # "idle"
      BY <1>2, <2>1
    <3>2. ended'[s] => fin'[s] = "done"
      BY <1>1, <1>2, <1>4 DEF LocalInv, EndIsLast, WriteEnd, TypeOK
    <3> QED
      BY <1>4, <2>4, <3>1, <3>2, ReleaseStep
  <2>6. LocalInv(s)'
    <3>1. Parked(s)' /\ Reserved(s)'
      BY <2>4 DEF Parked, Reserved
    <3>2. LengthKept(s)' /\ CreditKept(s)'
      BY <1>1, <1>2, <2>1, <2>4
      DEF LocalInv, LengthKept, CreditKept, TakenFromStream
    <3> QED
      BY <2>5, <3>1, <3>2 DEF LocalInv, ReleaseResult
  <2>7. /\ ended' \in [Streams -> BOOLEAN]
        /\ fin' \in [Streams -> {"no", "called", "done", "failed"}]
        /\ \A t \in Streams \ {s} : ended'[t] = ended[t] /\ fin'[t] = fin[t]
    BY <1>1, <1>4 DEF WriteEnd, TypeOK
  <2>8. OthersAlone(s)
    BY <2>1, <2>5, <2>7 DEF OthersAlone, SameAt, ReleaseResult
  <2>9. TypeOK'
    BY <1>1, <2>1, <2>5, <2>7 DEF TypeOK, ReleaseResult
  <2> QED
    BY <1>1, <2>1, <2>6, <2>8, <2>9 DEF StepResult
<1> QED
  BY <1>3, <1>4 DEF ResumeLock

LEMMA FlushedStep ==
  ASSUME IInv, NEW s \in Streams, Flushed(s)
  PROVE  StepResult(s)
<1>1. TypeOK /\ connWin >= 0 /\ LocalInv(s) /\ chunk[s] \in Chunks
  BY DEF IInv, TypeOK
<1>2. pc[s] = "flush" /\ UNCHANGED <<open, loop, caller, fin, ended, rst, credit>>
  BY DEF Flushed
<1>3. CASE /\ Size(chunk[s]) > 0
           /\ WriteRound(s, chunk[s])
           /\ UNCHANGED queue
  <2>1. UNCHANGED <<open, loop, queue, caller, fin, ended, rst, credit>>
    BY <1>2, <1>3
  <2> QED
    BY <1>2, <1>3, <2>1, HolderRoundStep
<1>4. CASE /\ Size(chunk[s]) = 0
           /\ Release(s)
           /\ UNCHANGED <<windows, sent>>
  <2>1. UNCHANGED <<open, loop, connWin, strWin, app, remaining, accepted, declared, fin,
                    ended, rst, sent, connCredit, strCredit>>
    BY <1>2, <1>4 DEF caller, credit, windows
  <2>2. IsEnd(chunk[s]) /\ ~ended[s] /\ pc[s] # "idle"
    BY <1>1, <1>2, <1>4 DEF IsEnd, Size, Chunks, LocalInv, EndIsLast
  <2>3. ReleaseResult(s)
    <3>1. UNCHANGED <<sent, accepted, app, remaining>> /\ ~ended'[s]
      BY <2>1, <2>2
    <3> QED
      BY <1>4, <2>2, <3>1, ReleaseStep
  <2>4. LocalInv(s)'
    <3>1. Parked(s)' /\ Reserved(s)'
      BY <2>3 DEF Parked, Reserved, ReleaseResult
    <3>2. LengthKept(s)' /\ CreditKept(s)'
      BY <1>1, <1>2, <2>1, <2>3
      DEF LocalInv, LengthKept, CreditKept, TakenFromStream, ReleaseResult
    <3> QED
      BY <2>3, <3>1, <3>2 DEF LocalInv, ReleaseResult
  <2>5. OthersAlone(s)
    BY <2>1, <2>3 DEF OthersAlone, SameAt, ReleaseResult
  <2>6. TypeOK'
    BY <1>1, <2>1, <2>3 DEF TypeOK, ReleaseResult
  <2> QED
    BY <1>1, <2>1, <2>4, <2>5, <2>6 DEF StepResult
<1> QED
  BY <1>3, <1>4 DEF Flushed

\* The holder of the lock goes from one place of its loop to another.
HolderMoves(s) ==
  /\ connWin' \in Nat /\ connWin' >= 0 /\ (connWin' = connWin \/ connWin > 0)
  /\ strWin' \in [Streams -> Nat] /\ pc' \in [Streams -> Pcs]
  /\ chunk' \in [Streams -> Chunks] /\ amount' \in [Streams -> Nat]
  /\ sent' \in [Streams -> Nat]
  /\ pc'[s] \notin {"idle", "granted"}
  /\ chunk'[s].from = sent'[s]
  /\ chunk'[s].upto = chunk[s].upto
  /\ chunk'[s].from <= chunk[s].upto
  /\ pc'[s] \notin {"flush", "failed"} => chunk'[s].from < chunk[s].upto
  /\ \A t \in Streams \ {s} :
       /\ strWin'[t] = strWin[t] /\ pc'[t] = pc[t] /\ chunk'[t] = chunk[t]
       /\ amount'[t] = amount[t] /\ sent'[t] = sent[t]

LEMMA HolderStep ==
  ASSUME IInv, NEW s \in Streams, pc[s] \notin {"idle", "granted"}, HolderMoves(s),
         UNCHANGED <<open, loop, queue, caller, fin, ended, rst, credit>>,
         Parked(s)', Reserved(s)', CreditKept(s)'
  PROVE  StepResult(s)
<1>1. TypeOK /\ LocalInv(s)
  BY DEF IInv
<1>2. UNCHANGED <<open, loop, queue, app, remaining, accepted, declared, fin, ended, rst,
                  connCredit, strCredit>>
  BY DEF caller, credit
<1>3. Holder(s)'
  BY <1>1, <1>2 DEF LocalInv, Holder, HolderMoves
<1>4. Waiting(s)' /\ EndIsLast(s)' /\ LengthKept(s)'
  BY <1>1, <1>2
  DEF LocalInv, Waiting, EndIsLast, Complete, LengthKept, IsEnd, HolderMoves
<1>5. OthersAlone(s)
  BY <1>2 DEF OthersAlone, SameAt, HolderMoves
<1>6. TypeOK' /\ connWin' >= 0
  BY <1>1, <1>2 DEF TypeOK, HolderMoves
<1> QED
  BY <1>3, <1>4, <1>5, <1>6 DEF StepResult, LocalInv

LEMMA ResumeStreamWaitStep ==
  ASSUME IInv, NEW s \in Streams, ResumeStreamWait(s)
  PROVE  StepResult(s)
<1>1. TypeOK /\ connWin >= 0 /\ LocalInv(s)
  BY DEF IInv
<1>2. /\ strWin[s] \in Nat /\ amount[s] \in Nat /\ sent[s] \in Nat
      /\ strCredit[s] \in Nat /\ connWin \in Nat /\ chunk[s] \in Chunks
      /\ chunk[s].from \in Nat /\ chunk[s].upto \in Nat
  BY <1>1 DEF TypeOK, Chunks
<1> DEFINE c == chunk[s]
<1>3. /\ pc[s] = "wakeStream"
      /\ UNCHANGED <<open, loop, queue, caller, fin, ended, rst, credit>>
  BY DEF ResumeStreamWait
<1>4. c.from = sent[s] /\ c.from < c.upto /\ CreditKept(s)
  BY <1>1, <1>3 DEF LocalInv, Holder
<1>5. open' = open /\ strCredit' = strCredit /\ TakenFromStream(s) = 0
  BY <1>3 DEF credit, TakenFromStream
<1>6. CASE WaitForStream(s, c)
  <2>1. /\ strWin[s] <= 0 /\ UNCHANGED <<connWin, strWin, sent>>
        /\ pc' = [pc EXCEPT ![s] = "parkStream"]
        /\ chunk' = [chunk EXCEPT ![s] = c] /\ amount' = [amount EXCEPT ![s] = 0]
    BY <1>6 DEF WaitForStream, Suspend, windows
  <2>2. HolderMoves(s)
    BY <1>1, <1>2, <1>4, <2>1 DEF HolderMoves, TypeOK, Pcs
  <2>3. Parked(s)' /\ Reserved(s)' /\ CreditKept(s)'
    BY <1>1, <1>2, <1>4, <1>5, <2>1
    DEF TypeOK, Parked, Reserved, CreditKept, TakenFromStream
  <2> QED
    BY <1>3, <2>2, <2>3, HolderStep
<1>7. CASE WaitForConn(s, c)
  <2>1. Wanted(s, c) \in Nat /\ 1 <= Wanted(s, c)
        /\ Wanted(s, c) <= strWin[s] /\ Wanted(s, c) <= Size(c)
    BY <1>2, <1>4, <1>7 DEF Wanted, Lesser, WaitForConn, Size
  <2>2. /\ strWin[s] > 0 /\ connWin <= 0 /\ UNCHANGED <<connWin, strWin, sent>>
        /\ pc' = [pc EXCEPT ![s] = "parkConn"]
        /\ chunk' = [chunk EXCEPT ![s] = c]
        /\ amount' = [amount EXCEPT ![s] = Wanted(s, c)]
    BY <1>7 DEF WaitForConn, Suspend, windows
  <2>3. HolderMoves(s)
    BY <1>1, <1>2, <1>4, <2>1, <2>2 DEF HolderMoves, TypeOK, Pcs
  <2>4. Parked(s)' /\ Reserved(s)' /\ CreditKept(s)'
    BY <1>1, <1>2, <1>4, <1>5, <2>1, <2>2
    DEF TypeOK, Parked, Reserved, CreditKept, TakenFromStream
  <2> QED
    BY <1>3, <2>3, <2>4, HolderStep
<1>8. ASSUME NEW n, n = Lesser(Wanted(s, c), connWin), ConsumeBoth(s, n),
             Suspend(s, "returned", c, n), UNCHANGED sent
      PROVE  StepResult(s)
  <2>1. /\ n \in Nat /\ 1 <= n /\ n <= strWin[s] /\ n <= connWin /\ n <= Size(c)
        /\ strWin[s] - n \in Nat /\ connWin - n \in Nat
    BY <1>2, <1>4, <1>8 DEF Wanted, Lesser, ConsumeBoth, Size
  <2>2. /\ connWin > 0 /\ connWin' = connWin - n
        /\ strWin' = [strWin EXCEPT ![s] = strWin[s] - n]
        /\ pc' = [pc EXCEPT ![s] = "returned"]
        /\ chunk' = [chunk EXCEPT ![s] = c] /\ amount' = [amount EXCEPT ![s] = n]
    BY <1>8 DEF ConsumeBoth, Suspend
  <2>3. /\ strWin'[s] = strWin[s] - n /\ pc'[s] = "returned" /\ chunk'[s] = c
        /\ amount'[s] = n /\ sent' = sent
    BY <1>1, <1>8, <2>2 DEF TypeOK
  <2>4. /\ strWin' \in [Streams -> Nat] /\ pc' \in [Streams -> Pcs]
        /\ chunk' \in [Streams -> Chunks] /\ amount' \in [Streams -> Nat]
        /\ sent' \in [Streams -> Nat]
        /\ \A t \in Streams \ {s} :
             /\ strWin'[t] = strWin[t] /\ pc'[t] = pc[t] /\ chunk'[t] = chunk[t]
             /\ amount'[t] = amount[t] /\ sent'[t] = sent[t]
    BY <1>1, <1>2, <1>8, <2>1, <2>2 DEF TypeOK, Pcs
  <2>5. HolderMoves(s)
    <3>1. connWin' \in Nat /\ connWin' >= 0 /\ connWin > 0
      BY <2>1, <2>2
    <3> QED
      BY <1>2, <1>4, <2>3, <2>4, <3>1 DEF HolderMoves
  <2>6. Parked(s)' /\ Reserved(s)'
    BY <2>1, <2>3 DEF Parked, Reserved
  <2>7. CreditKept(s)'
    BY <1>2, <1>4, <1>5, <2>1, <2>3 DEF CreditKept, TakenFromStream
  <2> QED
    BY <1>3, <2>5, <2>6, <2>7, HolderStep
<1> QED
  BY <1>6, <1>7, <1>8 DEF ResumeStreamWait
LEMMA ResumeConnWaitStep ==
  ASSUME IInv, NEW s \in Streams, ResumeConnWait(s)
  PROVE  StepResult(s)
<1> DEFINE c == chunk[s]
<1>1. TypeOK /\ connWin >= 0 /\ LocalInv(s)
  BY DEF IInv
<1>2. /\ strWin[s] \in Nat /\ amount[s] \in Nat /\ sent[s] \in Nat
      /\ strCredit[s] \in Nat /\ connWin \in Nat /\ c \in Chunks
      /\ c.from \in Nat /\ c.upto \in Nat
  BY <1>1 DEF TypeOK, Chunks
<1>3. /\ pc[s] = "wakeConn"
      /\ UNCHANGED <<open, loop, queue, caller, fin, ended, rst, credit>>
  BY DEF ResumeConnWait, windows
<1>4. c.from = sent[s] /\ c.from <= c.upto /\ CreditKept(s) /\ Reserved(s)
  BY <1>1, <1>3 DEF LocalInv, Holder
<1>5. open' = open /\ strCredit' = strCredit
  BY <1>3 DEF credit
<1>6. /\ c.from < c.upto /\ TakenFromStream(s) = 0
      /\ 1 <= amount[s] /\ amount[s] <= strWin[s] /\ amount[s] <= Size(c)
  BY <1>1, <1>3 DEF LocalInv, Holder, Reserved, TakenFromStream
<1>7. ASSUME NEW p \in {"parkConn", "parentReturned"}, NEW n \in Nat,
             p = "parkConn" => connWin = 0,
             1 <= n, n <= amount[s],
             Suspend(s, p, c, n),
             connWin' \in Nat, connWin' = connWin \/ connWin > 0,
             p = "parkConn" => connWin' = 0
      PROVE  StepResult(s)
  <2>1. UNCHANGED <<strWin, sent>>
    BY DEF ResumeConnWait
  <2>2. pc'[s] = p /\ chunk'[s] = c /\ amount'[s] = n
    BY <1>1, <1>7 DEF Suspend, TypeOK
  <2>3. HolderMoves(s)
    <3>1. /\ strWin' \in [Streams -> Nat] /\ pc' \in [Streams -> Pcs]
          /\ chunk' \in [Streams -> Chunks] /\ amount' \in [Streams -> Nat]
          /\ sent' \in [Streams -> Nat]
          /\ \A t \in Streams \ {s} :
               /\ strWin'[t] = strWin[t] /\ pc'[t] = pc[t] /\ chunk'[t] = chunk[t]
               /\ amount'[t] = amount[t] /\ sent'[t] = sent[t]
      BY <1>1, <1>2, <1>7, <2>1 DEF TypeOK, Pcs, Suspend
    <3> QED
      BY <1>4, <1>6, <1>7, <2>1, <2>2, <3>1 DEF HolderMoves
  <2>4. Parked(s)' /\ Reserved(s)'
    <3>1. /\ strWin'[s] = strWin[s] /\ Size(chunk'[s]) = Size(c)
          /\ strWin[s] > 0 /\ n <= strWin[s] /\ n <= Size(c)
      BY <1>2, <1>6, <1>7, <2>1, <2>2 DEF Size
    <3>2. pc'[s] # "parkStream" /\ (pc'[s] = "parkConn" => connWin' = 0)
      BY <1>7, <2>2
    <3> QED
      BY <1>7, <2>2, <3>1, <3>2 DEF Parked, Reserved
  <2>5. CreditKept(s)'
    BY <1>2, <1>4, <1>5, <1>6, <2>1, <2>2 DEF CreditKept, TakenFromStream
  <2> QED
    BY <1>3, <2>3, <2>4, <2>5, HolderStep
<1>8. CASE connWin <= 0 /\ Suspend(s, "parkConn", c, amount[s]) /\ UNCHANGED connWin
  BY <1>1, <1>2, <1>6, <1>7, <1>8
<1>9. ASSUME connWin > 0, NEW n, n = Lesser(amount[s], connWin), connWin' = connWin - n,
             Suspend(s, "parentReturned", c, n)
      PROVE  StepResult(s)
  <2>1. n \in Nat /\ 1 <= n /\ n <= amount[s] /\ connWin' \in Nat
    BY <1>2, <1>6, <1>9 DEF Lesser
  <2> QED
    BY <1>7, <1>9, <2>1
<1> QED
  BY <1>8, <1>9 DEF ResumeConnWait

LEMMA ParentReturnedStep ==
  ASSUME IInv, NEW s \in Streams, ParentReturned(s)
  PROVE  StepResult(s)
<1> DEFINE c == chunk[s]
<1>1. TypeOK /\ connWin >= 0 /\ LocalInv(s)
  BY DEF IInv
<1>2. /\ strWin[s] \in Nat /\ amount[s] \in Nat /\ sent[s] \in Nat
      /\ strCredit[s] \in Nat /\ connWin \in Nat /\ c \in Chunks
      /\ c.from \in Nat /\ c.upto \in Nat
  BY <1>1 DEF TypeOK, Chunks
<1>3. /\ pc[s] = "parentReturned"
      /\ UNCHANGED <<open, loop, queue, caller, fin, ended, rst, credit>>
  BY DEF ParentReturned, windows
<1>4. c.from = sent[s] /\ c.from <= c.upto /\ CreditKept(s) /\ Reserved(s)
  BY <1>1, <1>3 DEF LocalInv, Holder
<1>5. open' = open /\ strCredit' = strCredit
  BY <1>3 DEF credit
<1>6. /\ c.from < c.upto /\ TakenFromStream(s) = 0
      /\ 1 <= amount[s] /\ amount[s] <= strWin[s] /\ amount[s] <= Size(c)
  BY <1>1, <1>3 DEF LocalInv, Holder, Reserved, TakenFromStream
<1>7. /\ strWin' = [strWin EXCEPT ![s] = @ - amount[s]]
      /\ Suspend(s, "returned", c, amount[s])
      /\ UNCHANGED <<connWin, sent>>
  BY DEF ParentReturned
<1>8. /\ strWin'[s] = strWin[s] - amount[s] /\ pc'[s] = "returned" /\ chunk'[s] = c
      /\ amount'[s] = amount[s]
  BY <1>1, <1>7 DEF Suspend, TypeOK
<1>9. HolderMoves(s)
  BY <1>1, <1>2, <1>4, <1>6, <1>7 DEF HolderMoves, TypeOK, Pcs, Suspend
<1>10. Parked(s)' /\ Reserved(s)'
  BY <1>6, <1>8 DEF Parked, Reserved
<1>11. CreditKept(s)'
  BY <1>2, <1>4, <1>5, <1>6, <1>7, <1>8 DEF CreditKept, TakenFromStream
<1> QED
  BY <1>3, <1>9, <1>10, <1>11, HolderStep

LEMMA ConsumeReturnedStep ==
  ASSUME IInv, NEW s \in Streams, ConsumeReturned(s)
  PROVE  StepResult(s)
<1> DEFINE c == chunk[s]
<1>1. TypeOK /\ connWin >= 0 /\ LocalInv(s)
  BY DEF IInv
<1>2. /\ strWin[s] \in Nat /\ amount[s] \in Nat /\ sent[s] \in Nat
      /\ strCredit[s] \in Nat /\ connWin \in Nat /\ c \in Chunks
      /\ c.from \in Nat /\ c.upto \in Nat
  BY <1>1 DEF TypeOK, Chunks
<1>3. /\ pc[s] = "returned"
      /\ UNCHANGED <<open, loop, queue, caller, fin, ended, rst, credit>>
  BY DEF ConsumeReturned, windows
<1>4. c.from = sent[s] /\ c.from <= c.upto /\ CreditKept(s) /\ Reserved(s)
  BY <1>1, <1>3 DEF LocalInv, Holder
<1>5. open' = open /\ strCredit' = strCredit
  BY <1>3 DEF credit
<1>6. /\ c.from < c.upto /\ TakenFromStream(s) = amount[s]
      /\ 1 <= amount[s] /\ amount[s] <= c.upto - c.from
  BY <1>1, <1>3 DEF LocalInv, Holder, Reserved, TakenFromStream, Size
<1>7. WriteData(s, c, amount[s]) /\ UNCHANGED <<connWin, strWin>>
  BY DEF ConsumeReturned, windows
<1>8. CASE open
  <2> DEFINE d == [c EXCEPT !.from = @ + amount[s]]
  <2>1. /\ sent' = [sent EXCEPT ![s] = @ + amount[s]]
        /\ pc' = [pc EXCEPT ![s] = "flush"]
        /\ chunk' = [chunk EXCEPT ![s] = d]
        /\ amount' = [amount EXCEPT ![s] = 0]
    BY <1>7, <1>8 DEF WriteData, Suspend
  <2>2. d \in Chunks /\ d.from = c.from + amount[s] /\ d.upto = c.upto
    BY <1>2 DEF Chunks
  <2> HIDE DEF d
  <2>3. /\ pc'[s] = "flush" /\ chunk'[s] = d /\ sent'[s] = sent[s] + amount[s]
    BY <1>1, <2>1 DEF TypeOK
  <2>4. HolderMoves(s)
    BY <1>1, <1>2, <1>4, <1>6, <1>7, <2>1, <2>2, <2>3 DEF HolderMoves, TypeOK, Pcs
  <2>5. Parked(s)' /\ Reserved(s)'
    BY <2>3 DEF Parked, Reserved
  <2>6. CreditKept(s)'
    BY <1>2, <1>4, <1>5, <1>6, <1>7, <2>3 DEF CreditKept, TakenFromStream
  <2> QED
    BY <1>3, <2>4, <2>5, <2>6, HolderStep
<1>9. CASE ~open
  <2>1. Suspend(s, "failed", c, 0) /\ UNCHANGED sent
    BY <1>7, <1>9 DEF WriteData
  <2>2. pc'[s] = "failed" /\ chunk'[s] = c
    BY <1>1, <2>1 DEF Suspend, TypeOK
  <2>3. HolderMoves(s)
    BY <1>1, <1>2, <1>4, <1>7, <2>1 DEF HolderMoves, TypeOK, Pcs, Suspend
  <2>4. Parked(s)' /\ Reserved(s)'
    BY <2>2 DEF Parked, Reserved
  <2>5. CreditKept(s)'
    BY <1>2, <1>4, <1>5, <1>6, <1>7, <1>9, <2>1, <2>2 DEF CreditKept, TakenFromStream
  <2> QED
    BY <1>3, <2>3, <2>4, <2>5, HolderStep
<1> QED
  BY <1>8, <1>9

LEMMA FlushFailedStep ==
  ASSUME IInv, NEW s \in Streams, FlushFailed(s)
  PROVE  StepResult(s)
<1> DEFINE c == chunk[s]
<1>1. TypeOK /\ connWin >= 0 /\ LocalInv(s)
  BY DEF IInv
<1>2. /\ strWin[s] \in Nat /\ amount[s] \in Nat /\ sent[s] \in Nat
      /\ strCredit[s] \in Nat /\ connWin \in Nat /\ c \in Chunks
      /\ c.from \in Nat /\ c.upto \in Nat
  BY <1>1 DEF TypeOK, Chunks
<1>3. /\ pc[s] = "flush"
      /\ UNCHANGED <<open, loop, queue, caller, fin, ended, rst, credit>>
  BY DEF FlushFailed, windows
<1>4. c.from = sent[s] /\ c.from <= c.upto /\ CreditKept(s) /\ Reserved(s)
  BY <1>1, <1>3 DEF LocalInv, Holder
<1>5. open' = open /\ strCredit' = strCredit
  BY <1>3 DEF credit
<1>6. Suspend(s, "failed", c, 0) /\ UNCHANGED <<connWin, strWin, sent>>
  BY DEF FlushFailed, windows
<1>7. pc'[s] = "failed" /\ chunk'[s] = c
  BY <1>1, <1>6 DEF Suspend, TypeOK
<1>8. HolderMoves(s)
  BY <1>1, <1>2, <1>4, <1>6 DEF HolderMoves, TypeOK, Pcs, Suspend
<1>9. Parked(s)' /\ Reserved(s)'
  BY <1>7 DEF Parked, Reserved
<1>10. CreditKept(s)'
  BY <1>2, <1>3, <1>4, <1>5, <1>6, <1>7 DEF CreditKept, TakenFromStream
<1> QED
  BY <1>3, <1>8, <1>9, <1>10, HolderStep
-----------------------------------------------------------------------------
(* The frames of the peer, and the end of the connection.                  *)

\* A window that overflows wakes nobody, but then it was not empty: an increment
\* alone does not exceed MAX_WINDOW_SIZE.
LEMMA ConnWindowUpdateStep ==
  ASSUME IInv, NEW n \in Increments, ConnWindowUpdate(n)
  PROVE  IInv'
<1>1. TypeOK /\ connWin >= 0 /\ \A s \in Streams : LocalInv(s)
  BY DEF IInv
<1>2. n \in Nat /\ n <= MaxWindow /\ connWin \in Nat /\ MaxWindow \in Nat
  BY <1>1, ConstantsAssumption DEF Increments, TypeOK
<1>3. /\ connWin' = connWin + n /\ connCredit' = connCredit + n
      /\ UNCHANGED <<open, strWin, chunk, amount, queue, app, remaining, accepted, declared,
                     fin, sent, ended, rst, strCredit>>
  BY DEF ConnWindowUpdate, caller
<1>4. loop' \in {"reading", "rst", "goaway", "ended"}
  BY <1>1 DEF ConnWindowUpdate, TypeOK
<1>5. pc' \in [Streams -> Pcs]
      /\ \A s \in Streams :
           pc'[s] = pc[s] \/ (pc[s] = "parkConn" /\ pc'[s] = "wakeConn")
  <2>1. CASE WakeConnWaiters
    <3>1. \A s \in Streams : pc[s] \in Pcs /\ "wakeConn" \in Pcs
      BY <1>1 DEF TypeOK, Pcs
    <3> QED
      BY <2>1, <3>1 DEF WakeConnWaiters
  <2>2. CASE UNCHANGED pc
    BY <1>1, <2>2 DEF TypeOK
  <2> QED
    BY <2>1, <2>2 DEF ConnWindowUpdate
<1>6. \A s \in Streams : pc'[s] = "parkConn" => connWin' = 0
  <2>1. CASE WakeConnWaiters
    BY <2>1 DEF WakeConnWaiters
  <2>2. CASE n = 0 /\ UNCHANGED pc
    BY <1>1, <1>2, <1>3, <2>2 DEF LocalInv, Parked
  <2>3. CASE connWin + n > MaxWindow /\ UNCHANGED pc
    <3>1. connWin > 0
      BY <1>2, <2>3
    <3> QED
      BY <1>1, <1>2, <2>3, <3>1 DEF LocalInv, Parked
  <2> QED
    BY <2>1, <2>2, <2>3 DEF ConnWindowUpdate
<1>7. TypeOK' /\ connWin' >= 0
  <2>1. connWin' \in Nat /\ connCredit' \in Nat
    BY <1>1, <1>2, <1>3 DEF TypeOK
  <2> QED
    BY <1>1, <1>3, <1>4, <1>5, <2>1 DEF TypeOK
<1>8. ASSUME NEW s \in Streams PROVE LocalInv(s)'
  <2>1. LocalInv(s) /\ (pc'[s] = pc[s] \/ (pc[s] = "parkConn" /\ pc'[s] = "wakeConn"))
    BY <1>1, <1>5
  <2>2. Parked(s)'
    BY <1>3, <1>6, <2>1 DEF LocalInv, Parked
  <2>3. Reserved(s)' /\ Holder(s)' /\ Waiting(s)'
    BY <1>3, <2>1 DEF LocalInv, Reserved, Holder, Waiting
  <2>4. EndIsLast(s)' /\ LengthKept(s)'
    BY <1>3, <2>1 DEF LocalInv, EndIsLast, LengthKept, Complete
  <2>5. CreditKept(s)'
    BY <1>3, <2>1 DEF LocalInv, CreditKept, TakenFromStream
  <2> QED
    BY <2>2, <2>3, <2>4, <2>5 DEF LocalInv
<1> QED
  BY <1>7, <1>8 DEF IInv

LEMMA StreamWindowUpdateStep ==
  ASSUME IInv, NEW s \in Streams, NEW n \in Increments, StreamWindowUpdate(s, n)
  PROVE  StepResult(s)
<1>1. TypeOK /\ connWin >= 0 /\ LocalInv(s)
  BY DEF IInv
<1>2. /\ n \in Nat /\ n <= MaxWindow /\ MaxWindow \in Nat /\ strWin[s] \in Nat
      /\ strCredit[s] \in Nat /\ sent[s] \in Nat /\ amount[s] \in Nat
  BY <1>1, ConstantsAssumption DEF Increments, TypeOK, LocalInv, CreditKept
<1>3. /\ strWin' = [strWin EXCEPT ![s] = @ + n]
      /\ strCredit' = [strCredit EXCEPT ![s] = @ + n]
      /\ UNCHANGED <<open, connWin, chunk, amount, queue, app, remaining, accepted, declared,
                     fin, sent, ended, connCredit>>
  BY DEF StreamWindowUpdate, caller
<1>4. /\ strWin'[s] = strWin[s] + n /\ strCredit'[s] = strCredit[s] + n
      /\ strWin' \in [Streams -> Nat] /\ strCredit' \in [Streams -> Nat]
  BY <1>1, <1>2, <1>3 DEF TypeOK
<1>5. /\ pc' \in [Streams -> Pcs]
      /\ \A t \in Streams \ {s} : pc'[t] = pc[t]
      /\ pc'[s] = pc[s] \/ (pc[s] = "parkStream" /\ pc'[s] = "wakeStream")
      /\ loop' \in {"reading", "rst", "goaway", "ended"}
      /\ rst' \in [Streams -> SUBSET {"reset", "StreamError"}]
  <2>1. CASE WakeStreamWaiter(s) /\ UNCHANGED <<loop, rst>>
    <3>1. pc \in [Streams -> Pcs] /\ "wakeStream" \in Pcs
      BY <1>1 DEF TypeOK, Pcs
    <3>2. /\ pc' \in [Streams -> Pcs]
          /\ \A t \in Streams \ {s} : pc'[t] = pc[t]
          /\ pc'[s] = pc[s] \/ (pc[s] = "parkStream" /\ pc'[s] = "wakeStream")
      BY <2>1, <3>1 DEF WakeStreamWaiter
    <3> QED
      BY <1>1, <2>1, <3>2 DEF TypeOK
  <2>2. CASE loop' \in {"rst", "ended"} /\ WriteReset(s, "StreamError") /\ UNCHANGED pc
    <3>1. rst' \in [Streams -> SUBSET {"reset", "StreamError"}]
      BY <1>1, <2>2 DEF WriteReset, TypeOK
    <3>2. pc \in [Streams -> Pcs] /\ pc' = pc /\ loop' \in {"rst", "ended"}
      BY <1>1, <2>2 DEF TypeOK
    <3> QED
      BY <3>1, <3>2
  <2> QED
    BY <2>1, <2>2 DEF StreamWindowUpdate
<1>6. pc'[s] = "parkStream" => strWin'[s] = 0
  <2>1. CASE WakeStreamWaiter(s)
    BY <1>1, <2>1 DEF WakeStreamWaiter, TypeOK
  <2>2. CASE n = 0 /\ UNCHANGED pc
    BY <1>1, <1>2, <1>4, <2>2 DEF LocalInv, Parked
  <2>3. CASE strWin[s] + n > MaxWindow /\ UNCHANGED pc
    <3>1. strWin[s] > 0
      BY <1>2, <2>3
    <3> QED
      BY <1>1, <1>2, <2>3, <3>1 DEF LocalInv, Parked
  <2> QED
    BY <2>1, <2>2, <2>3 DEF StreamWindowUpdate
<1>7. Parked(s)'
  BY <1>1, <1>2, <1>3, <1>4, <1>5, <1>6 DEF LocalInv, Parked
<1>8. Reserved(s)'
  BY <1>1, <1>2, <1>3, <1>4, <1>5 DEF LocalInv, Reserved
<1>9. Holder(s)' /\ Waiting(s)' /\ EndIsLast(s)' /\ LengthKept(s)'
  BY <1>1, <1>3, <1>5 DEF LocalInv, Holder, Waiting, EndIsLast, LengthKept, Complete
<1>10. CreditKept(s)'
  BY <1>1, <1>2, <1>3, <1>4, <1>5 DEF LocalInv, CreditKept, TakenFromStream
<1>11. OthersAlone(s)
  BY <1>1, <1>3, <1>5 DEF OthersAlone, SameAt, TypeOK
<1>12. TypeOK'
  BY <1>1, <1>3, <1>4, <1>5 DEF TypeOK
<1> QED
  BY <1>1, <1>3, <1>7, <1>8, <1>9, <1>10, <1>11, <1>12 DEF StepResult, LocalInv

\* The rest disturbs no stream.
LEMMA QuietStep ==
  ASSUME IInv, open' \in BOOLEAN, open' => open, loop' \in {"reading", "rst", "goaway", "ended"},
         UNCHANGED <<windows, writer, caller, fin, sent, ended, rst, credit>>
  PROVE  IInv'
<1>1. TypeOK /\ connWin >= 0 /\ \A s \in Streams : LocalInv(s)
  BY DEF IInv
<1>2. UNCHANGED <<connWin, strWin, pc, chunk, amount, queue, app, remaining, accepted,
                  declared, fin, sent, ended, rst, connCredit, strCredit>>
  BY DEF windows, writer, caller, credit
<1>3. TypeOK' /\ connWin' >= 0
  BY <1>1, <1>2 DEF TypeOK
<1>4. \A s \in Streams : LocalInv(s)'
  BY <1>1, <1>2
  DEF LocalInv, Parked, Reserved, Holder, Waiting, EndIsLast, LengthKept, Complete,
      CreditKept, TakenFromStream
<1> QED
  BY <1>3, <1>4 DEF IInv
-----------------------------------------------------------------------------
(* The invariant.                                                          *)

LEMMA InitInv == Init => IInv
<1> SUFFICES ASSUME Init PROVE IInv
  OBVIOUS
<1>1. /\ \A i \in StreamInits : i \in Nat
      /\ ConnInit \in Nat
  BY ConstantsAssumption
<1>2. TypeOK
  <2>1. [from |-> 0, upto |-> 0] \in Chunks
    BY DEF Chunks
  <2>2. <<>> \in Seq(Chunks)
    BY EmptySeq
  <2>3. strWin \in [Streams -> Nat]
    BY <1>1 DEF Init
  <2> QED
    BY <1>1, <2>1, <2>2, <2>3 DEF Init, TypeOK, Pcs
<1>3. ASSUME NEW s \in Streams PROVE LocalInv(s)
  <2>1. /\ pc[s] = "idle" /\ queue[s] = <<>> /\ sent[s] = 0 /\ accepted[s] = 0
        /\ ended[s] = FALSE /\ remaining[s] = None /\ declared[s] = None
        /\ strWin[s] \in Nat /\ strCredit[s] = strWin[s]
        /\ Len(queue[s]) = 0
    BY <1>1, EmptySeq DEF Init
  <2>2. Parked(s) /\ Reserved(s) /\ Holder(s) /\ Waiting(s)
    BY <2>1 DEF Parked, Reserved, Holder, Waiting
  <2>3. EndIsLast(s) /\ LengthKept(s) /\ CreditKept(s)
    BY <2>1 DEF EndIsLast, LengthKept, CreditKept, TakenFromStream
  <2> QED
    BY <2>2, <2>3 DEF LocalInv
<1> QED
  BY <1>1, <1>2, <1>3 DEF IInv, Init

LEMMA NextInv == IInv /\ [Next]_vars => IInv'
<1> SUFFICES ASSUME IInv, [Next]_vars PROVE IInv'
  OBVIOUS
<1>1. ASSUME NEW s \in Streams, StepResult(s) PROVE IInv'
  <2>1. \A t \in Streams \ {s} : LocalInv(t)'
    BY <1>1, OthersKeepInv DEF StepResult
  <2> QED
    BY <1>1, <2>1 DEF StepResult, IInv
<1>2. ASSUME NEW n \in Increments, ConnWindowUpdate(n) PROVE IInv'
  BY <1>2, ConnWindowUpdateStep
<1>3. ASSUME NEW s \in Streams, NEW n \in Increments, StreamWindowUpdate(s, n) PROVE IInv'
  BY <1>1, <1>3, StreamWindowUpdateStep
<1>4. CASE Close
  BY <1>4, QuietStep DEF Close, IInv, TypeOK
<1>5. CASE LoopFlushed
  BY <1>5, QuietStep DEF LoopFlushed, IInv, TypeOK
<1>9. CASE LoopStops
  BY <1>9, QuietStep DEF LoopStops, IInv, TypeOK
<1>10. CASE LoopFails
  BY <1>10, QuietStep DEF LoopFails, IInv, TypeOK
<1>6. ASSUME NEW s \in Streams, Call(s) PROVE IInv'
  <2>0. \A n \in 0 .. MaxBytes : n \in Nat
    BY ConstantsAssumption
  <2>1. ASSUME NEW length \in Lengths \cup {None}, NEW n \in 0 .. MaxBytes,
               WriteHeaders(s, length, n)
        PROVE  IInv'
    BY <1>1, <2>0, <2>1, WriteHeadersStep
  <2>2. ASSUME NEW n \in 1 .. MaxBytes, Write(s, n) PROVE IInv'
    <3>1. n \in Nat
      BY ConstantsAssumption
    <3> QED
      BY <1>1, <2>2, <3>1, WriteStep
  <2>3. CASE Finish(s)
    BY <1>1, <2>3, FinishStep
  <2> QED
    BY <1>6, <2>1, <2>2, <2>3 DEF Call
<1>7. ASSUME NEW s \in Streams, Resume(s) PROVE IInv'
  <2>1. CASE ResumeLock(s)
    BY <1>1, <2>1, ResumeLockStep
  <2>2. CASE ResumeStreamWait(s)
    BY <1>1, <2>2, ResumeStreamWaitStep
  <2>3. CASE ResumeConnWait(s)
    BY <1>1, <2>3, ResumeConnWaitStep
  <2>4. CASE ParentReturned(s)
    BY <1>1, <2>4, ParentReturnedStep
  <2>5. CASE ConsumeReturned(s)
    BY <1>1, <2>5, ConsumeReturnedStep
  <2>6. CASE Flushed(s)
    BY <1>1, <2>6, FlushedStep
  <2>7. CASE FlushFailed(s)
    BY <1>1, <2>7, FlushFailedStep
  <2> QED
    BY <1>7, <2>1, <2>2, <2>3, <2>4, <2>5, <2>6, <2>7 DEF Resume
<1>8. CASE UNCHANGED vars
  <2>1. /\ UNCHANGED <<open, loop>>
        /\ UNCHANGED <<windows, writer, caller, fin, sent, ended, rst, credit>>
    BY <1>8 DEF vars
  <2> QED
    BY <2>1, QuietStep DEF IInv, TypeOK
<1> QED
  BY <1>2, <1>3, <1>4, <1>5, <1>6, <1>7, <1>8, <1>9, <1>10 DEF Next, Peer

\* The strengthened invariant holds in every reachable state: the types, the sign
\* of the connection's window, and LocalInv of every stream.
THEOREM Invariance == Spec => []IInv
  BY InitInv, NextInv, PTL DEF Spec
-----------------------------------------------------------------------------
(* What it implies.                                                        *)

\* Every variable keeps its type: in particular no window, no amount and no
\* position in a chunk becomes negative.
THEOREM TypeCorrect == Spec => []TypeOK
<1>1. IInv => TypeOK
  BY DEF IInv
<1> QED
  BY <1>1, Invariance, PTL

\* For any number of streams, a coroutine is parked on a window only while that
\* window is empty: adjust() raises before notify_all() only when nobody waits.
THEOREM NoWakeupIsLost == Spec => []NoLostWakeup
<1>1. IInv => NoLostWakeup
  BY DEF IInv, LocalInv, Parked, NoLostWakeup
<1> QED
  BY <1>1, Invariance, PTL

\* A stream never sends more than its peer granted it, and loses no credit while
\* the connection is open, whatever happens between the look at the window and
\* the subtraction in consume().
THEOREM StreamCreditIsConserved == Spec => []StreamCreditConserved
<1>1. IInv => StreamCreditConserved
  BY DEF IInv, LocalInv, CreditKept, StreamCreditConserved
<1> QED
  BY <1>1, Invariance, PTL

\* END_STREAM is written after every byte that write() accepted, and after
\* Content-Length bytes if that was declared.
THEOREM EndStreamIsComplete == Spec => []EndIsComplete
<1>1. IInv => EndIsComplete
  <2> SUFFICES ASSUME IInv, NEW s \in Streams, ended[s]
               PROVE  sent[s] = accepted[s] /\ declared[s] \in {None, sent[s]}
    BY DEF EndIsComplete
  <2>1. /\ pc[s] = "idle" /\ Complete(s) /\ Holder(s) /\ LengthKept(s)
        /\ accepted[s] \in Nat
    BY DEF IInv, TypeOK, LocalInv, EndIsLast
  <2>2. sent[s] = accepted[s]
    BY <2>1 DEF Holder
  <2>3. CASE remaining[s] = None
    BY <2>1, <2>2, <2>3 DEF LengthKept
  <2>4. CASE remaining[s] = 0
    <3>1. 0 # None
      BY ConstantsAssumption
    <3> QED
      BY <2>1, <2>2, <2>4, <3>1 DEF LengthKept
  <2> QED
    BY <2>1, <2>2, <2>3, <2>4 DEF Complete
<1> QED
  BY <1>1, Invariance, PTL

\* The bytes of a stream are written in the order of the calls of write(), without
\* a gap or a repetition, although no caller waits for another.
THEOREM WritesAreInOrder == Spec => InOrder
<1> DEFINE Step == \A s \in Streams :
                     sent'[s] # sent[s] =>
                       \/ pc[s] = "idle" /\ sent[s] = accepted[s]
                       \/ pc[s] # "idle" /\ chunk[s].from = sent[s]
<1>1. IInv => [Step]_vars
  BY DEF IInv, LocalInv, Holder
<1>2. Spec => [][Step]_vars
  BY <1>1, Invariance, PTL
<1> QED
  BY <1>2 DEF InOrder
-----------------------------------------------------------------------------
(* The streams together.                                                   *)

\* Credit of the connection that stream s has spent.
Used(s) == sent[s] + TakenFromConn(s)

UsedBy == [s \in Streams |-> Used(s)]

ConnKept ==
  /\ connWin + SumFunction(UsedBy) <= connCredit
  /\ open => connWin + SumFunction(UsedBy) = connCredit

\* A call on stream s, or a resumption of one of its coroutines.
Moves(s) ==
  /\ \A t \in Streams \ {s} : SameAt(t)
  /\ open' = open /\ connCredit' = connCredit /\ strCredit' = strCredit
  /\ connWin' + Used(s)' <= connWin + Used(s)
  /\ open => connWin' + Used(s)' = connWin + Used(s)
  /\ ~ended[s]
  /\ sent[s] <= sent'[s]
  /\ accepted[s] <= accepted'[s]
  /\ ended'[s] # ended[s] => sent'[s] = sent[s] /\ accepted'[s] = accepted[s]
-----------------------------------------------------------------------------
(* Steps of one stream.                                                    *)

\* One round of the write loop sends what it takes from the connection's window,
\* or fails with it when the connection is closed.
LEMMA RoundSpends ==
  ASSUME IInv, NEW s \in Streams, NEW c \in Chunks, c.from < c.upto,
         pc[s] \in {"idle", "granted", "flush"}, WriteRound(s, c)
  PROVE  /\ connWin' + Used(s)' <= connWin + Used(s)
         /\ open => connWin' + Used(s)' = connWin + Used(s)
         /\ sent[s] <= sent'[s]
<1>1. /\ connWin \in Nat /\ strWin[s] \in Nat /\ sent \in [Streams -> Nat]
      /\ sent[s] \in Nat /\ pc \in [Streams -> Pcs]
      /\ c.from \in Nat /\ c.upto \in Nat
  BY DEF IInv, TypeOK, Chunks
<1>2. TakenFromConn(s) = 0
  BY DEF TakenFromConn
<1>3. CASE WaitForStream(s, c) \/ WaitForConn(s, c)
  <2>1. connWin' = connWin /\ sent' = sent
    BY <1>3 DEF WaitForStream, WaitForConn, windows
  <2>2. pc'[s] \in {"parkStream", "parkConn"}
    BY <1>1, <1>3 DEF WaitForStream, WaitForConn, Suspend
  <2>3. TakenFromConn(s)' = 0
    BY <2>2 DEF TakenFromConn
  <2> QED
    BY <1>1, <1>2, <2>1, <2>3 DEF Used
<1>4. ASSUME NEW n, n = Lesser(Wanted(s, c), connWin),
             ConsumeBoth(s, n), WriteData(s, c, n)
      PROVE  /\ connWin' + Used(s)' <= connWin + Used(s)
             /\ open => connWin' + Used(s)' = connWin + Used(s)
             /\ sent[s] <= sent'[s]
  <2>1. n \in Nat
    BY <1>1, <1>4 DEF Wanted, Lesser, Size
  <2>2. connWin' = connWin - n
    BY <1>4 DEF ConsumeBoth
  <2>3. pc'[s] \in {"flush", "failed"}
    BY <1>1, <1>4 DEF WriteData, Suspend
  <2>4. TakenFromConn(s)' = 0
    BY <2>3 DEF TakenFromConn
  <2>5. (open /\ sent'[s] = sent[s] + n) \/ (~open /\ sent'[s] = sent[s])
    BY <1>1, <1>4 DEF WriteData
  <2> QED
    BY <1>1, <1>2, <2>1, <2>2, <2>4, <2>5 DEF Used
<1> QED
  BY <1>3, <1>4 DEF WriteRound

\* A chunk that is handed over or finished takes nothing.
LEMMA NothingSpent ==
  ASSUME IInv, NEW s \in Streams, connWin' = connWin, sent' = sent,
         TakenFromConn(s)' = TakenFromConn(s)
  PROVE  /\ connWin' + Used(s)' <= connWin + Used(s)
         /\ open => connWin' + Used(s)' = connWin + Used(s)
         /\ sent[s] <= sent'[s]
<1>1. connWin \in Nat /\ sent[s] \in Nat /\ amount[s] \in Nat
  BY DEF IInv, TypeOK
<1>2. TakenFromConn(s) \in Nat
  BY <1>1 DEF TakenFromConn
<1> QED
  BY <1>1, <1>2 DEF Used

LEMMA ReleaseSpendsNothing ==
  ASSUME IInv, NEW s \in Streams, Release(s), pc[s] \in {"granted", "flush"}
  PROVE  TakenFromConn(s)' = TakenFromConn(s)
<1>1. pc \in [Streams -> Pcs]
  BY DEF IInv, TypeOK
<1>2. pc'[s] \in {"idle", "granted"}
  BY <1>1 DEF Release, Suspend
<1> QED
  BY <1>2 DEF TakenFromConn

LEMMA BodyMoves ==
  ASSUME IInv, NEW s \in Streams, NEW n \in Nat, NEW rem \in Int \cup {None},
         WriteBody(s, n, rem)
  PROVE  /\ connWin' + Used(s)' <= connWin + Used(s)
         /\ open => connWin' + Used(s)' = connWin + Used(s)
         /\ sent[s] <= sent'[s]
         /\ accepted[s] <= accepted'[s]
<1>1. accepted \in [Streams -> Nat] /\ accepted[s] \in Nat
  BY DEF IInv, TypeOK
<1>2. CASE UNCHANGED <<windows, writer, sent, accepted>>
  <2>1. connWin' = connWin /\ sent' = sent /\ pc' = pc /\ amount' = amount
        /\ accepted' = accepted
    BY <1>2 DEF windows, writer
  <2>2. TakenFromConn(s)' = TakenFromConn(s)
    BY <2>1 DEF TakenFromConn
  <2> QED
    BY <1>1, <2>1, <2>2, NothingSpent
<1>3. CASE n > 0 /\ accepted' = [accepted EXCEPT ![s] = @ + n]
  <2> DEFINE c == [from |-> accepted[s], upto |-> accepted[s] + n]
  <2>1. accepted[s] <= accepted'[s]
    BY <1>1, <1>3
  <2>2. CASE pc[s] = "idle" /\ WriteRound(s, c)
    <3>1. c \in Chunks /\ c.from < c.upto
      BY <1>1, <1>3 DEF Chunks
    <3> HIDE DEF c
    <3> QED
      BY <2>1, <2>2, <3>1, RoundSpends
  <2>3. CASE UNCHANGED <<windows, pc, chunk, amount, sent>>
    <3>1. connWin' = connWin /\ sent' = sent /\ TakenFromConn(s)' = TakenFromConn(s)
      BY <2>3 DEF windows, TakenFromConn
    <3> QED
      BY <2>1, <3>1, NothingSpent
  <2>4. \/ pc[s] = "idle" /\ WriteRound(s, c)
        \/ UNCHANGED <<windows, pc, chunk, amount, sent>>
    BY <1>2, <1>3, <1>1 DEF WriteBody
  <2> QED
    BY <2>2, <2>3, <2>4
<1>4. \/ UNCHANGED <<windows, writer, sent, accepted>>
      \/ n > 0 /\ accepted' = [accepted EXCEPT ![s] = @ + n]
  BY DEF WriteBody
<1> QED
  BY <1>2, <1>3, <1>4

\* Only finish() follows the end of a stream, and it was called already.
LEMMA EndedIsIdle ==
  ASSUME IInv, NEW s \in Streams, ended[s]
  PROVE  pc[s] = "idle" /\ app[s] = "finished"
BY DEF IInv, LocalInv, EndIsLast, Complete

LEMMA CallMoves ==
  ASSUME IInv, NEW s \in Streams, Call(s)
  PROVE  Moves(s)
<1>1. \A n \in 0 .. MaxBytes : n \in Nat
  BY ConstantsAssumption
<1>2. app[s] # "finished" /\ ~ended[s]
  BY EndedIsIdle DEF Call, WriteHeaders, Write, Finish
<1>3. /\ remaining[s] \in Int \cup {None} /\ accepted[s] \in Nat
      /\ \A length \in Lengths \cup {None} : length \in Int \cup {None}
  BY ConstantsAssumption DEF IInv, TypeOK
<1>4. ASSUME NEW length \in Lengths \cup {None}, NEW n \in 0 .. MaxBytes,
             WriteHeaders(s, length, n)
      PROVE  Moves(s)
  <2>1. \A t \in Streams \ {s} : SameAt(t)
    BY <1>1, <1>4, WriteHeadersStep DEF StepResult, OthersAlone
  <2>2. UNCHANGED <<open, connCredit, strCredit>> /\ ended' = ended
    BY <1>4 DEF WriteHeaders, credit
  <2>3. CASE WriteBody(s, n, length)
    BY <1>1, <1>2, <1>3, <2>1, <2>2, <2>3, BodyMoves DEF Moves
  <2>4. CASE UNCHANGED <<windows, writer, sent, rst, accepted>>
    <3>1. connWin' = connWin /\ sent' = sent /\ accepted' = accepted
          /\ TakenFromConn(s)' = TakenFromConn(s)
      BY <2>4 DEF windows, writer, TakenFromConn
    <3> QED
      BY <1>2, <1>3, <2>1, <2>2, <3>1, NothingSpent DEF Moves
  <2> QED
    BY <1>4, <2>3, <2>4 DEF WriteHeaders
<1>5. ASSUME NEW n \in 1 .. MaxBytes, Write(s, n) PROVE Moves(s)
  <2>1. n \in Nat
    BY ConstantsAssumption
  <2>2. \A t \in Streams \ {s} : SameAt(t)
    BY <1>5, <2>1, WriteStep DEF StepResult, OthersAlone
  <2>3. UNCHANGED <<open, connCredit, strCredit>> /\ ended' = ended
    BY <1>5 DEF Write, credit
  <2> QED
    BY <1>2, <1>3, <1>5, <2>1, <2>2, <2>3, BodyMoves DEF Moves, Write
<1>6. CASE Finish(s)
  <2>1. \A t \in Streams \ {s} : SameAt(t)
    BY <1>6, FinishStep DEF StepResult, OthersAlone
  <2>2. /\ UNCHANGED <<open, connCredit, strCredit, connWin, sent, accepted>>
        /\ TakenFromConn(s)' = TakenFromConn(s)
    BY <1>6 DEF Finish, credit, windows, TakenFromConn
  <2> QED
    BY <1>2, <1>3, <2>1, <2>2, NothingSpent DEF Moves
<1> QED
  BY <1>4, <1>5, <1>6 DEF Call

LEMMA ResumeMoves ==
  ASSUME IInv, NEW s \in Streams, Resume(s)
  PROVE  Moves(s)
<1>1. pc[s] # "idle" /\ ~ended[s]
  BY EndedIsIdle
  DEF Resume, ResumeLock, ResumeStreamWait, ResumeConnWait, ParentReturned,
      ConsumeReturned, Flushed, FlushFailed
<1>2. \A t \in Streams \ {s} : SameAt(t)
  BY ResumeLockStep, ResumeStreamWaitStep, ResumeConnWaitStep, ParentReturnedStep,
     ConsumeReturnedStep, FlushedStep, FlushFailedStep
  DEF Resume, StepResult, OthersAlone
<1>3. UNCHANGED <<open, connCredit, strCredit, accepted>>
  BY DEF Resume, ResumeLock, ResumeStreamWait, ResumeConnWait, ParentReturned,
         ConsumeReturned, Flushed, FlushFailed, credit, caller
<1>4. /\ connWin \in Nat /\ strWin \in [Streams -> Nat] /\ strWin[s] \in Nat
      /\ sent \in [Streams -> Nat] /\ sent[s] \in Nat /\ pc \in [Streams -> Pcs]
      /\ amount \in [Streams -> Nat] /\ amount[s] \in Nat /\ accepted[s] \in Nat
      /\ chunk[s] \in Chunks /\ chunk[s].from \in Nat /\ chunk[s].upto \in Nat
      /\ chunk[s].from <= chunk[s].upto
  BY <1>1 DEF IInv, TypeOK, Chunks, LocalInv, Holder
<1> DEFINE Spends == /\ connWin' + Used(s)' <= connWin + Used(s)
                     /\ open => connWin' + Used(s)' = connWin + Used(s)
                     /\ sent[s] <= sent'[s]
<1>5. ASSUME Spends, ended'[s] # ended[s] => sent'[s] = sent[s]
      PROVE  Moves(s)
  BY <1>1, <1>2, <1>3, <1>4, <1>5 DEF Moves
<1>6. CASE ResumeLock(s)
  <2>1. CASE ~IsEnd(chunk[s]) /\ WriteRound(s, chunk[s]) /\ ended' = ended
    <3>1. chunk[s].from < chunk[s].upto
      BY <1>4, <2>1 DEF IsEnd
    <3> QED
      BY <1>4, <1>5, <1>6, <2>1, <3>1, RoundSpends DEF ResumeLock
  <2>2. CASE Release(s) /\ UNCHANGED <<windows, sent>>
    <3>1. TakenFromConn(s)' = TakenFromConn(s)
      BY <1>6, <2>2, ReleaseSpendsNothing DEF ResumeLock
    <3> QED
      BY <1>5, <2>2, <3>1, NothingSpent DEF windows
  <2> QED
    BY <1>6, <2>1, <2>2 DEF ResumeLock
<1>7. CASE ResumeStreamWait(s)
  <2> DEFINE c == chunk[s]
             n == Lesser(Wanted(s, c), connWin)
  <2>1. ended' = ended /\ TakenFromConn(s) = 0
    BY <1>7 DEF ResumeStreamWait, TakenFromConn
  <2>2. CASE WaitForStream(s, c) \/ WaitForConn(s, c)
    <3>1. connWin' = connWin /\ sent' = sent
      BY <2>2 DEF WaitForStream, WaitForConn, windows
    <3>2. pc'[s] \in {"parkStream", "parkConn"}
      BY <1>4, <2>2 DEF WaitForStream, WaitForConn, Suspend
    <3>3. TakenFromConn(s)' = 0
      BY <3>2 DEF TakenFromConn
    <3> QED
      BY <1>5, <2>1, <3>1, <3>3, NothingSpent
  <2>3. CASE ConsumeBoth(s, n) /\ Suspend(s, "returned", c, n) /\ UNCHANGED sent
    <3>1. n \in Nat
      BY <1>4 DEF Wanted, Lesser, Size
    <3>2. connWin' = connWin - n /\ pc'[s] = "returned" /\ amount'[s] = n /\ sent' = sent
      BY <1>4, <2>3 DEF ConsumeBoth, Suspend
    <3>3. TakenFromConn(s)' = n
      BY <3>2 DEF TakenFromConn
    <3> HIDE DEF n
    <3>4. Spends
      BY <1>4, <2>1, <3>1, <3>2, <3>3 DEF Used
    <3> QED
      BY <1>5, <2>1, <3>4
  <2> QED
    BY <1>7, <2>2, <2>3 DEF ResumeStreamWait
<1>8. CASE ResumeConnWait(s)
  <2>1. ended' = ended /\ TakenFromConn(s) = 0 /\ sent' = sent
    BY <1>8 DEF ResumeConnWait, TakenFromConn
  <2>2. CASE Suspend(s, "parkConn", chunk[s], amount[s]) /\ UNCHANGED connWin
    <3>1. pc'[s] = "parkConn"
      BY <1>4, <2>2 DEF Suspend
    <3>2. TakenFromConn(s)' = 0
      BY <3>1 DEF TakenFromConn
    <3> QED
      BY <1>5, <2>1, <2>2, <3>2, NothingSpent
  <2>3. ASSUME NEW n, n = Lesser(amount[s], connWin), connWin' = connWin - n,
               Suspend(s, "parentReturned", chunk[s], n)
        PROVE  Moves(s)
    <3>1. n \in Nat
      BY <1>4, <2>3 DEF Lesser
    <3>2. pc'[s] = "parentReturned" /\ amount'[s] = n
      BY <1>4, <2>3 DEF Suspend
    <3>3. TakenFromConn(s)' = n
      BY <3>2 DEF TakenFromConn
    <3>4. Spends
      BY <1>4, <2>1, <2>3, <3>1, <3>3 DEF Used
    <3> QED
      BY <1>5, <2>1, <3>4
  <2> QED
    BY <1>8, <2>2, <2>3 DEF ResumeConnWait
<1>9. CASE ParentReturned(s)
  <2>1. connWin' = connWin /\ sent' = sent /\ ended' = ended
    BY <1>9 DEF ParentReturned
  <2>2. pc[s] = "parentReturned" /\ pc'[s] = "returned" /\ amount'[s] = amount[s]
    BY <1>4, <1>9 DEF ParentReturned, Suspend
  <2>3. TakenFromConn(s)' = TakenFromConn(s)
    BY <2>2 DEF TakenFromConn
  <2> QED
    BY <1>5, <2>1, <2>3, NothingSpent
<1>10. CASE ConsumeReturned(s)
  <2>1. connWin' = connWin /\ ended' = ended /\ TakenFromConn(s) = amount[s]
    BY <1>10 DEF ConsumeReturned, windows, TakenFromConn
  <2>2. \/ open /\ sent'[s] = sent[s] + amount[s]
        \/ ~open /\ sent'[s] = sent[s]
    BY <1>4, <1>10 DEF ConsumeReturned, WriteData
  <2>3. pc'[s] \in {"flush", "failed"}
    BY <1>4, <1>10 DEF ConsumeReturned, WriteData, Suspend
  <2>4. TakenFromConn(s)' = 0
    BY <2>3 DEF TakenFromConn
  <2>5. Spends
    BY <1>4, <2>1, <2>2, <2>4 DEF Used
  <2> QED
    BY <1>5, <2>1, <2>5
<1>11. CASE Flushed(s)
  <2>1. ended' = ended
    BY <1>11 DEF Flushed
  <2>2. CASE Size(chunk[s]) > 0 /\ WriteRound(s, chunk[s])
    <3>1. chunk[s].from < chunk[s].upto
      BY <1>4, <2>2 DEF Size
    <3> QED
      BY <1>4, <1>5, <1>11, <2>1, <2>2, <3>1, RoundSpends DEF Flushed
  <2>3. CASE Release(s) /\ UNCHANGED <<windows, sent>>
    <3>1. TakenFromConn(s)' = TakenFromConn(s)
      BY <1>11, <2>3, ReleaseSpendsNothing DEF Flushed
    <3> QED
      BY <1>5, <2>1, <2>3, <3>1, NothingSpent DEF windows
  <2> QED
    BY <1>11, <2>2, <2>3 DEF Flushed
<1>12. CASE FlushFailed(s)
  <2>1. connWin' = connWin /\ sent' = sent /\ ended' = ended
    BY <1>12 DEF FlushFailed, windows
  <2>2. pc[s] = "flush" /\ pc'[s] = "failed"
    BY <1>4, <1>12 DEF FlushFailed, Suspend
  <2>3. TakenFromConn(s)' = TakenFromConn(s)
    BY <2>2 DEF TakenFromConn
  <2> QED
    BY <1>5, <2>1, <2>3, NothingSpent
<1> QED
  BY <1>6, <1>7, <1>8, <1>9, <1>10, <1>11, <1>12 DEF Resume
-----------------------------------------------------------------------------
(* The credit of the connection.                                           *)

\* The chunks that wait for the lock end where write() has got to, so the bytes
\* sent are bytes that were accepted.
LEMMA QueueGrows ==
  ASSUME NEW q \in Seq(Chunks), Len(q) > 0,
         \A i \in 1 .. Len(q) : /\ q[i].from <= q[i].upto
                                /\ i < Len(q) => q[i + 1].from = q[i].upto
  PROVE  q[1].from <= q[Len(q)].upto
<1> DEFINE Bad == {i \in 1 .. Len(q) : ~(q[1].from <= q[i].upto)}
<1>1. Len(q) \in Nat /\ \A i \in 1 .. Len(q) : q[i].from \in Nat /\ q[i].upto \in Nat
  <2>1. Len(q) \in Nat /\ \A i \in 1 .. Len(q) : q[i] \in Chunks
    OBVIOUS
  <2> QED
    BY <2>1 DEF Chunks
<1>2. ASSUME Bad # {} PROVE FALSE
  <2>1. PICK k \in Bad : \A j \in Bad : k <= j
    <3>1. Bad \in SUBSET (1 .. Len(q))
      OBVIOUS
    <3> HIDE DEF Bad
    <3> QED
      BY <1>1, <1>2, <3>1, LeastNumber
  <2>2. CASE k = 1
    BY <1>1, <2>2
  <2>3. CASE k # 1
    <3>1. k - 1 \in 1 .. Len(q) /\ k - 1 < k /\ k - 1 < Len(q) /\ (k - 1) + 1 = k
      BY <1>1, <2>3
    <3>2. q[1].from <= q[k - 1].upto
      BY <2>1, <3>1
    <3>3. q[k].from = q[k - 1].upto /\ q[k].from <= q[k].upto
      BY <3>1
    <3> QED
      BY <1>1, <3>1, <3>2, <3>3
  <2> QED
    BY <2>2, <2>3
<1>3. Len(q) \in 1 .. Len(q)
  BY <1>1
<1> QED
  BY <1>2, <1>3

LEMMA SentIsAccepted ==
  ASSUME IInv, NEW s \in Streams
  PROVE  sent[s] <= accepted[s]
<1> DEFINE q == queue[s]
<1>1. /\ sent[s] \in Nat /\ accepted[s] \in Nat /\ q \in Seq(Chunks)
      /\ chunk[s] \in Chunks /\ Holder(s) /\ Waiting(s)
  BY DEF IInv, TypeOK, LocalInv
<1>2. chunk[s].from \in Nat /\ chunk[s].upto \in Nat
  BY <1>1 DEF Chunks
<1>3. CASE pc[s] = "idle"
  BY <1>1, <1>3 DEF Holder
<1>4. CASE pc[s] # "idle" /\ q = <<>>
  BY <1>1, <1>2, <1>4 DEF Holder
<1>5. CASE pc[s] # "idle" /\ q # <<>>
  <2>1. Len(q) \in Nat /\ Len(q) > 0
    BY <1>1, <1>5
  <2>2. q[1].from <= q[Len(q)].upto
    BY <1>1, <2>1, QueueGrows DEF Waiting
  <2>3. /\ sent[s] <= chunk[s].upto /\ q[1].from = chunk[s].upto
        /\ q[Len(q)].upto = accepted[s]
    BY <1>1, <1>5 DEF Holder
  <2> QED
    BY <1>1, <1>2, <2>2, <2>3
<1> QED
  BY <1>3, <1>4, <1>5

\* Every stream's share, and the sum of the shares, is a number.
UsedOK ==
  /\ \A s \in Streams : UsedBy[s] = Used(s) /\ Used(s) \in Nat
  /\ SumFunction(UsedBy) \in Nat
  /\ SumFunction(UsedBy) = SumFunctionOnSet(UsedBy, Streams)

LEMMA UsedType == IInv => UsedOK
<1> SUFFICES ASSUME IInv PROVE UsedOK
  OBVIOUS
<1>1. ASSUME NEW s \in Streams PROVE Used(s) \in Nat
  <2>1. sent[s] \in Nat /\ amount[s] \in Nat
    BY DEF IInv, TypeOK
  <2>2. TakenFromConn(s) \in Nat
    BY <2>1 DEF TakenFromConn
  <2> QED
    BY <2>1, <2>2 DEF Used
<1>2. DOMAIN UsedBy = Streams /\ \A s \in Streams : UsedBy[s] = Used(s)
  BY DEF UsedBy
<1>3. SumFunction(UsedBy) = SumFunctionOnSet(UsedBy, Streams)
  BY <1>2 DEF SumFunction
<1>4. IsFiniteSet(Streams)
  BY ConstantsAssumption
<1>5. SumFunctionOnSet(UsedBy, Streams) \in Nat
  BY <1>1, <1>2, <1>4, SumNat
<1> QED
  BY <1>1, <1>2, <1>3, <1>5 DEF UsedOK

LEMMA UsedTypeNext == IInv' => UsedOK'
BY UsedType, PTL

\* A step of one stream moves credit from the window to the stream.
LEMMA MovesKeepCredit ==
  ASSUME IInv, IInv', ConnKept, NEW s \in Streams, Moves(s)
  PROVE  ConnKept'
<1> DEFINE f == UsedBy
           g == UsedBy'
           x == SumFunction(UsedBy)
           y == SumFunction(UsedBy)'
<1>1. /\ IsFiniteSet(Streams)
      /\ connWin \in Nat /\ connWin' \in Nat /\ connCredit \in Nat
  BY ConstantsAssumption DEF IInv, TypeOK
<1>2. \A t \in Streams \ {s} : Used(t)' = Used(t)
  BY DEF Moves, SameAt, Used, TakenFromConn
<1>3. /\ \A t \in Streams : f[t] = Used(t) /\ f[t] \in Int
      /\ \A t \in Streams : g[t] = Used(t)' /\ g[t] \in Int
      /\ x \in Nat /\ y \in Nat
      /\ x = SumFunctionOnSet(f, Streams) /\ y = SumFunctionOnSet(g, Streams)
  BY UsedType, UsedTypeNext DEF UsedOK
<1>4. y = x - f[s] + g[s]
  <2> HIDE DEF f, g, x, y
  <2>1. \A t \in Streams \ {s} : f[t] = g[t]
    BY <1>2, <1>3
  <2>2. SumFunctionOnSet(g, Streams) = SumFunctionOnSet(f, Streams) - f[s] + g[s]
    BY <1>1, <1>3, <2>1, SumUpdate
  <2> QED
    BY <1>3, <2>2
<1>5. f[s] = Used(s) /\ g[s] = Used(s)' /\ f[s] \in Int /\ g[s] \in Int
  BY <1>3
<1>6. /\ open' = open /\ connCredit' = connCredit
      /\ connWin' + g[s] <= connWin + f[s]
      /\ open => connWin' + g[s] = connWin + f[s]
  BY <1>5 DEF Moves
<1>7. connWin + x <= connCredit /\ (open => connWin + x = connCredit)
  BY DEF ConnKept
<1> HIDE DEF f, g, x, y
<1>8. connWin' + y <= connCredit' /\ (open' => connWin' + y = connCredit')
  BY <1>1, <1>3, <1>4, <1>5, <1>6, <1>7
<1> QED
  BY <1>8 DEF ConnKept, y

\* The steps of the connection's loop, and its end, only give credit.
Gives ==
  /\ open' => open
  /\ UNCHANGED <<sent, accepted, ended>>
  /\ \A t \in Streams : TakenFromConn(t)' = TakenFromConn(t)
  /\ \E n \in Nat : connWin' = connWin + n /\ connCredit' = connCredit + n

LEMMA GivesKeepCredit ==
  ASSUME IInv, IInv', ConnKept, Gives
  PROVE  ConnKept'
<1> DEFINE x == SumFunction(UsedBy)
           y == SumFunction(UsedBy)'
<1>1. /\ connWin \in Nat /\ connWin' \in Nat /\ connCredit \in Nat /\ connCredit' \in Nat
  BY DEF IInv, TypeOK
<1>2. UsedBy' = UsedBy
  BY DEF Gives, UsedBy, Used
<1>3. x \in Nat /\ y \in Nat /\ y = x
  BY <1>2, UsedType DEF UsedOK
<1>4. PICK n \in Nat : connWin' = connWin + n /\ connCredit' = connCredit + n
  BY DEF Gives
<1>7. connWin + x <= connCredit
  BY DEF ConnKept
<1>6. (open => connWin + x = connCredit) /\ (open' => open)
  BY DEF ConnKept, Gives
<1> HIDE DEF x, y
<1>5. connWin' + y <= connCredit' /\ (connWin + x = connCredit => connWin' + y = connCredit')
  BY <1>1, <1>3, <1>4, <1>7
<1> QED
  BY <1>5, <1>6 DEF ConnKept, y

LEMMA ConnUpdateGives ==
  ASSUME IInv, NEW n \in Increments, ConnWindowUpdate(n)
  PROVE  Gives /\ strCredit' = strCredit
<1>1. /\ n \in Nat /\ connWin \in Nat /\ connCredit \in Nat /\ pc \in [Streams -> Pcs]
  BY ConstantsAssumption DEF Increments, IInv, TypeOK
<1>2. /\ connWin' = connWin + n /\ connCredit' = connCredit + n
      /\ UNCHANGED <<open, sent, accepted, ended, amount, strCredit>>
  BY DEF ConnWindowUpdate, caller
<1>3. ASSUME NEW t \in Streams PROVE TakenFromConn(t)' = TakenFromConn(t)
  <2>1. pc'[t] = pc[t] \/ (pc[t] = "parkConn" /\ pc'[t] = "wakeConn")
    BY <1>1 DEF ConnWindowUpdate, WakeConnWaiters
  <2> QED
    BY <1>2, <2>1 DEF TakenFromConn
<1> QED
  BY <1>1, <1>2, <1>3 DEF Gives

LEMMA StreamUpdateGives ==
  ASSUME IInv, NEW s \in Streams, NEW n \in Increments, StreamWindowUpdate(s, n)
  PROVE  /\ Gives /\ connCredit' = connCredit
         /\ strCredit' = [strCredit EXCEPT ![s] = @ + n]
<1>1. connWin \in Nat /\ connCredit \in Nat /\ pc \in [Streams -> Pcs]
  BY DEF IInv, TypeOK
<1>2. /\ UNCHANGED <<open, sent, accepted, ended, amount, connWin, connCredit>>
      /\ strCredit' = [strCredit EXCEPT ![s] = @ + n]
  BY DEF StreamWindowUpdate, caller
<1>3. ASSUME NEW t \in Streams PROVE TakenFromConn(t)' = TakenFromConn(t)
  <2>1. pc'[t] = pc[t] \/ (pc[t] = "parkStream" /\ pc'[t] = "wakeStream")
    BY <1>1 DEF StreamWindowUpdate, WakeStreamWaiter
  <2> QED
    BY <1>2, <2>1 DEF TakenFromConn
<1> QED
  BY <1>1, <1>2, <1>3 DEF Gives

LEMMA QuietGives ==
  ASSUME IInv, open' => open,
         UNCHANGED <<windows, writer, caller, sent, ended, credit>>
  PROVE  Gives /\ UNCHANGED credit
<1>1. connWin \in Nat /\ connCredit \in Nat
  BY DEF IInv, TypeOK
<1> QED
  BY <1>1 DEF Gives, windows, writer, caller, credit, TakenFromConn

\* Every step is one of the two kinds.
LEMMA StepKinds ==
  ASSUME IInv, [Next]_vars
  PROVE  \/ \E s \in Streams : Moves(s)
         \/ Gives /\ UNCHANGED strCredit
         \/ \E s \in Streams, n \in Increments :
              Gives /\ connCredit' = connCredit /\ strCredit' = [strCredit EXCEPT ![s] = @ + n]
<1>1. ASSUME NEW s \in Streams, Call(s) \/ Resume(s) PROVE Moves(s)
  BY <1>1, CallMoves, ResumeMoves
<1>2. ASSUME LoopFlushed \/ LoopFails \/ Close \/ LoopStops \/ UNCHANGED vars
      PROVE  Gives /\ UNCHANGED strCredit
  <2>1. (open' => open) /\ UNCHANGED <<windows, writer, caller, sent, ended, credit>>
    BY <1>2 DEF LoopFlushed, LoopFails, Close, LoopStops, vars
  <2> QED
    BY <2>1, QuietGives DEF credit
<1>3. ASSUME Peer PROVE
         \/ Gives /\ UNCHANGED strCredit
         \/ \E s \in Streams, n \in Increments :
              Gives /\ connCredit' = connCredit /\ strCredit' = [strCredit EXCEPT ![s] = @ + n]
  BY <1>2, <1>3, ConnUpdateGives, StreamUpdateGives DEF Peer
<1> QED
  BY <1>1, <1>2, <1>3 DEF Next

LEMMA InitCredit == Init => ConnKept
<1> SUFFICES ASSUME Init PROVE ConnKept
  OBVIOUS
<1>1. IInv /\ IsFiniteSet(Streams)
  BY InitInv, ConstantsAssumption
<1>2. \A s \in Streams : UsedBy[s] = 0
  BY DEF Init, UsedBy, Used, TakenFromConn
<1>3. SumFunction(UsedBy) = 0
  BY <1>1, <1>2, UsedType, SumZero DEF UsedOK
<1>4. ConnInit \in Nat
  BY ConstantsAssumption
<1> QED
  BY <1>3, <1>4 DEF ConnKept, Init

LEMMA NextCredit == IInv /\ IInv' /\ ConnKept /\ [Next]_vars => ConnKept'
BY StepKinds, MovesKeepCredit, GivesKeepCredit

LEMMA CreditInvariance == Spec => [](IInv /\ ConnKept)
<1>1. Init => IInv /\ ConnKept
  BY InitInv, InitCredit
<1>2. IInv /\ ConnKept /\ [Next]_vars => (IInv /\ ConnKept)'
  BY NextInv, NextCredit
<1> QED
  BY <1>1, <1>2, PTL DEF Spec

\* However many streams compete for the connection's window, what the peer granted to
\* the connection is in its window, held by a coroutine that took it, or sent; none
\* of it is lost while the connection is open.
THEOREM ConnCreditIsConserved == Spec => []ConnCreditConserved
<1>1. IInv /\ ConnKept => ConnCreditConserved
  BY DEF IInv, ConnKept, ConnCreditConserved, UsedBy, Used
<1> QED
  BY <1>1, CreditInvariance, PTL
-----------------------------------------------------------------------------
(* What the peer sees.                                                     *)

SentOK ==
  /\ SumFunction(sent) \in Nat
  /\ SumFunction(sent) = SumFunctionOnSet(sent, Streams)
  /\ \A s \in Streams : sent[s] \in Nat

LEMMA SentType == IInv => SentOK
<1> SUFFICES ASSUME IInv PROVE SentOK
  OBVIOUS
<1>1. sent \in [Streams -> Nat] /\ IsFiniteSet(Streams)
  BY ConstantsAssumption DEF IInv, TypeOK
<1> QED
  BY <1>1, SumNat DEF SumFunction, SentOK

LEMMA SentTypeNext == IInv' => SentOK'
BY SentType, PTL

\* What arrived, and what is left in the window, was granted, since what the streams
\* hold is not negative.
Granted == connWin + SumFunction(sent) <= connCredit

LEMMA SentWasGranted == IInv /\ ConnKept => Granted
<1>1. ASSUME IInv, ConnKept PROVE Granted
  <2> DEFINE x == SumFunction(UsedBy)
             y == SumFunction(sent)
  <2>1. x \in Nat /\ y \in Nat /\ connWin \in Nat /\ connCredit \in Nat
    BY <1>1, UsedType, SentType DEF UsedOK, SentOK, IInv, TypeOK
  <2>2. connWin + x <= connCredit
    BY <1>1 DEF ConnKept
  <2>3. y <= x
    <3>1. \A s \in Streams : sent[s] \in Int /\ UsedBy[s] \in Int /\ sent[s] <= UsedBy[s]
      <4>1. ASSUME NEW s \in Streams
            PROVE  sent[s] \in Int /\ UsedBy[s] \in Int /\ sent[s] <= UsedBy[s]
        <5>1. sent[s] \in Nat /\ amount[s] \in Nat
          BY <1>1 DEF IInv, TypeOK
        <5>2. TakenFromConn(s) \in Nat
          BY <5>1 DEF TakenFromConn
        <5> QED
          BY <5>1, <5>2 DEF UsedBy, Used
      <4> QED
        BY <4>1
    <3>2. SumFunctionOnSet(sent, Streams) <= SumFunctionOnSet(UsedBy, Streams)
      BY <3>1, SumMonotone, ConstantsAssumption
    <3> QED
      BY <1>1, <3>2, UsedType, SentType DEF UsedOK, SentOK
  <2> HIDE DEF x, y
  <2>4. connWin + y <= connCredit
    BY <2>1, <2>2, <2>3
  <2> QED
    BY <2>4 DEF y, Granted
<1> QED
  BY <1>1

LEMMA SentWasGrantedNext == IInv' /\ ConnKept' => Granted'
BY SentWasGranted, PTL

Accepted == \A s \in Streams : sent[s] <= accepted[s]

LEMMA AllSentIsAccepted == IInv => Accepted
BY SentIsAccepted DEF Accepted

LEMMA SentIsAcceptedNext == IInv' => Accepted'
BY AllSentIsAccepted, PTL

\* What a step of stream s may write.
Writes(s) ==
  /\ Moves(s)
  /\ loop' = loop
  /\ sent'[s] # sent[s] \/ ended'[s] # ended[s] \/ rst'[s] # rst[s] =>
       open /\ app'[s] # "new"
  /\ app[s] # "new" => app'[s] # "new" /\ declared'[s] = declared[s]

\* Nothing is written before write_headers() was called, and nothing to a connection
\* that is closed.
LEMMA StreamWrites ==
  \A s \in Streams : IInv /\ IInv' /\ (Call(s) \/ Resume(s)) => Writes(s)
<1> SUFFICES ASSUME NEW s \in Streams, IInv, IInv', Call(s) \/ Resume(s) PROVE Writes(s)
  OBVIOUS
<1>1. Moves(s)
  BY CallMoves, ResumeMoves
<1>2. /\ sent \in [Streams -> Nat] /\ sent'[s] \in Nat /\ accepted'[s] \in Nat
      /\ ended \in [Streams -> BOOLEAN] /\ ended'[s] \in BOOLEAN
      /\ rst \in [Streams -> SUBSET {"reset", "StreamError"}]
      /\ app \in [Streams -> {"new", "writing", "finished"}]
      /\ declared \in [Streams -> Nat \cup {None}]
  BY DEF IInv, TypeOK
<1>3. /\ loop' = loop
      /\ app[s] # "new" => app'[s] # "new" /\ declared'[s] = declared[s]
      /\ rst'[s] # rst[s] => open /\ app'[s] # "new"
  <2>1. CASE Resume(s)
    BY <2>1 DEF Resume, ResumeLock, ResumeStreamWait, ResumeConnWait, ParentReturned,
                ConsumeReturned, Flushed, FlushFailed, caller
  <2>2. ASSUME NEW length, NEW n, WriteHeaders(s, length, n)
        PROVE  /\ loop' = loop /\ app[s] = "new" /\ app'[s] = "writing"
               /\ rst'[s] # rst[s] => open
    BY <1>2, <2>2 DEF WriteHeaders, WriteBody, WriteReset
  <2>3. ASSUME NEW n, Write(s, n)
        PROVE  /\ loop' = loop /\ app[s] = "writing" /\ app' = app
               /\ declared' = declared
               /\ rst'[s] # rst[s] => open
    BY <1>2, <2>3 DEF Write, WriteBody, WriteReset
  <2>4. ASSUME Finish(s)
        PROVE  /\ loop' = loop /\ app'[s] = "finished"
               /\ declared' = declared
               /\ rst'[s] # rst[s] => open
    BY <1>2, <2>4 DEF Finish, WriteReset
  <2> QED
    BY <2>1, <2>2, <2>3, <2>4 DEF Call
<1>4. sent'[s] # sent[s] => open
  <2>1. ASSUME NEW c, WriteRound(s, c) PROVE sent'[s] # sent[s] => open
    BY <1>2, <2>1 DEF WriteRound, WaitForStream, WaitForConn, WriteData
  <2>2. CASE Resume(s)
    BY <1>2, <2>1, <2>2
    DEF Resume, ResumeLock, ResumeStreamWait, ResumeConnWait, ParentReturned,
        ConsumeReturned, Flushed, FlushFailed, WriteData, WaitForStream, WaitForConn
  <2>3. ASSUME NEW n, NEW rem, WriteBody(s, n, rem) PROVE sent'[s] # sent[s] => open
    BY <2>1, <2>3 DEF WriteBody
  <2>4. CASE Call(s)
    BY <2>3, <2>4 DEF Call, WriteHeaders, Write, Finish
  <2> QED
    BY <2>2, <2>4
<1>5. ended'[s] # ended[s] => open
  <2>1. WriteEnd(s) => (ended'[s] # ended[s] => open)
    BY <1>2 DEF WriteEnd
  <2> QED
    BY <2>1
    DEF Resume, ResumeLock, ResumeStreamWait, ResumeConnWait, ParentReturned,
        ConsumeReturned, Flushed, FlushFailed, Call, WriteHeaders, Write, Finish
<1>6. ASSUME app'[s] = "new" PROVE sent'[s] = sent[s] /\ ended'[s] = ended[s]
  <2>1. LengthKept(s)' /\ EndIsLast(s)'
    BY DEF IInv, LocalInv
  <2>2. accepted'[s] = 0 /\ ~ended'[s]
    BY <1>6, <2>1 DEF LengthKept, EndIsLast, Complete
  <2>3. sent'[s] <= accepted'[s] /\ sent[s] <= sent'[s] /\ ~ended[s]
    BY <1>1, SentIsAcceptedNext DEF Accepted, Moves
  <2> QED
    BY <1>2, <2>2, <2>3
<1> QED
  BY <1>1, <1>3, <1>4, <1>5, <1>6 DEF Writes

\* A call, or a coroutine's resumption, is a transfer, the end of a stream, or nothing
\* the peer sees.
LEMMA MovesArePipe ==
  ASSUME IInv, IInv', ConnKept', NEW s \in Streams, Moves(s)
  PROVE  [PeerView!Next]_(PeerView!pipe)
<1> DEFINE k == sent'[s] - sent[s]
           x == SumFunction(sent)
           y == SumFunction(sent)'
<1>1. /\ accepted \in [Streams -> Nat] /\ accepted' \in [Streams -> Nat]
      /\ sent \in [Streams -> Nat] /\ sent' \in [Streams -> Nat]
      /\ strCredit \in [Streams -> Nat] /\ connCredit \in Nat
      /\ ended \in [Streams -> BOOLEAN] /\ ended' \in [Streams -> BOOLEAN]
      /\ accepted[s] \in Nat /\ accepted'[s] \in Nat
      /\ sent[s] \in Nat /\ sent'[s] \in Nat /\ strCredit[s] \in Nat
      /\ ended'[s] \in BOOLEAN /\ IsFiniteSet(Streams)
  BY ConstantsAssumption DEF IInv, TypeOK
<1>2. /\ \A t \in Streams \ {s} :
           accepted'[t] = accepted[t] /\ sent'[t] = sent[t] /\ ended'[t] = ended[t]
      /\ strCredit' = strCredit /\ connCredit' = connCredit
      /\ ended[s] = FALSE
      /\ sent[s] <= sent'[s] /\ accepted[s] <= accepted'[s]
      /\ ended'[s] # ended[s] => sent'[s] = sent[s] /\ accepted'[s] = accepted[s]
  BY <1>1 DEF Moves, SameAt
<1>3. k \in Nat
  BY <1>1, <1>2
<1>4. x \in Nat /\ y = x + k
  <2>1. /\ x \in Nat /\ x = SumFunctionOnSet(sent, Streams)
        /\ y = SumFunctionOnSet(sent', Streams)
    BY SentType, SentTypeNext DEF SentOK
  <2>2. SumFunctionOnSet(sent', Streams)
          = SumFunctionOnSet(sent, Streams) - sent[s] + sent'[s]
    BY <1>1, <1>2, SumUpdate
  <2> HIDE DEF x, y
  <2> QED
    BY <1>1, <2>1, <2>2
<1>5. y <= connCredit
  <2>1. connWin' + y <= connCredit
    BY <1>2, SentWasGrantedNext DEF Granted
  <2>2. connWin' \in Nat
    BY DEF IInv, TypeOK
  <2> QED
    BY <1>1, <1>4, <2>1, <2>2
<1>6. sent'[s] <= strCredit[s]
  <2>1. CreditKept(s)'
    BY DEF IInv, LocalInv
  <2>2. /\ strWin'[s] \in Nat /\ TakenFromStream(s)' \in Nat
    BY DEF IInv, TypeOK, TakenFromStream
  <2> QED
    BY <1>1, <1>2, <2>1, <2>2 DEF CreditKept
<1>7. sent'[s] <= accepted'[s]
  BY SentIsAcceptedNext DEF Accepted
<1> DEFINE B == [t \in Streams |-> accepted[t] - sent[t]]
           C == [t \in Streams |-> accepted'[t] - sent'[t]]
           R == [t \in Streams |-> strCredit[t] - sent[t]]
           Q == [t \in Streams |-> strCredit'[t] - sent'[t]]
<1>8. CASE ended'[s] = ended[s]
  <2>1. ended' = ended
    BY <1>1, <1>2, <1>8
  <2>2. /\ C[s] >= 0 /\ C[s] >= B[s] - k
        /\ C = [B EXCEPT ![s] = C[s]]
    <3>1. C[s] = accepted'[s] - sent'[s] /\ B[s] = accepted[s] - sent[s]
      OBVIOUS
    <3>2. C[s] >= 0 /\ C[s] >= B[s] - k
      BY <1>1, <1>2, <1>7, <3>1
    <3>3. \A t \in Streams \ {s} : C[t] = B[t]
      BY <1>2
    <3>4. DOMAIN C = Streams /\ DOMAIN B = Streams /\ C = [t \in Streams |-> C[t]]
          /\ B = [t \in Streams |-> B[t]]
      OBVIOUS
    <3> HIDE DEF B, C
    <3> QED
      BY <3>2, <3>3, <3>4
  <2>3. Q = [R EXCEPT ![s] = @ - k] /\ k <= R[s]
    <3>1. Q[s] = strCredit'[s] - sent'[s] /\ R[s] = strCredit[s] - sent[s]
      OBVIOUS
    <3>2. k <= R[s] /\ Q[s] = R[s] - k
      BY <1>1, <1>2, <1>6, <3>1
    <3>3. \A t \in Streams \ {s} : Q[t] = R[t]
      BY <1>2
    <3>4. DOMAIN Q = Streams /\ DOMAIN R = Streams /\ Q = [t \in Streams |-> Q[t]]
          /\ R = [t \in Streams |-> R[t]]
      OBVIOUS
    <3> HIDE DEF Q, R, k
    <3> QED
      BY <3>2, <3>3, <3>4
  <2>4. k \in 0 .. (connCredit - x) /\ connCredit' - y = (connCredit - x) - k
    <3> HIDE DEF k, x, y
    <3> QED
      BY <1>1, <1>2, <1>3, <1>4, <1>5
  <2>5. PeerView!Transfer(s)
    <3> HIDE DEF k
    <3> QED
      BY <1>2, <2>1, <2>2, <2>3, <2>4 DEF PeerView!Transfer
  <2> QED
    BY <2>5 DEF PeerView!Next
<1>9. CASE ended'[s] # ended[s]
  <2>1. ended' = [ended EXCEPT ![s] = TRUE]
    BY <1>1, <1>2, <1>9
  <2>2. sent' = sent /\ accepted' = accepted
    BY <1>1, <1>2, <1>9
  <2>3. sent'[s] = accepted'[s]
    <3>1. ended'[s]
      BY <1>1, <1>2, <1>9
    <3>2. EndIsLast(s)' /\ Holder(s)'
      BY DEF IInv, LocalInv
    <3> QED
      BY <3>1, <3>2 DEF EndIsLast, Holder
  <2>4. PeerView!End(s)
    BY <1>1, <1>2, <2>1, <2>2, <2>3 DEF PeerView!End
  <2> QED
    BY <2>4 DEF PeerView!Next
<1> QED
  BY <1>8, <1>9

\* A WINDOW_UPDATE announces room, or nothing if its increment is 0; the rest of the
\* connection's loop shows on no stream.
LEMMA GivesArePipe ==
  ASSUME IInv, Gives,
         \/ strCredit' = strCredit
         \/ \E s \in Streams, n \in Increments :
              connCredit' = connCredit /\ strCredit' = [strCredit EXCEPT ![s] = @ + n]
  PROVE  [PeerView!Next]_(PeerView!pipe)
<1>1. /\ sent' = sent /\ accepted' = accepted /\ ended' = ended
      /\ SumFunction(sent)' = SumFunction(sent)
  BY DEF Gives
<1>2. /\ strCredit \in [Streams -> Nat] /\ sent \in [Streams -> Nat] /\ connCredit \in Nat
      /\ SumFunction(sent) \in Nat
  BY SentType DEF IInv, TypeOK, SentOK
<1> DEFINE x == SumFunction(sent)
<1>3. CASE strCredit' = strCredit
  <2>1. PICK n \in Nat : connCredit' = connCredit + n
    BY DEF Gives
  <2>2. CASE n = 0
    <3>1. connCredit' = connCredit
      BY <1>2, <2>1, <2>2
    <3> QED
      BY <1>1, <1>3, <3>1 DEF PeerView!pipe
  <2>3. CASE n > 0
    <3>1. connCredit' - x > connCredit - x
      <4> HIDE DEF x
      <4>1. x \in Nat
        BY <1>2 DEF x
      <4> QED
        BY <1>2, <2>1, <2>3, <4>1
    <3>2. PeerView!Announce
      BY <1>1, <1>3, <3>1 DEF PeerView!Announce
    <3> QED
      BY <3>2 DEF PeerView!Next
  <2> QED
    BY <2>1, <2>2, <2>3
<1>4. ASSUME NEW s \in Streams, NEW n \in Increments,
             connCredit' = connCredit, strCredit' = [strCredit EXCEPT ![s] = @ + n]
      PROVE  [PeerView!Next]_(PeerView!pipe)
  <2>1. n \in Nat /\ strCredit[s] \in Nat /\ sent[s] \in Nat
    BY <1>2, ConstantsAssumption DEF Increments
  <2>2. CASE n = 0
    <3>1. strCredit' = strCredit
      BY <1>2, <1>4, <2>1, <2>2
    <3> QED
      BY <1>1, <1>4, <3>1 DEF PeerView!pipe
  <2>3. CASE n > 0
    <3> DEFINE R == [t \in Streams |-> strCredit[t] - sent[t]]
               Q == [t \in Streams |-> strCredit'[t] - sent'[t]]
    <3>1. Q[s] > R[s] /\ Q = [R EXCEPT ![s] = Q[s]]
      <4>1. Q[s] = strCredit'[s] - sent'[s] /\ R[s] = strCredit[s] - sent[s]
        OBVIOUS
      <4>2. strCredit'[s] = strCredit[s] + n /\ sent'[s] = sent[s]
        BY <1>1, <1>2, <1>4
      <4>3. Q[s] > R[s]
        BY <2>1, <2>3, <4>1, <4>2
      <4>4. \A t \in Streams \ {s} : Q[t] = R[t]
        BY <1>1, <1>2, <1>4
      <4>5. DOMAIN Q = Streams /\ DOMAIN R = Streams /\ Q = [t \in Streams |-> Q[t]]
            /\ R = [t \in Streams |-> R[t]]
        OBVIOUS
      <4> HIDE DEF Q, R
      <4> QED
        BY <4>3, <4>4, <4>5
    <3>2. PeerView!AnnounceStream(s)
      BY <1>1, <1>4, <3>1 DEF PeerView!AnnounceStream
    <3> QED
      BY <3>2 DEF PeerView!Next
  <2> QED
    BY <2>1, <2>2, <2>3 
<1> QED
  BY <1>3, <1>4

LEMMA InitIsPipe == Init => PeerView!Init
<1> SUFFICES ASSUME Init PROVE PeerView!Init
  OBVIOUS
<1>1. \A s \in Streams : sent[s] = 0 /\ accepted[s] = 0
  BY DEF Init
<1>2. SumFunction(sent) = 0
  BY <1>1, InitInv, SentType, SumZero, ConstantsAssumption DEF SentOK
<1>3. strCredit \in [Streams -> Nat] /\ connCredit \in Nat
  BY InitInv DEF IInv, TypeOK
<1>4. [s \in Streams |-> strCredit[s] - sent[s]] \in [Streams -> Nat]
  BY <1>1, <1>3
<1>5. connCredit - SumFunction(sent) \in Nat
  BY <1>2, <1>3
<1>6. [s \in Streams |-> accepted[s] - sent[s]] = [s \in Streams |-> 0]
  BY <1>1
<1> QED
  BY <1>4, <1>5, <1>6 DEF PeerView!Init, Init

\* The two windows and the coroutines that write under them implement CreditPipe: no
\* stream sends DATA that does not fit in the room the peer announced for it and for
\* the connection, and what it sends, up to END_STREAM, is what it was given.
THEOREM Implementation == Spec => ImplementsCreditPipe
<1>1. IInv /\ ConnKept /\ (IInv /\ ConnKept)' /\ [Next]_vars => [PeerView!Next]_(PeerView!pipe)
  BY StepKinds, MovesArePipe, GivesArePipe
<1> QED
  BY InitIsPipe, CreditInvariance, <1>1, PTL DEF Spec, ImplementsCreditPipe, PeerView!Spec
=============================================================================

------------------------------- MODULE Endpoints -------------------------------
(***************************************************************************)
(* Two programs of this repository on one connection, in one direction:    *)
(* the sending half of one end (FlowControl), the receiving half of the    *)
(* other (Receiver), and the bytes between them.  The windows that the     *)
(* first spends are those that the second fills up again, so that either   *)
(* may end up waiting for the other.                                       *)
(*                                                                         *)
(* The frames of each module are derived from what its steps change.  TCP  *)
(* neither loses nor reorders them while the connection is open.           *)
(***************************************************************************)
EXTENDS Integers, SequencesExt

CONSTANTS
  Roles,        \* the receiving end is a client (TRUE), a server (FALSE)
  Streams,      \* bound: the identifiers of the client's streams
  MaxWindow, ConnInit, StreamInits,
  Lengths,      \* the Content-Length values an application may declare
  None,
  MaxFrame,     \* the MAX_FRAME_SIZE the receiving end applies, 16384 in the code
  MaxBytes      \* bound: bytes the application writes to one stream

ASSUME ConstantsAssumption ==
  /\ Roles \subseteq BOOLEAN
  /\ Streams \subseteq Nat \ {0} /\ IsFiniteSet(Streams)
  /\ MaxWindow \in Nat \ {0}
  /\ ConnInit \in 0 .. MaxWindow
  /\ StreamInits \subseteq 0 .. MaxWindow
  /\ Lengths \subseteq Nat
  /\ None \notin Int
  /\ MaxFrame \in Nat \ {0}
  /\ MaxBytes \in Nat

VARIABLES
  \* of the sending end
  sOpen, sLoop, connWin, strWin, pc, chunk, amount, queue, app, remaining, fin, sent,
  ended, rst, accepted, declared, connCredit, strCredit,
  \* of the receiving end
  rOpen, rLoop, isClient, upgraded, known, nextId, maxRemote, last, stream, connGranted,
  undecoded,
  \* between them
  down,         \* frames the sending end wrote and the other has not handled
  up            \* frames of the receiving end on their way back

sVars == <<sOpen, sLoop, connWin, strWin, pc, chunk, amount, queue, app, remaining, fin,
           sent, ended, rst, accepted, declared, connCredit, strCredit>>
rVars == <<rOpen, rLoop, isClient, upgraded, known, nextId, maxRemote, last, stream,
           connGranted, undecoded>>
vars == <<sVars, rVars, down, up>>

\* No credit is granted but what the receiving end returns.
S == INSTANCE FlowControl WITH
  open <- sOpen, loop <- sLoop,
  MaxCredit <- MaxWindow + MaxBytes * Cardinality(Streams)

R == INSTANCE Receiver WITH
  open <- rOpen, loop <- rLoop, Ids <- Streams, Pads <- {None}, MaxBody <- MaxBytes

\* The client of this program asks for no upgrade.
Init == S!Init /\ R!Init /\ ~upgraded /\ down = <<>> /\ up = <<>>
-----------------------------------------------------------------------------
(* The sending end.                                                        *)

\* The frames a step of s's application or coroutines writes.  A repeated RST_STREAM
\* changes nothing at the other end and is left out.
Written(s) ==
  LET frame(type, n, when) ==
        IF when THEN <<[type |-> type, s |-> s, n |-> n]>> ELSE <<>>
  IN     frame("HEADERS", declared'[s], sOpen /\ app[s] = "new" /\ app'[s] # "new")
      \o frame("RST_STREAM", 0, rst'[s] # rst[s])
      \o frame("DATA", sent'[s] - sent[s], sent'[s] > sent[s])
      \o frame("END", 0, ended'[s] # ended[s])

\* A server answers on streams the client has opened.
Call(s) ==
  /\ isClient => s \in known
  /\ S!Call(s)
  /\ down' = down \o Written(s)
  /\ UNCHANGED <<rVars, up>>

Resume(s) ==
  /\ S!Resume(s)
  /\ down' = down \o Written(s)
  /\ UNCHANGED <<rVars, up>>

\* The loop of the sending end handles the oldest frame of the other.  An RST_STREAM
\* does not touch its writers.
HandleUp ==
  /\ up # <<>>
  /\ sLoop = "reading"
  /\ LET f == Head(up)
     IN  \/ f.type = "WINDOW_UPDATE" /\ f.s = 0 /\ S!ConnWindowUpdate(f.n)
         \/ f.type = "WINDOW_UPDATE" /\ f.s # 0 /\ S!StreamWindowUpdate(f.s, f.n)
         \/ f.type = "RST_STREAM" /\ UNCHANGED sVars
         \/ f.type = "GOAWAY" /\ S!LoopStops
  /\ up' = Tail(up)
  /\ UNCHANGED <<rVars, down>>

SenderRuns ==
  /\ S!LoopFlushed \/ S!LoopFails
  /\ UNCHANGED <<rVars, down, up>>
-----------------------------------------------------------------------------
(* The receiving end.                                                      *)

\* The frames a step of the receiving end writes, one that concerns stream s: credit, to
\* the connection first, or the answer to an error.
Answer(s) ==
  LET frame(type, id, n, when) ==
        IF when THEN <<[type |-> type, s |-> id, n |-> n]>> ELSE <<>>
      connCredited == connGranted' - connGranted
      strCredited == stream'[s].granted - stream[s].granted
  IN     frame("WINDOW_UPDATE", 0, connCredited, connCredited > 0)
      \o frame("WINDOW_UPDATE", s, strCredited, strCredited > 0)
      \o frame("RST_STREAM", s, 0, rLoop # "rst" /\ rLoop' = "rst")
      \o frame("GOAWAY", 0, 0, rLoop # "goaway" /\ rLoop' = "goaway")

\* The headers this program writes are of the kind it reads: within max_header_size,
\* decoded and parsed without error, the start of a message.
Understood(f) ==
  LET r == stream'[f.s]
  IN  r.phase = "BODY" /\ r.started /\ r.declared = f.n /\ ~r.refused /\ ~r.hung

\* Only DATA is written without regard to MAX_FRAME_SIZE.
TooLarge(f) == f.type = "DATA" /\ f.n > MaxFrame

\* The loop of the receiving end handles the oldest frame.  A frame larger than
\* MAX_FRAME_SIZE is a ConnectionError before its payload is read.
HandleDown ==
  /\ down # <<>>
  /\ LET f == Head(down)
     IN  \/ /\ f.type = "HEADERS"
            /\ R!HeadersFrame(f.s, TRUE, FALSE) \/ R!CreateOnHeaders(f.s, TRUE, FALSE)
            /\ Understood(f)
         \/ TooLarge(f) /\ R!OversizedFrame
         \/ f.type = "DATA" /\ ~TooLarge(f) /\ R!DataFrame(f.s, f.n, None, FALSE)
         \/ f.type = "END" /\ R!DataFrame(f.s, 0, None, TRUE)
         \/ f.type = "RST_STREAM" /\ R!RstStreamFrame(f.s) /\ UNCHANGED rLoop
  /\ down' = Tail(down)
  /\ up' = up \o Answer(Head(down).s)
  /\ UNCHANGED sVars

\* A future of data_received() is resolved.
Consumed(s) ==
  /\ \E i \in DOMAIN stream[s].pending : R!DataConsumed(s, i)
  /\ up' = up \o Answer(s)
  /\ UNCHANGED <<sVars, down>>

ReceiverRuns ==
  /\ R!LoopFlushed \/ R!LoopFails \/ (R!Preface /\ rLoop' = "reading")
  /\ UNCHANGED <<sVars, down, up>>

Open ==
  /\ R!CreateStream
  /\ UNCHANGED <<sVars, down, up>>

\* Either end hangs up: the other, which may have frames to read, finds out at any
\* later time.
HangUp ==
  /\ \/ S!Close /\ UNCHANGED rVars
     \/ R!Close /\ UNCHANGED sVars
  /\ UNCHANGED <<down, up>>
-----------------------------------------------------------------------------
Next ==
  \/ \E s \in Streams : Call(s) \/ Resume(s) \/ Consumed(s)
  \/ HandleUp
  \/ HandleDown
  \/ SenderRuns
  \/ ReceiverRuns
  \/ Open
  \/ HangUp

\* Each end's IOLoop runs the callbacks it was given and reads what has arrived, and
\* the delegates consume their data.  Nothing is assumed of the applications that
\* write, of who hangs up, or of the order of all this.
Fairness ==
  /\ WF_vars(HandleUp) /\ WF_vars(HandleDown)
  /\ WF_vars(ReceiverRuns)
  /\ \A s \in Streams : WF_vars(Resume(s)) /\ WF_vars(Consumed(s))

Spec == Init /\ [][Next]_vars /\ Fairness
-----------------------------------------------------------------------------
(* Properties.                                                             *)

Connected == sOpen /\ rOpen

\* What the delegate has when it is told that the message is complete is what the
\* application of the other end wrote, all of it, and as long as it had announced,
\* also when writes were refused, streams reset or an end hung up.
MessageArrives ==
  \A s \in Streams :
    stream[s].told = "finish" =>
      /\ stream[s].got = accepted[s]
      /\ stream[s].declared = declared[s]
      /\ app[s] = "finished" /\ fin[s] # "failed"

\* The two ends never accuse each other: no frame this program writes, in any
\* order it may write them, is an error to the other end.  It is so if windows begin no
\* larger than MAX_FRAME_SIZE, but in the code they do.
NoAccusation ==
  rLoop \notin {"rst", "goaway"} /\ sLoop \notin {"rst", "goaway"}

\* However large windows are, the only frame that an end refuses is DATA that is too
\* large: nothing else, in no order of the frames, makes it write RST_STREAM or GOAWAY.
OnlySizeIsRefused ==
  [][NoAccusation /\ ~NoAccusation' =>
       down # <<>> /\ TooLarge(Head(down)) /\ down' = Tail(down)]_vars

\* The bytes of DATA, or the credit of WINDOW_UPDATE, that are underway for s.
Underway(frames, type, s) ==
  SumFunction([i \in DOMAIN frames |->
                 IF frames[i].type = type /\ frames[i].s = s THEN frames[i].n ELSE 0])

\* The credit of a window goes in a circle and none is lost or made on the way: what
\* is not in the sender's window is held by a coroutine, in a DATA frame, with the
\* delegate, or in a WINDOW_UPDATE; of each stream, and of the connection.  What is lost
\* with a frame that is refused is not missed: the connection ends.
CreditCirculates ==
  LET away(s) == Underway(down, "DATA", s) + R!Pending(s)
      connAway == SumFunction([s \in Streams |-> S!TakenFromConn(s) + away(s)])
  IN  Connected /\ NoAccusation =>
        /\ \A s \in Streams :
             strWin[s] + S!TakenFromStream(s) + away(s) + Underway(up, "WINDOW_UPDATE", s)
               \in StreamInits
        /\ connWin + connAway + Underway(up, "WINDOW_UPDATE", 0) = ConnInit

\* While the connection lasts every byte that an application wrote reaches the
\* delegate: the writer that waits for credit and the reader that waits for
\* data do not wait for each other for ever ...
EveryByteArrives ==
  \A s \in Streams :
    stream[s].got < accepted[s] ~> stream[s].got = accepted[s] \/ ~Connected

\* ... and every finish() that was accepted completes a message.
FinishArrives ==
  \A s \in Streams :
    fin[s] \in {"called", "done"} ~> stream[s].told = "finish" \/ ~Connected
=============================================================================

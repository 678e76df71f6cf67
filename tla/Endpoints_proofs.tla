--------------------------- MODULE Endpoints_proofs ---------------------------
(***************************************************************************)
(* Theorems about the two ends of a connection, for any number of streams, *)
(* any lengths and windows of any size: messages arrive whole, no frame    *)
(* but one that is too large is refused, and no credit is lost between the *)
(* ends.                                                                   *)
(*                                                                         *)
(* Each end keeps the invariant its own proofs are about, whatever the     *)
(* other does.  What remains is how they are related by what is underway:  *)
(* a stream the receiving end has read of, and the frames underway to it,  *)
(* give what the sending end wrote (InStep), and the credit the sending    *)
(* end was granted, and that underway to it, is what the receiving end     *)
(* returned (CreditReturns).  From these follows that each frame meets a   *)
(* stream that is ready for it.                                            *)
(***************************************************************************)
EXTENDS Endpoints_wire_proofs

\* The proofs about the two ends.
SP == INSTANCE FlowControl_proofs WITH
  open <- sOpen, loop <- sLoop,
  MaxCredit <- MaxWindow + MaxBytes * Cardinality(Streams)

RP == INSTANCE Receiver_proofs WITH
  open <- rOpen, loop <- rLoop, Ids <- Streams, Pads <- {None}, MaxBody <- MaxBytes

\* While the loop of the receiving end reads.
InStep ==
  rLoop \in {"preface", "reading"} =>
    \A s \in Streams : /\ Sound(down, s, stream[s], declared[s], sent[s], ended[s])
                       /\ Started(down, s, stream[s], app[s] = "new", sOpen)

\* In every state.
Arrived ==
  \A s \in Streams :
    /\ stream[s].got <= sent[s]
    /\ stream[s].told = "finish" =>
         ended[s] /\ stream[s].got = sent[s] /\ stream[s].declared = declared[s]

\* What was granted to the sender, or is on its way, is what the receiver returned.
CreditReturns ==
  /\ \A s \in Streams :
       strCredit[s] + Underway(up, "WINDOW_UPDATE", s) - stream[s].granted \in StreamInits
  /\ connCredit + Underway(up, "WINDOW_UPDATE", 0) = ConnInit + connGranted

\* The loops do not wait for an error of the other end to be flushed, but for that of a
\* frame that is too large.
LoopsKept ==
  /\ sLoop \in {"reading", "ended"}
  /\ rLoop # "rst" /\ (FramesFit => rLoop # "goaway")
  /\ rLoop = "ended" => ~rOpen
-----------------------------------------------------------------------------
(* The two ends, each with the invariant that is proved of it.             *)

\* The inductive invariant: those of the two ends, and how they are related.
EInv ==
  /\ SP!IInv /\ SP!ConnKept
  /\ RP!IInv
  /\ WireKept
  /\ InStep
  /\ Arrived
  /\ CreditReturns
  /\ LoopsKept

\* An operator of the library is the same one in each of the instances.
LEMMA SameLibrary ==
  /\ \A T : SP!IsFiniteSet(T) <=> IsFiniteSet(T)
  /\ \A T : RP!IsFiniteSet(T) <=> IsFiniteSet(T)
  /\ \A f : SP!SumFunction(f) = SumFunction(f)
  /\ \A f : RP!SumFunction(f) = SumFunction(f)
<1>1. \A T : SP!IsFiniteSet(T) <=> IsFiniteSet(T)
  BY DEF SP!IsFiniteSet, IsFiniteSet
<1>2. \A T : RP!IsFiniteSet(T) <=> IsFiniteSet(T)
  BY DEF RP!IsFiniteSet, IsFiniteSet
<1>3. \A f : SP!SumFunction(f) = SumFunction(f)
  BY DEF SP!SumFunction, SP!SumFunctionOnSet, SP!FoldFunctionOnSet, SP!MapThenFoldSet,
         SumFunction, SumFunctionOnSet, FoldFunctionOnSet, MapThenFoldSet
<1>4. \A f : RP!SumFunction(f) = SumFunction(f)
  BY DEF RP!SumFunction, RP!SumFunctionOnSet, RP!FoldFunctionOnSet, RP!MapThenFoldSet,
         SumFunction, SumFunctionOnSet, FoldFunctionOnSet, MapThenFoldSet
<1> QED
  BY <1>1, <1>2, <1>3, <1>4

\* What the proofs about the two ends assume of their constants.
SenderConstants ==
  /\ IsFiniteSet(Streams)
  /\ MaxWindow \in Nat \ {0}
  /\ ConnInit \in 0 .. MaxWindow
  /\ StreamInits \subseteq 0 .. MaxWindow
  /\ Lengths \subseteq Nat
  /\ None \notin Int
  /\ MaxBytes \in Nat
  /\ MaxWindow + MaxBytes * Cardinality(Streams) \in Nat

ReceiverConstants ==
  /\ Roles \subseteq BOOLEAN
  /\ Streams \subseteq Nat \ {0} /\ IsFiniteSet(Streams)
  /\ Lengths \subseteq Nat
  /\ None \notin Int
  /\ {None} \subseteq 0 .. 255 \cup {None}
  /\ MaxBytes \in Nat

\* The constants of the sending end are what its module assumes ...
LEMMA SenderAssumption == SP!ConstantsAssumption
<1>1. Cardinality(Streams) \in Nat
  BY ConstantsAssumption, FS_CardinalityType
<1>2. MaxWindow + MaxBytes * Cardinality(Streams) \in Nat
  BY <1>1, ConstantsAssumption
<1>3. SenderConstants
  BY <1>2, ConstantsAssumption DEF SenderConstants
<1> QED
  BY <1>3, SameLibrary DEF SenderConstants

\* ... and of the receiving end.
LEMMA ReceiverAssumption == RP!ConstantsAssumption
<1>1. ReceiverConstants
  BY ConstantsAssumption DEF ReceiverConstants
<1> QED
  BY <1>1, SameLibrary DEF ReceiverConstants

\* The steps of the sending end keep its invariants ...
LEMMA SenderKeeps ==
  SP!IInv /\ SP!ConnKept /\ [SP!Next]_(SP!vars) => SP!IInv' /\ SP!ConnKept'
BY SenderAssumption, SP!NextInv, SP!NextCredit

\* ... the receiving end its own ...
LEMMA ReceiverKeeps ==
  RP!IInv /\ [RP!Next]_(RP!vars) => RP!IInv'
BY ReceiverAssumption, RP!NextKeepsInv

\* ... and a step that writes does so as its proofs describe ...
LEMMA SenderWrites ==
  \A s \in Streams :
    SP!IInv /\ SP!IInv' /\ (SP!Call(s) \/ SP!Resume(s)) => SP!Writes(s)
BY SenderAssumption, SP!StreamWrites

\* ... within what was granted and what was accepted.
LEMMA SenderBounds == SP!IInv /\ SP!ConnKept => SP!Granted /\ SP!Accepted
BY SenderAssumption, SP!SentWasGranted, SP!AllSentIsAccepted

\* A resumption in Endpoints is the one the proofs of the sending end are about.
LEMMA ResumeIsSenders == \A s : S!Resume(s) => SP!Resume(s)
BY DEF S!Resume, S!ResumeLock, S!ResumeStreamWait, S!ResumeConnWait, S!ParentReturned,
       S!ConsumeReturned, S!Flushed, S!FlushFailed, S!WriteRound, S!WriteEnd, S!Release,
       S!WaitForStream, S!WaitForConn, S!ConsumeBoth, S!WriteData, S!Suspend, S!Wanted,
       S!Lesser, S!Size, S!IsEnd, S!windows, S!writer, S!caller, S!credit,
       SP!Resume, SP!ResumeLock, SP!ResumeStreamWait, SP!ResumeConnWait,
       SP!ParentReturned, SP!ConsumeReturned, SP!Flushed, SP!FlushFailed, SP!WriteRound,
       SP!WriteEnd, SP!Release, SP!WaitForStream, SP!WaitForConn, SP!ConsumeBoth,
       SP!WriteData, SP!Suspend, SP!Wanted, SP!Lesser, SP!Size, SP!IsEnd, SP!windows,
       SP!writer, SP!caller, SP!credit

\* So is a call.
LEMMA CallIsSenders == \A s : S!Call(s) => SP!Call(s)
<1>1. \A s, n, rem : S!WriteBody(s, n, rem) => SP!WriteBody(s, n, rem)
  BY DEF S!WriteBody, S!WriteRound, S!WriteReset, S!WaitForStream, S!WaitForConn,
         S!ConsumeBoth, S!WriteData, S!Suspend, S!Wanted, S!Lesser, S!Size, S!windows,
         S!writer, SP!WriteBody, SP!WriteRound, SP!WriteReset, SP!WaitForStream,
         SP!WaitForConn, SP!ConsumeBoth, SP!WriteData, SP!Suspend, SP!Wanted, SP!Lesser,
         SP!Size, SP!windows, SP!writer
<1>2. \A s, length, n : S!WriteHeaders(s, length, n) => SP!WriteHeaders(s, length, n)
  BY <1>1 DEF S!WriteHeaders, S!windows, S!writer, S!credit, SP!WriteHeaders, SP!windows,
              SP!writer, SP!credit
<1>3. \A s, n : S!Write(s, n) => SP!Write(s, n)
  BY <1>1 DEF S!Write, S!credit, SP!Write, SP!credit
<1>4. \A s : S!Finish(s) => SP!Finish(s)
  BY DEF S!Finish, S!WriteEnd, S!WriteReset, S!windows, S!credit, SP!Finish, SP!WriteEnd,
         SP!WriteReset, SP!windows, SP!credit
<1> QED
  BY <1>2, <1>3, <1>4 DEF S!Call, SP!Call
-----------------------------------------------------------------------------
(* What the invariants of the two ends say to each other.                  *)

\* What the invariants of the sending end say of the windows and the bytes of a stream.
SenderFacts ==
  /\ \A s \in Streams :
       /\ sent[s] \in Nat /\ accepted[s] \in Nat /\ sent[s] <= accepted[s]
       /\ declared[s] \in Nat \cup {None}
       /\ declared[s] # None => accepted[s] <= declared[s]
       /\ ended[s] \in BOOLEAN
       /\ ended[s] => /\ sent[s] = accepted[s] /\ declared[s] \in {None, sent[s]}
                      /\ app[s] = "finished" /\ fin[s] = "done"
       /\ strWin[s] \in Nat /\ strCredit[s] \in Nat /\ S!TakenFromStream(s) \in Nat
       /\ strWin[s] + sent[s] + S!TakenFromStream(s) <= strCredit[s]
       /\ sOpen => strWin[s] + sent[s] + S!TakenFromStream(s) = strCredit[s]
  /\ sent \in [Streams -> Nat] /\ SumFunction(sent) \in Nat
  /\ connWin \in Nat /\ connCredit \in Nat
  /\ connWin + SumFunction(sent) <= connCredit

\* They follow from its invariants.
LEMMA SenderIsSound == SP!IInv /\ SP!ConnKept => SenderFacts
<1> SUFFICES ASSUME SP!IInv, SP!ConnKept PROVE SenderFacts
  OBVIOUS
<1>1. ASSUME NEW s \in Streams
      PROVE  /\ sent[s] \in Nat /\ accepted[s] \in Nat /\ sent[s] <= accepted[s]
             /\ declared[s] \in Nat \cup {None}
             /\ declared[s] # None => accepted[s] <= declared[s]
             /\ ended[s] \in BOOLEAN
             /\ ended[s] => /\ sent[s] = accepted[s] /\ declared[s] \in {None, sent[s]}
                            /\ app[s] = "finished" /\ fin[s] = "done"
  <2>1. /\ sent[s] \in Nat /\ accepted[s] \in Nat /\ ended[s] \in BOOLEAN
        /\ declared[s] \in Nat \cup {None} /\ remaining[s] \in Int \cup {None}
    BY DEF SP!IInv, SP!TypeOK
  <2>2. sent[s] <= accepted[s]
    BY SenderBounds DEF SP!Accepted
  <2>3. SP!LocalInv(s)
    BY DEF SP!IInv
  <2>4. declared[s] # None => accepted[s] <= declared[s]
    BY <2>3 DEF SP!LocalInv, SP!LengthKept
  <2>5. ended[s] => /\ pc[s] = "idle" /\ fin[s] = "done" /\ app[s] = "finished"
                    /\ remaining[s] \in {None, 0}
    BY <2>3 DEF SP!LocalInv, SP!EndIsLast, SP!Complete
  <2>6. pc[s] = "idle" => sent[s] = accepted[s]
    BY <2>3 DEF SP!LocalInv, SP!Holder
  <2>7. /\ remaining[s] = None => declared[s] = None
        /\ remaining[s] = 0 => declared[s] \in {None, accepted[s]}
    BY <2>1, <2>3, ConstantsAssumption DEF SP!LocalInv, SP!LengthKept
  <2> QED
    BY <2>1, <2>2, <2>4, <2>5, <2>6, <2>7
<1>2. ASSUME NEW s \in Streams
      PROVE  /\ strWin[s] \in Nat /\ strCredit[s] \in Nat /\ S!TakenFromStream(s) \in Nat
             /\ strWin[s] + sent[s] + S!TakenFromStream(s) <= strCredit[s]
             /\ sOpen => strWin[s] + sent[s] + S!TakenFromStream(s) = strCredit[s]
  <2>1. /\ strWin[s] \in Nat /\ strCredit[s] \in Nat /\ amount[s] \in Nat
    BY DEF SP!IInv, SP!TypeOK
  <2>2. S!TakenFromStream(s) = SP!TakenFromStream(s)
    BY DEF S!TakenFromStream, SP!TakenFromStream
  <2>3. S!TakenFromStream(s) \in Nat
    BY <2>1 DEF S!TakenFromStream
  <2>4. SP!CreditKept(s)
    BY DEF SP!IInv, SP!LocalInv
  <2> QED
    BY <2>1, <2>2, <2>3, <2>4 DEF SP!CreditKept
<1>3. sent \in [Streams -> Nat] /\ connWin \in Nat /\ connCredit \in Nat
  BY DEF SP!IInv, SP!TypeOK
<1>4. SumFunction(sent) \in Nat
  <2>1. DOMAIN sent = Streams /\ IsFiniteSet(Streams) /\ \A s \in Streams : sent[s] \in Nat
    BY <1>3, ConstantsAssumption
  <2> QED
    BY <2>1, SumNat DEF SumFunction
<1>5. connWin + SumFunction(sent) <= connCredit
  BY SenderBounds, SameLibrary DEF SP!Granted
<1> QED
  BY <1>1, <1>2, <1>3, <1>4, <1>5 DEF SenderFacts

\* The same of the receiving end.
ReceiverFacts ==
  /\ \A s \in Streams :
       /\ stream[s] \in R!Stream
       /\ R!Pending(s) \in Nat
       /\ stream[s].granted <= stream[s].got
       /\ rOpen => stream[s].got = stream[s].granted + R!Pending(s)
  /\ stream \in [Streams -> R!Stream]
  /\ connGranted \in Nat
  /\ connGranted = SumFunction([s \in Streams |-> stream[s].granted])

\* They follow from its invariant.
LEMMA ReceiverIsSound == RP!IInv => ReceiverFacts
<1> SUFFICES ASSUME RP!IInv PROVE ReceiverFacts
  OBVIOUS
<1>1. stream \in [Streams -> R!Stream] /\ connGranted \in Nat
  BY DEF RP!IInv, RP!TypeOK, RP!Stream, R!Stream
<1>2. connGranted = SumFunction([s \in Streams |-> stream[s].granted])
  BY SameLibrary DEF RP!IInv, RP!CreditKept, RP!Granted
<1>3. ASSUME NEW s \in Streams
      PROVE  /\ stream[s] \in R!Stream
             /\ R!Pending(s) \in Nat
             /\ stream[s].granted <= stream[s].got
             /\ rOpen => stream[s].got = stream[s].granted + R!Pending(s)
  <2> DEFINE p == stream[s].pending
             n == SumFunction(p)
  <2>1. stream[s] \in R!Stream
    BY <1>1
  <2>2. p \in Seq(Nat \ {0}) /\ stream[s].got \in Nat /\ stream[s].granted \in Nat
    BY <2>1 DEF R!Stream
  <2>3. DOMAIN p = 1 .. Len(p) /\ Len(p) \in Nat /\ \A i \in 1 .. Len(p) : p[i] \in Nat
    BY <2>2
  <2>4. n \in Nat
    <3> HIDE DEF p
    <3>1. IsFiniteSet(DOMAIN p)
      BY <2>3, FS_Interval
    <3> QED
      BY <2>3, <3>1, SumNat DEF SumFunction
  <2>5. R!Pending(s) = n
    <3>1. R!SumFunction(p) = SumFunction(p)
      BY DEF R!SumFunction, R!SumFunctionOnSet, R!FoldFunctionOnSet, R!MapThenFoldSet,
             SumFunction, SumFunctionOnSet, FoldFunctionOnSet, MapThenFoldSet
    <3> QED
      BY <3>1 DEF R!Pending
  <2>6. RP!Owed(stream[s]) = stream[s].got - stream[s].granted - n
    BY SameLibrary DEF RP!Owed
  <2>7. RP!Owed(stream[s]) >= 0 /\ (rOpen => RP!Owed(stream[s]) = 0)
    BY DEF RP!IInv, RP!CreditKept
  <2> HIDE DEF n, p
  <2> QED
    BY <2>1, <2>2, <2>4, <2>5, <2>6, <2>7
<1> QED
  BY <1>1, <1>2, <1>3 DEF ReceiverFacts

\* All that is underway to the sending end it may have: what it has of a window stays
\* within the size the window began with.
CreditFits ==
  /\ \A s \in Streams :
       \E n \in StreamInits :
         strCredit[s] + Underway(up, "WINDOW_UPDATE", s) <= n + sent[s]
  /\ connCredit + Underway(up, "WINDOW_UPDATE", 0) <= ConnInit + SumFunction(sent)

\* So the peer grants no more than the sending end can take.
LEMMA CreditIsBounded == EInv => CreditFits
<1> SUFFICES ASSUME EInv PROVE CreditFits
  OBVIOUS
<1>1. SenderFacts /\ ReceiverFacts
  BY SenderIsSound, ReceiverIsSound DEF EInv
<1>2. \A s \in Streams \cup {0} : Underway(up, "WINDOW_UPDATE", s) \in Nat
  BY CountsType DEF EInv, WireKept, Numbered
<1>3. ASSUME NEW s \in Streams
      PROVE  /\ stream[s].granted \in Nat /\ stream[s].granted <= sent[s]
             /\ \E n \in StreamInits :
                  strCredit[s] + Underway(up, "WINDOW_UPDATE", s) <= n + sent[s]
  <2> DEFINE u == Underway(up, "WINDOW_UPDATE", s)
             n == strCredit[s] + u - stream[s].granted
  <2>1. /\ stream[s].granted \in Nat /\ stream[s].got \in Nat
        /\ stream[s].granted <= stream[s].got
    BY <1>1 DEF ReceiverFacts, R!Stream
  <2>2. stream[s].got <= sent[s] /\ sent[s] \in Nat /\ strCredit[s] \in Nat
    BY <1>1 DEF EInv, Arrived, SenderFacts
  <2>3. n \in StreamInits
    BY DEF EInv, CreditReturns
  <2>4. u \in Nat
    BY <1>2
  <2>5. strCredit[s] + u <= n + sent[s]
    <3> HIDE DEF u
    <3> QED
      BY <2>1, <2>2, <2>4
  <2> HIDE DEF n
  <2> QED
    BY <2>1, <2>2, <2>3, <2>5
<1>4. connGranted <= SumFunction(sent)
  <2> DEFINE g == [s \in Streams |-> stream[s].granted]
  <2>1. DOMAIN g = Streams /\ DOMAIN sent = Streams /\ IsFiniteSet(Streams)
    BY <1>1, ConstantsAssumption DEF SenderFacts
  <2>2. \A s \in Streams : g[s] \in Int /\ sent[s] \in Int /\ g[s] <= sent[s]
    BY <1>1, <1>3 DEF SenderFacts
  <2>3. connGranted = SumFunction(g)
    BY <1>1 DEF ReceiverFacts
  <2> HIDE DEF g
  <2>4. SumFunctionOnSet(g, Streams) <= SumFunctionOnSet(sent, Streams)
    BY <2>1, <2>2, SumMonotone
  <2> QED
    BY <2>1, <2>3, <2>4 DEF SumFunction
<1>5. connCredit + Underway(up, "WINDOW_UPDATE", 0) <= ConnInit + SumFunction(sent)
  <2>1. connCredit + Underway(up, "WINDOW_UPDATE", 0) = ConnInit + connGranted
    BY DEF EInv, CreditReturns
  <2>2. /\ connGranted \in Nat /\ SumFunction(sent) \in Nat /\ ConnInit \in Nat
    BY <1>1, ConstantsAssumption DEF SenderFacts, ReceiverFacts
  <2> QED
    BY <1>4, <2>1, <2>2
<1> QED
  BY <1>3, <1>5 DEF CreditFits
-----------------------------------------------------------------------------
(* Steps of the sending end.                                               *)

\* What is known of the sending end after a step.
LEMMA SenderIsSoundNext == SP!IInv' /\ SP!ConnKept' => SenderFacts'
BY SenderIsSound, PTL

\* The frames that Written(s) puts together.
HeadersOf(s) == [type |-> "HEADERS", s |-> s, n |-> declared'[s]]
ResetOf(s) == [type |-> "RST_STREAM", s |-> s, n |-> 0]
DataOf(s) == [type |-> "DATA", s |-> s, n |-> sent'[s] - sent[s]]
EndOf(s) == [type |-> "END", s |-> s, n |-> 0]

\* They are written in this order.
LEMMA WrittenIs ==
  \A s : Written(s) =
    ((Maybe(HeadersOf(s), sOpen /\ app[s] = "new" /\ app'[s] # "new")
      \o Maybe(ResetOf(s), rst'[s] # rst[s]))
     \o Maybe(DataOf(s), sent'[s] > sent[s]))
    \o Maybe(EndOf(s), ended'[s] # ended[s])
BY DEF Written, Maybe, HeadersOf, ResetOf, DataOf, EndOf

\* Calls of the sending application, and resumptions of its coroutines.
LEMMA WriterStep ==
  ASSUME EInv, NEW s \in Streams, Call(s) \/ Resume(s)
  PROVE  EInv'
<1>1. /\ SP!Call(s) \/ SP!Resume(s)
      /\ down' = down \o Written(s)
      /\ UNCHANGED <<rVars, up>>
  BY CallIsSenders, ResumeIsSenders DEF Call, Resume
<1>2. SP!IInv' /\ SP!ConnKept'
  <2>1. SP!Next
    BY <1>1 DEF SP!Next
  <2> QED
    BY <2>1, SenderKeeps DEF EInv
<1>3. SP!Writes(s)
  BY <1>1, <1>2, SenderWrites DEF EInv
<1>4. SenderFacts /\ SenderFacts' /\ ReceiverFacts /\ CreditFits
  BY <1>2, SenderIsSound, SenderIsSoundNext, ReceiverIsSound, CreditIsBounded DEF EInv
<1>5. /\ sOpen' = sOpen /\ sLoop' = sLoop /\ connCredit' = connCredit
      /\ strCredit' = strCredit
      /\ \A t \in Streams \ {s} : SP!SameAt(t)
      /\ ~ended[s] /\ sent[s] <= sent'[s]
      /\ sent'[s] # sent[s] \/ ended'[s] # ended[s] \/ rst'[s] # rst[s] =>
           sOpen /\ app'[s] # "new"
      /\ app[s] # "new" => app'[s] # "new" /\ declared'[s] = declared[s]
  BY <1>3 DEF SP!Writes, SP!Moves
<1>6. UNCHANGED <<rOpen, rLoop, isClient, upgraded, known, nextId, maxRemote, last, stream,
                  connGranted, undecoded, up>>
  BY <1>1 DEF rVars
<1>7. RP!IInv'
  <2>1. UNCHANGED (RP!vars)
    BY <1>6 DEF RP!vars, RP!conn
  <2> QED
    BY <2>1, ReceiverKeeps DEF EInv
<1> DEFINE f1 == HeadersOf(s)
           f2 == ResetOf(s)
           f3 == DataOf(s)
           f4 == EndOf(s)
           c1 == sOpen /\ app[s] = "new" /\ app'[s] # "new"
           c2 == rst'[s] # rst[s]
           c3 == sent'[s] > sent[s]
           c4 == ended'[s] # ended[s]
<1>8. /\ sent[s] \in Nat /\ sent'[s] \in Nat
      /\ ended[s] \in BOOLEAN /\ ended'[s] \in BOOLEAN
      /\ declared'[s] \in Nat \cup {None}
  BY <1>4 DEF SenderFacts
<1>9. /\ f1 \in Packets /\ f2 \in Packets /\ f4 \in Packets /\ (c3 => f3 \in Packets)
      /\ f1.s = s /\ f1.type = "HEADERS" /\ f1.n = declared'[s]
      /\ f2.s = s /\ f2.type = "RST_STREAM"
      /\ f3.s = s /\ f3.type = "DATA" /\ f3.n = sent'[s] - sent[s]
      /\ f4.s = s /\ f4.type = "END"
  <2>1. c3 => sent'[s] - sent[s] \in Nat
    BY <1>8
  <2> QED
    BY <1>8, <2>1 DEF Packets, HeadersOf, ResetOf, DataOf, EndOf
<1>10. /\ FrameOK(f1) /\ FrameOK(f2) /\ FrameOK(f4)
       /\ c3 => FrameOK(f3)
  <2>1. ASSUME FramesFit PROVE sent'[s] - sent[s] <= MaxFrame
    <3>1. PICK n \in StreamInits :
            strCredit[s] + Underway(up, "WINDOW_UPDATE", s) <= n + sent[s]
      BY <1>4 DEF CreditFits
    <3>2. Underway(up, "WINDOW_UPDATE", s) \in Nat
      BY CountsType DEF EInv, WireKept, Numbered
    <3>3. /\ sent'[s] + strWin'[s] + S!TakenFromStream(s)' <= strCredit'[s]
          /\ strWin'[s] \in Nat /\ S!TakenFromStream(s)' \in Nat /\ strCredit'[s] \in Nat
      BY <1>4 DEF SenderFacts
    <3>4. n <= MaxFrame /\ n \in Nat /\ MaxFrame \in Nat
      BY <2>1, ConstantsAssumption DEF FramesFit
    <3>5. strCredit'[s] = strCredit[s]
      BY <1>5
    <3> QED
      BY <1>8, <3>1, <3>2, <3>3, <3>4, <3>5
  <2>2. c3 => sent'[s] - sent[s] > 0
    BY <1>8
  <2> QED
    BY <1>9, <2>1, <2>2 DEF FrameOK
<1> HIDE DEF f1, f2, f3, f4
<1>11. /\ down \in Seq(Packets) /\ \A i \in 1 .. Len(down) : FrameOK(down[i])
       /\ up \in Seq(Packets) /\ \A i \in 1 .. Len(up) : CreditOK(up[i])
  BY DEF EInv, WireKept
<1> DEFINE m1 == Maybe(f1, c1)
           m2 == Maybe(f2, c2)
           m3 == Maybe(f3, c3)
           m4 == Maybe(f4, c4)
           q1 == down \o m1
           q2 == q1 \o m2
           q3 == q2 \o m3
<1>12. c1 \in BOOLEAN /\ c2 \in BOOLEAN /\ c3 \in BOOLEAN /\ c4 \in BOOLEAN
  OBVIOUS
<1>13. /\ q1 \in Seq(Packets) /\ q2 \in Seq(Packets) /\ q3 \in Seq(Packets)
       /\ Grows(down, f1, c1, q1) /\ Grows(q1, f2, c2, q2) /\ Grows(q2, f3, c3, q3)
       /\ Grows(q3, f4, c4, down')
  <2>1. down' = down \o (((m1 \o m2) \o m3) \o m4)
    BY <1>1, WrittenIs DEF f1, f2, f3, f4
  <2> HIDE DEF c1, c2, c3, c4
  <2>2. /\ q1 \in Seq(Packets) /\ Grows(down, f1, c1, q1) /\ m1 \in Seq(Packets)
    BY <1>9, <1>11, <1>12, MaybeIsWritten
  <2>3. /\ q2 \in Seq(Packets) /\ Grows(q1, f2, c2, q2) /\ m2 \in Seq(Packets)
    <3> HIDE DEF q1
    <3> QED
      BY <1>9, <1>12, <2>2, MaybeIsWritten
  <2>4. /\ q3 \in Seq(Packets) /\ Grows(q2, f3, c3, q3) /\ m3 \in Seq(Packets)
    <3> HIDE DEF q2
    <3>1. c3 => f3 \in Packets
      BY <1>9
    <3> QED
      BY <1>12, <2>3, <3>1, MaybeIsWritten
  <2>5. /\ Grows(q3, f4, c4, q3 \o m4) /\ m4 \in Seq(Packets)
    <3> HIDE DEF q3
    <3> QED
      BY <1>9, <1>12, <2>4, MaybeIsWritten
  <2>6. q3 \o m4 = down'
    <3> HIDE DEF m1, m2, m3, m4
    <3>1. AllOrEach(down, m1, m2, m3, m4)
      BY <1>11, <2>2, <2>3, <2>4, <2>5, Regroup
    <3> QED
      BY <2>1, <3>1 DEF AllOrEach
  <2> HIDE DEF q1, q2, q3
  <2> QED
    BY <2>2, <2>3, <2>4, <2>5, <2>6
<1> HIDE DEF q1, q2, q3, m1, m2, m3, m4
<1>14. down' \in Seq(Packets) /\ \A i \in 1 .. Len(down') : FrameOK(down'[i])
  <2> HIDE DEF c1, c2, c3, c4
  <2>1. \A i \in 1 .. Len(q1) : FrameOK(q1[i])
    BY <1>10, <1>11, <1>13, <1>12, GrowsOK
  <2>2. \A i \in 1 .. Len(q2) : FrameOK(q2[i])
    BY <1>10, <1>13, <1>12, <2>1, GrowsOK
  <2>3. \A i \in 1 .. Len(q3) : FrameOK(q3[i])
    BY <1>10, <1>13, <1>12, <2>2, GrowsOK
  <2> QED
    BY <1>10, <1>13, <1>12, <2>3, GrowsOK
<1>15. ASSUME NEW t \in Streams \ {s},
              Sound(down, t, stream[t], declared[t], sent[t], ended[t]),
              Started(down, t, stream[t], app[t] = "new", sOpen)
       PROVE  /\ Sound(down', t, stream'[t], declared'[t], sent'[t], ended'[t])
              /\ Started(down, t, stream[t], app[t] = "new", sOpen)'
  <2> HIDE DEF c1, c2, c3, c4
  <2> DEFINE r == stream[t]
             d == declared[t]
             n == sent[t]
             e == ended[t]
             new == app[t] = "new"
             o == sOpen
  <2>1. /\ f1.s # t /\ f2.s # t /\ f3.s # t /\ f4.s # t
        /\ Sound(down, t, r, d, n, e) /\ Started(down, t, r, new, o)
    BY <1>9, <1>15
  <2>2. /\ stream'[t] = r /\ declared'[t] = d /\ sent'[t] = n /\ ended'[t] = e
        /\ app'[t] = app[t]
    BY <1>5, <1>6 DEF SP!SameAt
  <2> HIDE DEF r, d, n, e, new, o
  <2>3. Sound(q1, t, r, d, n, e) /\ Started(q1, t, r, new, o)
    BY <1>11, <1>13, <1>12, <2>1, GrowsOther
  <2>4. Sound(q2, t, r, d, n, e) /\ Started(q2, t, r, new, o)
    BY <1>13, <1>12, <2>1, <2>3, GrowsOther
  <2>5. Sound(q3, t, r, d, n, e) /\ Started(q3, t, r, new, o)
    BY <1>13, <1>12, <2>1, <2>4, GrowsOther
  <2>6. Sound(down', t, r, d, n, e) /\ Started(down', t, r, new, o)
    BY <1>13, <1>12, <2>1, <2>5, GrowsOther
  <2>7. Started(down, t, stream[t], app[t] = "new", sOpen)'
    BY <1>5, <2>2, <2>6 DEF Started, HeadersBy, new, o
  <2> QED
    BY <2>2, <2>6, <2>7
<1>16. ASSUME Sound(down, s, stream[s], declared[s], sent[s], ended[s]),
              Started(down, s, stream[s], app[s] = "new", sOpen)
       PROVE  /\ Sound(down', s, stream'[s], declared'[s], sent'[s], ended'[s])
              /\ Started(down, s, stream[s], app[s] = "new", sOpen)'
  <2> DEFINE r == stream[s]
             d == declared[s]
             d1 == declared'[s]
             n == sent[s]
             n1 == sent'[s]
             e == ended[s]
             e1 == ended'[s]
             new == app[s] = "new"
             new1 == app'[s] = "new"
             o == sOpen
             q == down
             q4 == down'
  <2>1. /\ r.got \in Nat
        /\ Sound(q, s, r, d, n, e) /\ Started(q, s, r, new, o)
    BY <1>4, <1>16 DEF ReceiverFacts, R!Stream
  <2>2. /\ c2 \/ c3 \/ c4 => o /\ ~new1
        /\ ~new => ~new1 /\ d1 = d
        /\ c1 <=> o /\ new /\ ~new1
        /\ c3 <=> n1 > n
        /\ c4 <=> e1 # e
        /\ n \in Nat /\ n1 \in Nat /\ n <= n1
        /\ e \in BOOLEAN /\ e1 \in BOOLEAN /\ ~e
    BY <1>5, <1>8
  <2>3. /\ Grows(q, f1, c1, q1) /\ Grows(q1, f2, c2, q2) /\ Grows(q2, f3, c3, q3)
        /\ Grows(q3, f4, c4, q4) /\ q \in Seq(Packets)
        /\ q1 \in Seq(Packets) /\ q2 \in Seq(Packets) /\ q3 \in Seq(Packets)
    BY <1>11, <1>13
  <2>4. f1.n = d1 /\ f3.n = n1 - n
    BY <1>9
  <2> HIDE DEF r, d, d1, n, n1, e, e1, new, new1, o, q, q4, c1, c2, c3, c4
  <2>5. Sound(q1, s, r, d1, n, e) /\ (o /\ ~new1 => Begun(q1, s, r))
    <3>1. CASE c1
      <4>1. /\ Longer(q, f1, q1)
            /\ r.told = "nothing" /\ \A i \in 1 .. Len(q) : q[i].s # s
        BY <2>1, <2>2, <2>3, <3>1 DEF Grows, Started
      <4> QED
        BY <1>9, <2>1, <2>3, <2>4, <4>1, LongerHeaders
    <3>2. CASE ~c1 /\ new
      <4>1. /\ q1 = q
            /\ r.told = "nothing" /\ \A i \in 1 .. Len(q) : q[i].s # s
        BY <2>1, <2>3, <3>2 DEF Grows, Started
      <4>2. ~(o /\ ~new1)
        BY <2>2, <3>2
      <4> QED
        BY <2>1, <4>1, <4>2 DEF Sound
    <3>3. CASE ~c1 /\ ~new
      BY <2>1, <2>2, <2>3, <3>3 DEF Grows, Started, Begun
    <3> QED
      BY <3>1, <3>2, <3>3
  <2>6. Sound(q2, s, r, d1, n, e) /\ (Begun(q1, s, r) => Begun(q2, s, r))
    <3>1. n = n + Count(f2, "DATA", s)
      BY <1>9, <2>2 DEF Count
    <3>2. MayFollow(q1, f2, c2, s, r, d1, n, e, n, e)
      BY <1>9, <2>2, <2>5, <3>1 DEF MayFollow, Follows
    <3> QED
      BY <1>9, <1>12, <2>1, <2>3, <3>2, GrowsOwn
  <2>7. Sound(q3, s, r, d1, n1, e) /\ (Begun(q2, s, r) => Begun(q3, s, r))
    <3>1. c3 => n1 = n + Count(f3, "DATA", s)
      BY <1>9, <2>2, <2>4 DEF Count
    <3>2. ~c3 => n1 = n
      BY <2>2
    <3>3. MayFollow(q2, f3, c3, s, r, d1, n, e, n1, e)
      BY <1>9, <2>2, <2>5, <2>6, <3>1, <3>2 DEF MayFollow, Follows
    <3>4. c3 => f3 \in Packets
      BY <1>9
    <3>5. /\ q2 \in Seq(Packets) /\ c3 \in BOOLEAN /\ Grows(q2, f3, c3, q3)
          /\ r.got \in Nat
      BY <1>12, <2>1, <2>3
    <3> QED
      BY <3>3, <3>4, <3>5, GrowsOwn
  <2>8. Sound(q4, s, r, d1, n1, e1) /\ (Begun(q3, s, r) => Begun(q4, s, r))
    <3>1. n1 = n1 + Count(f4, "DATA", s)
      BY <1>9, <2>2 DEF Count
    <3>2. MayFollow(q3, f4, c4, s, r, d1, n1, e, n1, e1)
      BY <1>9, <2>2, <2>5, <2>6, <2>7, <3>1 DEF MayFollow, Follows
    <3> QED
      BY <1>9, <1>12, <2>1, <2>3, <3>2, GrowsOwn
  <2>9. Started(q4, s, r, new1, o)
    <3>1. CASE new1
      <4>1. ~c1 /\ ~c2 /\ ~c3 /\ ~c4 /\ new
        BY <2>2, <3>1
      <4>2. q4 = q
        BY <2>3, <4>1 DEF Grows
      <4> QED
        BY <2>1, <3>1, <4>1, <4>2 DEF Started
    <3>2. CASE ~new1
      BY <2>5, <2>6, <2>7, <2>8, <3>2 DEF Started, Begun
    <3> QED
      BY <3>1, <3>2
  <2>10. stream'[s] = r /\ sOpen' = o
    BY <1>5, <1>6 DEF r, o
  <2> QED
    BY <2>8, <2>9, <2>10 DEF Started, HeadersBy, d1, n1, e1, new1, q4
<1>17. WireKept'
  BY <1>6, <1>11, <1>14 DEF WireKept, CreditOK, Packets
<1>18. InStep'
  BY <1>6, <1>15, <1>16 DEF EInv, InStep
<1>19. Arrived'
  <2> SUFFICES ASSUME NEW t \in Streams
               PROVE  /\ stream'[t].got <= sent'[t]
                      /\ stream'[t].told = "finish" =>
                           /\ ended'[t] /\ stream'[t].got = sent'[t]
                           /\ stream'[t].declared = declared'[t]
    BY DEF Arrived
  <2>1. /\ stream[t].got <= sent[t]
        /\ stream[t].told = "finish" =>
             ended[t] /\ stream[t].got = sent[t] /\ stream[t].declared = declared[t]
    BY DEF EInv, Arrived
  <2>2. stream'[t] = stream[t] /\ stream[t].got \in Nat /\ sent[t] \in Nat
        /\ sent'[t] \in Nat
    BY <1>4, <1>6 DEF ReceiverFacts, SenderFacts, R!Stream
  <2>3. CASE t = s
    BY <1>5, <2>1, <2>2, <2>3
  <2>4. CASE t # s
    BY <1>5, <2>1, <2>2, <2>4 DEF SP!SameAt
  <2> QED
    BY <2>3, <2>4
<1>20. CreditReturns'
  BY <1>5, <1>6 DEF EInv, CreditReturns, Underway
<1>21. LoopsKept'
  BY <1>5, <1>6 DEF EInv, LoopsKept, FramesFit
<1> QED
  BY <1>2, <1>7, <1>17, <1>18, <1>19, <1>20, <1>21 DEF EInv
-----------------------------------------------------------------------------
(* Steps that no frame for a stream is written or read in.                 *)

\* A step that touches no frame and no stream keeps the two ends in step ...
LEMMA ApartIsInStep ==
  ASSUME EInv, UNCHANGED <<down, stream, declared, sent, ended, app>>, sOpen' => sOpen,
         rLoop' \in {"preface", "reading"} => rLoop \in {"preface", "reading"}
  PROVE  InStep' /\ Arrived'
<1>1. ASSUME NEW s \in Streams,
             Sound(down, s, stream[s], declared[s], sent[s], ended[s]),
             Started(down, s, stream[s], app[s] = "new", sOpen)
      PROVE  /\ Sound(down, s, stream[s], declared[s], sent[s], ended[s])'
             /\ Started(down, s, stream[s], app[s] = "new", sOpen)'
  <2>1. Sound(down, s, stream[s], declared[s], sent[s], ended[s])'
    BY <1>1 DEF Sound, Expected, HeadersBy, Plain, Underway
  <2>2. Started(down, s, stream[s], app[s] = "new", sOpen)'
    BY <1>1 DEF Started, HeadersBy
  <2> QED
    BY <2>1, <2>2
<1>2. InStep'
  BY <1>1 DEF EInv, InStep
<1>3. Arrived'
  BY DEF EInv, Arrived
<1> QED
  BY <1>2, <1>3

\* ... and, if it is one of theirs, keeps the invariant.
LEMMA ApartStep ==
  ASSUME EInv, [SP!Next]_(SP!vars), [RP!Next]_(RP!vars), LoopsKept',
         UNCHANGED <<down, up, stream, declared, sent, ended, app>>,
         UNCHANGED <<strCredit, connCredit, connGranted>>, sOpen' => sOpen,
         rLoop' \in {"preface", "reading"} => rLoop \in {"preface", "reading"}
  PROVE  EInv'
<1>1. SP!IInv' /\ SP!ConnKept' /\ RP!IInv'
  BY SenderKeeps, ReceiverKeeps DEF EInv
<1>2. WireKept'
  BY DEF EInv, WireKept, FrameOK, CreditOK, Packets, FramesFit
<1>3. CreditReturns'
  BY DEF EInv, CreditReturns, Underway
<1> QED
  BY <1>1, <1>2, <1>3, ApartIsInStep DEF EInv

\* The steps of the sending loop.
LEMMA SenderRunsStep ==
  ASSUME EInv, SenderRuns
  PROVE  EInv'
<1>1. LoopsKept
  BY DEF EInv
<1>2. S!LoopFails /\ UNCHANGED <<rVars, down, up>>
  BY <1>1 DEF SenderRuns, LoopsKept, S!LoopFlushed
<1>3. SP!Next
  BY <1>2 DEF S!LoopFails, S!windows, S!writer, S!caller, S!credit, SP!Next,
              SP!LoopFails, SP!windows, SP!writer, SP!caller, SP!credit
<1>4. /\ sLoop' = "ended" /\ sOpen' = sOpen
      /\ UNCHANGED <<sent, ended, app, declared, strCredit, connCredit>>
      /\ UNCHANGED <<down, up>>
      /\ UNCHANGED <<rOpen, rLoop, isClient, upgraded, known, nextId, maxRemote, last, stream,
                     connGranted, undecoded>>
  BY <1>2 DEF S!LoopFails, S!windows, S!writer, S!caller, S!credit, rVars
<1>5. [RP!Next]_(RP!vars)
  BY <1>4 DEF RP!vars, RP!conn
<1>6. LoopsKept'
  BY <1>1, <1>4 DEF LoopsKept, FramesFit
<1> QED
  BY <1>3, <1>4, <1>5, <1>6, ApartStep

\* An end hangs up.
LEMMA HangUpStep ==
  ASSUME EInv, HangUp
  PROVE  EInv'
<1>1. LoopsKept
  BY DEF EInv
<1>2. CASE S!Close /\ UNCHANGED rVars
  <2>1. SP!Next
    BY <1>2 DEF S!Close, S!windows, S!writer, S!caller, S!credit, SP!Next, SP!Peer,
                SP!Close, SP!windows, SP!writer, SP!caller, SP!credit
  <2>2. /\ sLoop' = sLoop /\ sOpen' = FALSE
        /\ UNCHANGED <<sent, ended, app, declared, strCredit, connCredit>>
        /\ UNCHANGED <<down, up>>
        /\ UNCHANGED <<rOpen, rLoop, isClient, upgraded, known, nextId, maxRemote, last,
                       stream, connGranted, undecoded>>
    BY <1>2 DEF HangUp, S!Close, S!windows, S!writer, S!caller, S!credit, rVars
  <2>3. [RP!Next]_(RP!vars)
    BY <2>2 DEF RP!vars, RP!conn
  <2>4. LoopsKept'
    BY <1>1, <2>2 DEF LoopsKept, FramesFit
  <2> QED
    BY <2>1, <2>2, <2>3, <2>4, ApartStep
<1>3. CASE R!Close /\ UNCHANGED sVars
  <2>1. RP!Next
    BY <1>3 DEF R!Close, R!conn, RP!Next, RP!Close, RP!conn
  <2>2. /\ rLoop' = rLoop /\ rOpen' = FALSE
        /\ UNCHANGED <<stream, connGranted>> /\ UNCHANGED <<down, up>>
        /\ UNCHANGED <<sOpen, sLoop, connWin, strWin, pc, chunk, amount, queue, app,
                       remaining, fin, sent, ended, rst, accepted, declared, connCredit,
                       strCredit>>
    BY <1>3 DEF HangUp, R!Close, R!conn, sVars
  <2>3. [SP!Next]_(SP!vars)
    BY <2>2 DEF SP!vars, SP!windows, SP!writer, SP!caller, SP!credit
  <2>4. LoopsKept'
    BY <1>1, <2>2 DEF LoopsKept, FramesFit
  <2> QED
    BY <2>1, <2>2, <2>3, <2>4, ApartStep
<1> QED
  BY <1>2, <1>3 DEF HangUp

\* A client opens a stream.
LEMMA OpenStep ==
  ASSUME EInv, Open
  PROVE  EInv'
<1>1. LoopsKept
  BY DEF EInv
<1>2. RP!Next
  BY DEF Open, R!CreateStream, RP!Next, RP!CreateStream
<1>3. /\ UNCHANGED <<rLoop, rOpen, stream, connGranted>> /\ UNCHANGED <<down, up>>
      /\ UNCHANGED <<sOpen, sLoop, connWin, strWin, pc, chunk, amount, queue, app,
                     remaining, fin, sent, ended, rst, accepted, declared, connCredit,
                     strCredit>>
  BY DEF Open, R!CreateStream, sVars
<1>4. [SP!Next]_(SP!vars)
  BY <1>3 DEF SP!vars, SP!windows, SP!writer, SP!caller, SP!credit
<1>5. LoopsKept'
  BY <1>1, <1>3 DEF LoopsKept, FramesFit
<1> QED
  BY <1>2, <1>3, <1>4, <1>5, ApartStep

\* The steps of the receiving loop that read no frame.
LEMMA ReceiverRunsStep ==
  ASSUME EInv, ReceiverRuns
  PROVE  EInv'
<1>1. LoopsKept
  BY DEF EInv
<1>2. R!LoopFlushed \/ R!LoopFails \/ (R!Preface /\ rLoop' = "reading")
  BY DEF ReceiverRuns
<1>3. RP!Next
  BY <1>2 DEF R!LoopFlushed, R!LoopFails, R!Preface, R!conn, RP!Next, RP!LoopFlushed,
              RP!LoopFails, RP!Preface, RP!conn
<1>4. /\ UNCHANGED <<stream, connGranted>> /\ UNCHANGED <<down, up>>
      /\ UNCHANGED <<sOpen, sLoop, connWin, strWin, pc, chunk, amount, queue, app,
                     remaining, fin, sent, ended, rst, accepted, declared, connCredit,
                     strCredit>>
  BY DEF ReceiverRuns, R!LoopFlushed, R!LoopFails, R!Preface, sVars
<1>5. [SP!Next]_(SP!vars)
  BY <1>4 DEF SP!vars, SP!windows, SP!writer, SP!caller, SP!credit
<1>6. \/ rLoop' = "ended" /\ ~rOpen'
      \/ rLoop = "preface" /\ rLoop' = "reading"
  BY <1>1, <1>2 DEF LoopsKept, R!LoopFlushed, R!LoopFails, R!Preface
<1>7. LoopsKept'
  BY <1>1, <1>4, <1>6 DEF LoopsKept, FramesFit
<1> QED
  BY <1>3, <1>4, <1>5, <1>6, <1>7, ApartStep

\* The sending end reads a frame: its windows take the credit, which the receiving end has
\* returned and which is no more than they had.
LEMMA HandleUpStep ==
  ASSUME EInv, HandleUp
  PROVE  EInv'
<1> DEFINE f == Head(up)
           x == up'
<1>1. /\ up # <<>> /\ sLoop = "reading" /\ x = Tail(up) /\ UNCHANGED <<rVars, down>>
      /\ up \in Seq(Packets) /\ \A i \in 1 .. Len(up) : CreditOK(up[i])
      /\ LoopsKept
  BY DEF HandleUp, EInv, WireKept
<1>2. Shorter(up, f, x)
  BY <1>1, TailIsShorter
<1> HIDE DEF f, x
<1>3. /\ f \in Packets /\ x \in Seq(Packets) /\ Len(x) \in Nat
      /\ f = up[1] /\ Len(up) = Len(x) + 1
      /\ \A i \in 1 .. Len(x) : x[i] = up[i + 1]
      /\ \A s \in Streams \cup {0} :
           /\ Underway(up, "WINDOW_UPDATE", s)
                = Count(f, "WINDOW_UPDATE", s) + Underway(x, "WINDOW_UPDATE", s)
           /\ Underway(x, "WINDOW_UPDATE", s) \in Nat
  <2>1. x \in Seq(Packets) /\ f \in Packets
    BY <1>2 DEF Shorter
  <2>2. \A s \in Streams \cup {0} : Underway(x, "WINDOW_UPDATE", s) \in Nat
    BY <2>1, CountsType DEF Numbered
  <2> QED
    BY <1>2, <2>1, <2>2 DEF Shorter, Numbered
<1>4. CreditOK(f)
  <2>1. 1 \in 1 .. Len(up)
    BY <1>3
  <2> QED
    BY <1>1, <1>3, <2>1
<1>5. WireKept'
  <2>1. \A i \in 1 .. Len(x) : CreditOK(x[i])
    <3>1. \A i \in 1 .. Len(x) : i + 1 \in 1 .. Len(up)
      BY <1>3
    <3> QED
      BY <1>1, <1>3, <3>1
  <2> QED
    BY <1>1, <1>3, <2>1 DEF EInv, WireKept, FrameOK, CreditOK, Packets, FramesFit, x
<1>6. UNCHANGED <<rOpen, rLoop, isClient, upgraded, known, nextId, maxRemote, last, stream,
                  connGranted, undecoded, down>>
  BY <1>1 DEF rVars
<1>7. [RP!Next]_(RP!vars)
  BY <1>6 DEF RP!vars, RP!conn
<1>8. SenderFacts /\ CreditFits
  BY SenderIsSound, CreditIsBounded DEF EInv
<1>9. ASSUME SP!Next, sLoop' \in {"reading", "ended"}, sOpen' => sOpen,
             UNCHANGED <<declared, sent, ended, app>>, CreditReturns'
      PROVE  EInv'
  <2>1. SP!IInv' /\ SP!ConnKept' /\ RP!IInv'
    BY <1>7, <1>9, SenderKeeps, ReceiverKeeps DEF EInv
  <2>2. LoopsKept'
    BY <1>1, <1>6, <1>9 DEF LoopsKept, FramesFit
  <2>3. InStep' /\ Arrived'
    BY <1>6, <1>9, ApartIsInStep
  <2> QED
    BY <1>5, <1>9, <2>1, <2>2, <2>3 DEF EInv
<1>10. CASE f.type = "WINDOW_UPDATE" /\ f.s = 0 /\ S!ConnWindowUpdate(f.n)
  <2> DEFINE n == f.n
  <2>1. n \in Nat /\ n > 0
    BY <1>3, <1>4, <1>10 DEF Packets, CreditOK
  <2>2. S!ConnWindowUpdate(n)
    BY <1>10
  <2>3. Count(f, "WINDOW_UPDATE", 0) = n /\ \A s \in Streams : Count(f, "WINDOW_UPDATE", s) = 0
    BY <1>10, ConstantsAssumption DEF Count
  <2> HIDE DEF n
  <2>4. connWin + n <= MaxWindow /\ n \in 0 .. MaxWindow
    <3>1. /\ connCredit + Underway(up, "WINDOW_UPDATE", 0) <= ConnInit + SumFunction(sent)
          /\ Underway(up, "WINDOW_UPDATE", 0) = n + Underway(x, "WINDOW_UPDATE", 0)
          /\ Underway(x, "WINDOW_UPDATE", 0) \in Nat
      BY <1>3, <1>8, <2>3 DEF CreditFits
    <3>2. /\ connWin + SumFunction(sent) <= connCredit
          /\ connWin \in Nat /\ SumFunction(sent) \in Nat /\ connCredit \in Nat
      BY <1>8 DEF SenderFacts
    <3>3. ConnInit \in 0 .. MaxWindow /\ MaxWindow \in Nat
      BY ConstantsAssumption
    <3> QED
      BY <2>1, <3>1, <3>2, <3>3
  <2>5. SP!Next
    <3>1. SP!ConnWindowUpdate(n)
      BY <2>2 DEF S!ConnWindowUpdate, S!WakeConnWaiters, S!caller, SP!ConnWindowUpdate,
                  SP!WakeConnWaiters, SP!caller
    <3> QED
      BY <2>4, <3>1 DEF SP!Next, SP!Peer, SP!Increments
  <2>6. /\ sLoop' = sLoop /\ sOpen' = sOpen /\ connCredit' = connCredit + n
        /\ UNCHANGED <<declared, sent, ended, app, strCredit>>
    <3>1. ~(n = 0 \/ connWin + n > MaxWindow)
      <4>1. connWin \in Nat /\ MaxWindow \in Nat
        BY <1>8, ConstantsAssumption DEF SenderFacts
      <4> QED
        BY <2>1, <2>4, <4>1
    <3> QED
      BY <2>2, <3>1 DEF S!ConnWindowUpdate, S!caller
  <2>7. CreditReturns'
    <3>1. \A s \in Streams :
            Underway(x, "WINDOW_UPDATE", s) = Underway(up, "WINDOW_UPDATE", s)
      BY <1>3, <2>3
    <3>2. connCredit + n + Underway(x, "WINDOW_UPDATE", 0) = ConnInit + connGranted
      <4>1. connCredit + Underway(up, "WINDOW_UPDATE", 0) = ConnInit + connGranted
        BY DEF EInv, CreditReturns
      <4>2. connCredit \in Nat /\ Underway(x, "WINDOW_UPDATE", 0) \in Nat
            /\ Underway(up, "WINDOW_UPDATE", 0) = n + Underway(x, "WINDOW_UPDATE", 0)
        BY <1>3, <1>8, <2>3 DEF SenderFacts
      <4> QED
        BY <2>1, <4>1, <4>2
    <3>3. \A s \in Streams :
            strCredit[s] + Underway(x, "WINDOW_UPDATE", s) - stream[s].granted \in StreamInits
      BY <3>1 DEF EInv, CreditReturns
    <3>4. \A s : Underway(up, "WINDOW_UPDATE", s)' = Underway(x, "WINDOW_UPDATE", s)
      BY DEF x, Underway
    <3> QED
      BY <1>6, <2>6, <3>2, <3>3, <3>4 DEF CreditReturns
  <2> QED
    BY <1>1, <1>9, <2>5, <2>6, <2>7
<1>11. CASE f.type = "WINDOW_UPDATE" /\ f.s # 0 /\ S!StreamWindowUpdate(f.s, f.n)
  <2> DEFINE n == f.n
             s == f.s
  <2>1. n \in Nat /\ n > 0 /\ s \in Streams
    BY <1>3, <1>4, <1>11 DEF Packets, CreditOK
  <2>2. S!StreamWindowUpdate(s, n)
    BY <1>11
  <2>3. /\ Count(f, "WINDOW_UPDATE", s) = n
        /\ \A t \in (Streams \cup {0}) \ {s} : Count(f, "WINDOW_UPDATE", t) = 0
        /\ 0 # s
    BY <1>11 DEF Count
  <2> HIDE DEF n, s
  <2>4. strWin[s] + n <= MaxWindow /\ n \in 0 .. MaxWindow
    <3>1. PICK init \in StreamInits :
            strCredit[s] + Underway(up, "WINDOW_UPDATE", s) <= init + sent[s]
      BY <1>8, <2>1 DEF CreditFits
    <3>2. /\ Underway(up, "WINDOW_UPDATE", s) = n + Underway(x, "WINDOW_UPDATE", s)
          /\ Underway(x, "WINDOW_UPDATE", s) \in Nat
      BY <1>3, <2>1, <2>3
    <3>3. /\ strWin[s] + sent[s] + S!TakenFromStream(s) <= strCredit[s]
          /\ strWin[s] \in Nat /\ sent[s] \in Nat /\ strCredit[s] \in Nat
          /\ S!TakenFromStream(s) \in Nat
      BY <1>8, <2>1 DEF SenderFacts
    <3>4. init \in 0 .. MaxWindow /\ MaxWindow \in Nat
      BY ConstantsAssumption
    <3> QED
      BY <2>1, <3>1, <3>2, <3>3, <3>4
  <2>5. SP!Next
    <3>1. SP!StreamWindowUpdate(s, n)
      BY <2>2 DEF S!StreamWindowUpdate, S!WakeStreamWaiter, S!WriteReset, S!caller,
                  SP!StreamWindowUpdate, SP!WakeStreamWaiter, SP!WriteReset, SP!caller
    <3> QED
      BY <2>1, <2>4, <3>1 DEF SP!Next, SP!Peer, SP!Increments
  <2>6. /\ sLoop' = sLoop /\ sOpen' = sOpen
        /\ strCredit' = [strCredit EXCEPT ![s] = @ + n]
        /\ UNCHANGED <<declared, sent, ended, app, connCredit>>
    <3>1. ~(n = 0 \/ strWin[s] + n > MaxWindow)
      <4>1. strWin[s] \in Nat /\ MaxWindow \in Nat
        BY <1>8, <2>1, ConstantsAssumption DEF SenderFacts
      <4> QED
        BY <2>1, <2>4, <4>1
    <3> QED
      BY <2>2, <3>1 DEF S!StreamWindowUpdate, S!caller
  <2>7. CreditReturns'
    <3>1. \A t \in (Streams \cup {0}) \ {s} :
            Underway(x, "WINDOW_UPDATE", t) = Underway(up, "WINDOW_UPDATE", t)
      BY <1>3, <2>3
    <3>2. strCredit'[s] + Underway(x, "WINDOW_UPDATE", s) - stream[s].granted \in StreamInits
      <4>1. /\ strCredit[s] + Underway(up, "WINDOW_UPDATE", s) - stream[s].granted
                 \in StreamInits
        BY <2>1 DEF EInv, CreditReturns
      <4>2. strCredit[s] \in Nat /\ Underway(x, "WINDOW_UPDATE", s) \in Nat
            /\ Underway(up, "WINDOW_UPDATE", s) = n + Underway(x, "WINDOW_UPDATE", s)
        BY <1>3, <1>8, <2>1, <2>3 DEF SenderFacts
      <4>3. strCredit'[s] = strCredit[s] + n
        <5>1. strCredit \in [Streams -> Nat]
          BY DEF EInv, SP!IInv, SP!TypeOK
        <5> QED
          BY <2>1, <2>6, <5>1
      <4>4. stream[s].granted \in Nat
        BY <2>1, ReceiverIsSound DEF EInv, ReceiverFacts, R!Stream
      <4>5. strCredit[s] + Underway(up, "WINDOW_UPDATE", s) - stream[s].granted
              = strCredit'[s] + Underway(x, "WINDOW_UPDATE", s) - stream[s].granted
        BY <2>1, <4>2, <4>3, <4>4
      <4> QED
        BY <4>1, <4>5
    <3>3. \A t \in Streams \ {s} :
            strCredit'[t] + Underway(x, "WINDOW_UPDATE", t) - stream[t].granted \in StreamInits
      <4>1. \A t \in Streams \ {s} : strCredit'[t] = strCredit[t]
        BY <2>6
      <4> QED
        BY <3>1, <4>1 DEF EInv, CreditReturns
    <3>4. \A t : Underway(up, "WINDOW_UPDATE", t)' = Underway(x, "WINDOW_UPDATE", t)
      BY DEF x, Underway
    <3>5. connCredit' + Underway(x, "WINDOW_UPDATE", 0) = ConnInit + connGranted
      BY <2>3, <2>6, <3>1 DEF EInv, CreditReturns
    <3> QED
      BY <1>6, <3>2, <3>3, <3>4, <3>5 DEF CreditReturns
  <2> QED
    BY <1>1, <1>9, <2>5, <2>6, <2>7
<1>12. CASE f.type = "GOAWAY" /\ S!LoopStops
  <2>1. SP!Next
    BY <1>12 DEF S!LoopStops, S!windows, S!writer, S!caller, S!credit, SP!Next, SP!Peer,
                 SP!LoopStops, SP!windows, SP!writer, SP!caller, SP!credit
  <2>2. /\ sLoop' = "ended" /\ sOpen' = FALSE
        /\ UNCHANGED <<declared, sent, ended, app, connCredit, strCredit>>
    BY <1>12 DEF S!LoopStops, S!windows, S!writer, S!caller, S!credit
  <2>3. CreditReturns'
    <3>1. \A t \in Streams \cup {0} :
            Underway(x, "WINDOW_UPDATE", t) = Underway(up, "WINDOW_UPDATE", t)
      BY <1>3, <1>12 DEF Count
    <3>2. \A t : Underway(up, "WINDOW_UPDATE", t)' = Underway(x, "WINDOW_UPDATE", t)
      BY DEF x, Underway
    <3> QED
      BY <1>6, <2>2, <3>1, <3>2 DEF EInv, CreditReturns
  <2> QED
    BY <1>9, <2>1, <2>2, <2>3
<1> QED
  BY <1>4, <1>10, <1>11, <1>12 DEF HandleUp, f, CreditOK
-----------------------------------------------------------------------------
(* Steps of the receiving end.                                             *)

\* What is known of the receiving end after a step.
LEMMA ReceiverIsSoundNext == RP!IInv' => ReceiverFacts'
BY ReceiverIsSound, PTL

\* The frames that Answer(s) puts together.
ConnCreditOf == [type |-> "WINDOW_UPDATE", s |-> 0, n |-> connGranted' - connGranted]
StrCreditOf(s) ==
  [type |-> "WINDOW_UPDATE", s |-> s, n |-> stream'[s].granted - stream[s].granted]
GoawayOf == [type |-> "GOAWAY", s |-> 0, n |-> 0]

\* They are put together in this order.
LEMMA AnswerIs ==
  ASSUME rLoop' # "rst"
  PROVE  \A s : Answer(s) =
           (Maybe(ConnCreditOf, connGranted' - connGranted > 0)
             \o Maybe(StrCreditOf(s), stream'[s].granted - stream[s].granted > 0))
           \o Maybe(GoawayOf, rLoop # "goaway" /\ rLoop' = "goaway")
<1> SUFFICES ASSUME NEW s
             PROVE  Answer(s) =
                      (Maybe(ConnCreditOf, connGranted' - connGranted > 0)
                        \o Maybe(StrCreditOf(s), stream'[s].granted - stream[s].granted > 0))
                      \o Maybe(GoawayOf, rLoop # "goaway" /\ rLoop' = "goaway")
  OBVIOUS
<1> DEFINE a == Maybe(ConnCreditOf, connGranted' - connGranted > 0)
           b == Maybe(StrCreditOf(s), stream'[s].granted - stream[s].granted > 0)
           g == Maybe(GoawayOf, rLoop # "goaway" /\ rLoop' = "goaway")
<1>1. Answer(s) = ((a \o b) \o <<>>) \o g
  BY DEF Answer, Maybe, ConnCreditOf, StrCreditOf, GoawayOf
<1> DEFINE E == {ConnCreditOf, StrCreditOf(s)}
<1>2. a \in Seq(E) /\ b \in Seq(E)
  <2>1. <<ConnCreditOf>> \in Seq(E) /\ <<StrCreditOf(s)>> \in Seq(E) /\ <<>> \in Seq(E)
    BY EmptySeq
  <2> HIDE DEF E
  <2> QED
    BY <2>1 DEF Maybe
<1> HIDE DEF a, b, g, E
<1>3. a \o b \in Seq(E)
  BY <1>2, ConcatProperties
<1> DEFINE ab == a \o b
<1> HIDE DEF ab
<1>4. ab \o <<>> = ab
  BY <1>3, ConcatEmptySeq DEF ab
<1> QED
  BY <1>1, <1>4 DEF a, b, g, ab

\* Frames of the receiving end are put behind frames of the receiving end.
LEMMA GrowsCredit ==
  ASSUME NEW q \in Seq(Packets), \A i \in 1 .. Len(q) : CreditOK(q[i]),
         NEW f, NEW when \in BOOLEAN, NEW x, Grows(q, f, when, x), when => CreditOK(f)
  PROVE  x \in Seq(Packets) /\ \A i \in 1 .. Len(x) : CreditOK(x[i])
<1>1. CASE ~when
  BY <1>1 DEF Grows
<1>2. CASE when
  <2>1. /\ x \in Seq(Packets) /\ Len(x) = Len(q) + 1 /\ Len(q) \in Nat
        /\ \A i \in 1 .. Len(q) : x[i] = q[i]
        /\ x[Len(q) + 1] = f
    BY <1>2 DEF Grows, Longer
  <2>2. \A i \in 1 .. Len(x) : i \in 1 .. Len(q) \/ i = Len(q) + 1
    BY <2>1
  <2> QED
    BY <1>2, <2>1, <2>2
<1> QED
  BY <1>1, <1>2

\* What is given back in a step of stream s is what its answer carries.
GivesBack(s) ==
  /\ connGranted \in Nat /\ connGranted' \in Nat /\ connGranted <= connGranted'
  /\ \A t \in Streams : stream[t].granted \in Nat /\ stream'[t].granted \in Nat
  /\ stream[s].granted <= stream'[s].granted
  /\ \A t \in Streams \ {s} : stream'[t].granted = stream[t].granted

\* Such a step writes its answer, and the windows of the sending end do not change yet.
Answers(s) ==
  /\ GivesBack(s)
  /\ up' = up \o Answer(s)
  /\ rLoop' # "rst"
  /\ strCredit' = strCredit /\ connCredit' = connCredit

\* What it gives back is on its way.
LEMMA AnswerReturns ==
  ASSUME EInv, NEW s \in Streams, Answers(s)
  PROVE  /\ up' \in Seq(Packets) /\ \A i \in 1 .. Len(up') : CreditOK(up'[i])
         /\ CreditReturns'
<1> DEFINE f1 == ConnCreditOf
           f2 == StrCreditOf(s)
           f3 == GoawayOf
           n1 == connGranted' - connGranted
           n2 == stream'[s].granted - stream[s].granted
           c1 == n1 > 0
           c2 == n2 > 0
           c3 == rLoop # "goaway" /\ rLoop' = "goaway"
<1>1. n1 \in Nat /\ n2 \in Nat
  <2>1. /\ connGranted \in Nat /\ connGranted' \in Nat /\ connGranted <= connGranted'
        /\ stream[s].granted \in Nat /\ stream'[s].granted \in Nat
        /\ stream[s].granted <= stream'[s].granted
    BY DEF Answers, GivesBack
  <2>2. \A a, b \in Nat : a <= b => b - a \in Nat
    OBVIOUS
  <2> QED
    BY <2>1, <2>2, Zenon
<1>2. /\ f1.type = "WINDOW_UPDATE" /\ f1.s = 0 /\ f1.n = n1
      /\ f2.type = "WINDOW_UPDATE" /\ f2.s = s /\ f2.n = n2
      /\ f3.type = "GOAWAY"
      /\ f1 \in Packets /\ f2 \in Packets /\ f3 \in Packets
      /\ c1 => CreditOK(f1)
      /\ c2 => CreditOK(f2)
      /\ CreditOK(f3)
  BY <1>1 DEF ConnCreditOf, StrCreditOf, GoawayOf, Packets, CreditOK
<1>3. up \in Seq(Packets) /\ \A i \in 1 .. Len(up) : CreditOK(up[i])
  BY DEF EInv, WireKept
<1>4. c1 \in BOOLEAN /\ c2 \in BOOLEAN /\ c3 \in BOOLEAN
  OBVIOUS
<1> DEFINE m1 == Maybe(f1, c1)
           m2 == Maybe(f2, c2)
           m3 == Maybe(f3, c3)
           q1 == up \o m1
           q2 == q1 \o m2
<1>5. up' = up \o ((m1 \o m2) \o m3)
  BY AnswerIs DEF Answers
<1> HIDE DEF f1, f2, f3, c1, c2, c3
<1>6. q1 \in Seq(Packets) /\ Grows(up, f1, c1, q1) /\ m1 \in Seq(Packets)
  BY <1>2, <1>3, <1>4, MaybeIsWritten
<1>7. q2 \in Seq(Packets) /\ Grows(q1, f2, c2, q2) /\ m2 \in Seq(Packets)
  <2> HIDE DEF q1
  <2> QED
    BY <1>2, <1>4, <1>6, MaybeIsWritten
<1>8. Grows(q2, f3, c3, q2 \o m3) /\ m3 \in Seq(Packets)
  <2> HIDE DEF q2
  <2> QED
    BY <1>2, <1>4, <1>7, MaybeIsWritten
<1>9. up' = q2 \o m3
  <2> HIDE DEF m1, m2, m3
  <2>1. AllOrEachOfThree(up, m1, m2, m3)
    BY <1>3, <1>6, <1>7, <1>8, RegroupThree
  <2> QED
    BY <1>5, <2>1 DEF AllOrEachOfThree
<1> DEFINE x == up'
<1>10. Grows(q2, f3, c3, x)
  BY <1>8, <1>9
<1> HIDE DEF q1, q2, m1, m2, m3, x
<1>11. /\ q1 \in Seq(Packets) /\ \A i \in 1 .. Len(q1) : CreditOK(q1[i])
  <2>1. c1 => CreditOK(f1)
    BY <1>2
  <2> QED
    BY <1>3, <1>4, <1>6, <2>1, GrowsCredit
<1>12. /\ q2 \in Seq(Packets) /\ \A i \in 1 .. Len(q2) : CreditOK(q2[i])
  <2>1. c2 => CreditOK(f2)
    BY <1>2
  <2>2. c2 \in BOOLEAN /\ Grows(q1, f2, c2, q2)
    BY <1>4, <1>7
  <2> QED
    BY <1>11, <2>1, <2>2, GrowsCredit
<1>13. /\ x \in Seq(Packets) /\ \A i \in 1 .. Len(x) : CreditOK(x[i])
  BY <1>2, <1>4, <1>10, <1>12, GrowsCredit
<1>14. ASSUME NEW q \in Seq(Packets), NEW f \in Packets, NEW c \in BOOLEAN, NEW y,
              Grows(q, f, c, y), NEW t \in Streams \cup {0}
       PROVE  Underway(y, "WINDOW_UPDATE", t) = Underway(q, "WINDOW_UPDATE", t)
                + (IF c THEN Count(f, "WINDOW_UPDATE", t) ELSE 0)
  <2>1. Underway(q, "WINDOW_UPDATE", t) \in Nat
    BY CountsType DEF Numbered
  <2> QED
    BY <1>14, <2>1 DEF Grows, Longer, Numbered
<1>15. ASSUME NEW t \in Streams \cup {0}
       PROVE  Underway(x, "WINDOW_UPDATE", t) = Underway(up, "WINDOW_UPDATE", t)
                + (IF t = 0 THEN n1 ELSE 0) + (IF t = s THEN n2 ELSE 0)
  <2> DEFINE u0 == Underway(up, "WINDOW_UPDATE", t)
             u1 == Underway(q1, "WINDOW_UPDATE", t)
             u2 == Underway(q2, "WINDOW_UPDATE", t)
             u3 == Underway(x, "WINDOW_UPDATE", t)
  <2>1. u0 \in Nat
    BY <1>3, CountsType DEF Numbered
  <2>2. u1 = u0 + (IF c1 THEN Count(f1, "WINDOW_UPDATE", t) ELSE 0)
    BY <1>2, <1>3, <1>4, <1>6, <1>14
  <2>3. u2 = u1 + (IF c2 THEN Count(f2, "WINDOW_UPDATE", t) ELSE 0)
    BY <1>2, <1>4, <1>7, <1>11, <1>14
  <2>4. u3 = u2 + (IF c3 THEN Count(f3, "WINDOW_UPDATE", t) ELSE 0)
    BY <1>2, <1>4, <1>10, <1>12, <1>14
  <2>5. (IF c1 THEN Count(f1, "WINDOW_UPDATE", t) ELSE 0) = IF t = 0 THEN n1 ELSE 0
    BY <1>1, <1>2 DEF Count, c1
  <2>6. (IF c2 THEN Count(f2, "WINDOW_UPDATE", t) ELSE 0) = IF t = s THEN n2 ELSE 0
    BY <1>1, <1>2 DEF Count, c2
  <2>7. (IF c3 THEN Count(f3, "WINDOW_UPDATE", t) ELSE 0) = 0
    BY <1>2 DEF Count
  <2>8. u3 = u0 + (IF t = 0 THEN n1 ELSE 0) + (IF t = s THEN n2 ELSE 0)
    <3> DEFINE k1 == IF t = 0 THEN n1 ELSE 0
               k2 == IF t = s THEN n2 ELSE 0
    <3>1. k1 \in Nat /\ k2 \in Nat
      BY <1>1
    <3>2. u1 = u0 + k1
      BY <2>2, <2>5
    <3>3. u2 = u1 + k2
      BY <2>3, <2>6
    <3>4. u3 = u2 + 0
      BY <2>4, <2>7
    <3> HIDE DEF u0, u1, u2, u3, k1, k2
    <3>5. u3 = u0 + k1 + k2
      BY <2>1, <3>1, <3>2, <3>3, <3>4
    <3> QED
      BY <3>5 DEF k1, k2
  <2> QED
    BY <2>8
<1>16. 0 \notin Streams
  BY ConstantsAssumption
<1>17. connCredit + Underway(x, "WINDOW_UPDATE", 0) = ConnInit + connGranted'
  <2>1. Underway(x, "WINDOW_UPDATE", 0) = Underway(up, "WINDOW_UPDATE", 0) + n1
    <3>1. Underway(up, "WINDOW_UPDATE", 0) \in Nat
      BY <1>3, CountsType DEF Numbered
    <3> QED
      BY <1>1, <1>15, <1>16, <3>1
  <2>2. /\ connCredit + Underway(up, "WINDOW_UPDATE", 0) = ConnInit + connGranted
        /\ connCredit \in Nat /\ Underway(up, "WINDOW_UPDATE", 0) \in Nat
        /\ ConnInit \in Nat
    BY <1>3, SenderIsSound, CountsType, ConstantsAssumption
    DEF EInv, CreditReturns, SenderFacts, Numbered
  <2>3. connGranted \in Nat /\ connGranted' \in Nat
    BY DEF Answers, GivesBack
  <2> QED
    BY <2>1, <2>2, <2>3
<1>18. ASSUME NEW t \in Streams
       PROVE  strCredit[t] + Underway(x, "WINDOW_UPDATE", t) - stream'[t].granted
                \in StreamInits
  <2>1. /\ strCredit[t] + Underway(up, "WINDOW_UPDATE", t) - stream[t].granted
             \in StreamInits
        /\ strCredit[t] \in Nat
    BY SenderIsSound DEF EInv, CreditReturns, SenderFacts
  <2>2. Underway(up, "WINDOW_UPDATE", t) \in Nat
    BY <1>3, CountsType DEF Numbered
  <2>3. Underway(x, "WINDOW_UPDATE", t)
          = Underway(up, "WINDOW_UPDATE", t) + (IF t = s THEN n2 ELSE 0)
    BY <1>1, <1>15, <1>16, <2>2
  <2> DEFINE k == IF t = s THEN n2 ELSE 0
             a == stream[t].granted
             b == stream'[t].granted
             c == strCredit[t]
             u == Underway(up, "WINDOW_UPDATE", t)
             v == Underway(x, "WINDOW_UPDATE", t)
  <2>4. a \in Nat /\ b \in Nat /\ b - a = k
    <3>1. a \in Nat /\ b \in Nat /\ (t # s => b = a)
      BY DEF Answers, GivesBack
    <3> QED
      BY <3>1
  <2>5. c + v - b = c + u - a
    <3>1. v = u + k /\ u \in Nat /\ c \in Nat /\ k \in Nat
      BY <1>1, <2>1, <2>2, <2>3
    <3> HIDE DEF a, b, c, k, u, v
    <3> QED
      BY <2>4, <3>1
  <2> QED
    BY <2>1, <2>5
<1>19. CreditReturns'
  <2>1. \A t : Underway(up, "WINDOW_UPDATE", t)' = Underway(x, "WINDOW_UPDATE", t)
    BY DEF x, Underway
  <2> QED
    BY <1>17, <1>18, <2>1 DEF Answers, CreditReturns
<1> QED
  BY <1>13, <1>19 DEF x

\* A delegate is done with some data.
LEMMA ConsumedStep ==
  ASSUME EInv, NEW s \in Streams, Consumed(s)
  PROVE  EInv'
<1>1. PICK i \in DOMAIN stream[s].pending : R!DataConsumed(s, i)
  BY DEF Consumed
<1> DEFINE r == stream[s]
           n == r.pending[i]
           rest == [r EXCEPT !.pending = R!RemoveAt(@, i)]
           p == IF rOpen THEN R!ReturnCredit(rest, n) ELSE rest
<1>2. /\ RP!Next
      /\ stream' = [stream EXCEPT ![s] = p]
      /\ connGranted' = IF rOpen THEN connGranted + n ELSE connGranted
      /\ UNCHANGED <<rOpen, rLoop>>
  <2>1. RP!DataConsumed(s, i)
    BY <1>1 DEF R!DataConsumed, R!Continue, R!ReturnCredit, R!RemoveAt, R!conn,
                RP!DataConsumed, RP!Continue, RP!ReturnCredit, RP!RemoveAt, RP!conn
  <2>2. RP!Next
    BY <2>1 DEF RP!Next
  <2>3. /\ stream' = [stream EXCEPT ![s] = p]
        /\ connGranted' = IF rOpen THEN connGranted + n ELSE connGranted
        /\ UNCHANGED <<rOpen, rLoop>>
    BY <1>1 DEF R!DataConsumed, R!Continue
  <2> QED
    BY <2>2, <2>3
<1>3. RP!IInv' /\ ReceiverFacts /\ ReceiverFacts'
  BY <1>2, ReceiverKeeps, ReceiverIsSound, ReceiverIsSoundNext DEF EInv
<1>4. /\ r \in R!Stream /\ n \in Nat
  <2>1. r \in R!Stream
    BY <1>3 DEF ReceiverFacts
  <2>2. r.pending \in Seq(Nat \ {0})
    BY <2>1 DEF R!Stream
  <2> QED
    BY <1>1, <2>1, <2>2
<1>5. /\ p.told = r.told /\ p.declared = r.declared /\ p.got = r.got
      /\ p.phase = r.phase /\ p.block = r.block /\ p.started = r.started
      /\ p.finished = r.finished /\ p.remaining = r.remaining
      /\ p.granted = IF rOpen THEN r.granted + n ELSE r.granted
  <2> DEFINE left == R!RemoveAt(r.pending, i)
             back == r.granted + n
  <2>1. /\ rest = [r EXCEPT !.pending = left]
        /\ R!ReturnCredit(rest, n) = [r EXCEPT !.pending = left, !.granted = back]
    BY <1>4 DEF R!Stream, R!ReturnCredit
  <2> HIDE DEF left, back, rest, r
  <2>2. /\ p.told = r.told /\ p.declared = r.declared /\ p.got = r.got
        /\ p.phase = r.phase /\ p.block = r.block /\ p.started = r.started
        /\ p.finished = r.finished /\ p.remaining = r.remaining
        /\ p.granted = IF rOpen THEN back ELSE r.granted
    BY <1>4, <2>1 DEF R!Stream
  <2> QED
    BY <2>2 DEF back
<1>6. r # R!NewStream
  <2>1. r.pending # <<>>
    BY <1>1
  <2> QED
    BY <2>1 DEF R!NewStream
<1>7. stream'[s] = p /\ \A t \in Streams \ {s} : stream'[t] = stream[t]
  BY <1>2, <1>3 DEF ReceiverFacts
<1>8. /\ UNCHANGED <<sOpen, sLoop, connWin, strWin, pc, chunk, amount, queue, app,
                     remaining, fin, sent, ended, rst, accepted, declared, connCredit,
                     strCredit>>
      /\ down' = down /\ up' = up \o Answer(s)
  BY DEF Consumed, sVars
<1>9. SP!IInv' /\ SP!ConnKept'
  <2>1. [SP!Next]_(SP!vars)
    BY <1>8 DEF SP!vars, SP!windows, SP!writer, SP!caller, SP!credit
  <2> QED
    BY <2>1, SenderKeeps DEF EInv
<1> HIDE DEF p, r, n
<1>10. LoopsKept /\ LoopsKept'
  BY <1>2, <1>8 DEF EInv, LoopsKept, FramesFit
<1>11. GivesBack(s)
  <2>1. /\ connGranted \in Nat /\ connGranted' \in Nat
        /\ \A t \in Streams : stream[t] \in R!Stream /\ stream'[t] \in R!Stream
    BY <1>3 DEF ReceiverFacts
  <2>2. \A t \in Streams : stream[t].granted \in Nat /\ stream'[t].granted \in Nat
    BY <2>1 DEF R!Stream
  <2>3. connGranted <= connGranted'
    BY <1>2, <1>4, <2>1
  <2>4. r.granted <= p.granted
    <3>1. r.granted \in Nat
      BY <2>2 DEF r
    <3> QED
      BY <1>4, <1>5, <3>1
  <2> QED
    BY <1>7, <2>1, <2>2, <2>3, <2>4 DEF GivesBack, r
<1>12. /\ up' \in Seq(Packets) /\ \A i1 \in 1 .. Len(up') : CreditOK(up'[i1])
       /\ CreditReturns'
  BY <1>2, <1>8, <1>10, <1>11, AnswerReturns DEF Answers, LoopsKept
<1>13. WireKept'
  BY <1>8, <1>12 DEF EInv, WireKept, FrameOK, CreditOK, Packets, FramesFit
<1>14. ASSUME NEW t \in Streams
       PROVE  /\ stream'[t].told = stream[t].told
              /\ stream'[t].declared = stream[t].declared
              /\ stream'[t].got = stream[t].got
              /\ Plain(stream[t]) => Plain(stream'[t])
  <2>1. CASE t = s
    BY <1>5, <1>6, <1>7, <2>1 DEF Plain, r
  <2>2. CASE t # s
    BY <1>7, <2>2
  <2> QED
    BY <2>1, <2>2
<1>15. InStep'
  <2>1. ASSUME NEW t \in Streams,
               Sound(down, t, stream[t], declared[t], sent[t], ended[t]),
               Started(down, t, stream[t], app[t] = "new", sOpen)
        PROVE  /\ Sound(down, t, stream[t], declared[t], sent[t], ended[t])'
               /\ Started(down, t, stream[t], app[t] = "new", sOpen)'
    <3> DEFINE x == stream[t]
               y == stream'[t]
    <3>1. y.told = x.told /\ y.declared = x.declared /\ y.got = x.got
          /\ (Plain(x) => Plain(y))
      BY <1>14
    <3> HIDE DEF x, y
    <3>2. ASSUME NEW q, NEW d, NEW m, NEW e, Sound(q, t, x, d, m, e)
          PROVE  Sound(q, t, y, d, m, e)
      BY <3>1, <3>2 DEF Sound, Expected
    <3>3. ASSUME NEW q, NEW new, NEW o, Started(q, t, x, new, o)
          PROVE  Started(q, t, y, new, o)
      BY <3>1, <3>3 DEF Started
    <3>4. /\ Sound(down, t, y, declared[t], sent[t], ended[t])
          /\ Started(down, t, y, app[t] = "new", sOpen)
      BY <2>1, <3>2, <3>3 DEF x
    <3>5. Sound(down, t, stream[t], declared[t], sent[t], ended[t])'
      BY <1>8, <3>4 DEF Sound, Expected, HeadersBy, Plain, Underway, y
    <3>6. Started(down, t, stream[t], app[t] = "new", sOpen)'
      BY <1>8, <3>4 DEF Started, HeadersBy, y
    <3> QED
      BY <3>5, <3>6
  <2> QED
    BY <1>2, <2>1 DEF EInv, InStep
<1>16. Arrived'
  BY <1>8, <1>14 DEF EInv, Arrived
<1> QED
  BY <1>3, <1>9, <1>10, <1>12, <1>13, <1>15, <1>16 DEF EInv
-----------------------------------------------------------------------------
(* Frames the receiving end handles.                                       *)

\* The delegate has the headers of the message, and no more than they announced.
Midway(r, s) ==
  /\ r.told = "headers" /\ r.phase = "BODY" /\ r.block = "none"
  /\ r.started = TRUE /\ r.finished = FALSE
  /\ r.declared = declared[s]
  /\ r.remaining = IF r.declared = None THEN None ELSE r.declared - r.got

\* Nothing but RST_STREAM of stream s is left.
OnlyResets(q, s) == \A i \in 1 .. Len(q) : q[i].s = s => q[i].type = "RST_STREAM"

\* What is known of the oldest frame f, for stream s whose record is r.
Oldest(f, s, r) ==
  /\ f \in Packets /\ FrameOK(f) /\ f.s = s
  /\ f.type = "HEADERS" => r = R!NewStream /\ f.n = declared[s]
  /\ f.type \in {"DATA", "END"} => Midway(r, s)
  /\ f.type = "DATA" => f.n \in Nat \ {0} /\ r.got + f.n <= sent[s]
  /\ f.type = "END" => ended[s] /\ OnlyResets(Tail(down), s) /\ r.got = sent[s]
  /\ f.type = "RST_STREAM" =>
       /\ r.told # "nothing" /\ r.declared = declared[s]
       /\ r.told = "finish" => ended[s] /\ OnlyResets(Tail(down), s)

\* What is underway says that much of its first frame.
LEMMA OldestFrame ==
  ASSUME EInv, down # <<>>, rLoop = "reading"
  PROVE  /\ Head(down).s \in Streams
         /\ Oldest(Head(down), Head(down).s, stream[Head(down).s])
         /\ Shorter(down, Head(down), Tail(down))
<1> DEFINE f == Head(down)
           s == f.s
           x == Tail(down)
           r == stream[s]
           d == declared[s]
           e == ended[s]
           q == down
<1>1. Shorter(q, f, x)
  BY TailIsShorter DEF EInv, WireKept
<1> HIDE DEF f, x
<1>2. /\ f \in Packets /\ f = q[1] /\ q \in Seq(Packets) /\ x \in Seq(Packets)
      /\ Len(q) = Len(x) + 1 /\ Len(x) \in Nat
      /\ \A i \in 1 .. Len(x) : x[i] = q[i + 1]
      /\ Underway(q, "DATA", f.s) = Count(f, "DATA", f.s) + Underway(x, "DATA", f.s)
  BY <1>1 DEF Shorter, Numbered, Packets
<1>3. 1 \in 1 .. Len(q)
  BY <1>2
<1>4. FrameOK(f) /\ s \in Streams
  BY <1>2, <1>3 DEF EInv, WireKept, FrameOK
<1>5. Sound(q, s, r, d, sent[s], e)
  BY <1>4 DEF EInv, InStep
<1>6. Expected(q, 1, s, r, d, e) /\ Plain(r)
  BY <1>2, <1>3, <1>5 DEF Sound
<1>7. r.told = "nothing" => r = R!NewStream /\ f.type = "HEADERS"
  BY <1>2, <1>6 DEF Expected, HeadersBy, Plain
<1>8. r.told # "nothing" =>
        /\ r.declared = d
        /\ r.told \in {"headers", "finish"}
        /\ r.phase = "BODY" /\ r.block = "none"
        /\ r.started = (r.told = "headers") /\ r.finished = (r.told = "finish")
        /\ r.remaining = IF r.declared = None THEN None ELSE r.declared - r.got
  BY <1>5, <1>6 DEF Sound, Plain, R!NewStream
<1>9. \A i \in 1 .. Len(x) : i + 1 \in 1 .. Len(q) /\ i + 1 \in 2 .. Len(q)
  BY <1>2
<1>10. r.told = "finish" => f.type = "RST_STREAM" /\ OnlyResets(x, s) /\ e
  <2> SUFFICES ASSUME r.told = "finish"
               PROVE  f.type = "RST_STREAM" /\ OnlyResets(x, s) /\ e
    OBVIOUS
  <2>1. \A i \in 1 .. Len(q) : q[i].s = s => q[i].type = "RST_STREAM"
    BY <1>5 DEF Sound, Expected
  <2> QED
    BY <1>2, <1>3, <1>5, <1>9, <2>1 DEF OnlyResets, Sound
<1>11. f.type = "END" => e /\ OnlyResets(x, s)
  <2> SUFFICES ASSUME f.type = "END" PROVE e /\ OnlyResets(x, s)
    OBVIOUS
  <2>1. e /\ \A j \in 1 + 1 .. Len(q) : q[j].s = s => q[j].type = "RST_STREAM"
    BY <1>2, <1>6 DEF Expected
  <2>2. \A i \in 1 .. Len(x) : i + 1 \in 1 + 1 .. Len(q)
    BY <1>2
  <2> QED
    BY <1>2, <2>1, <2>2 DEF OnlyResets
<1>12. sent[s] = r.got + Underway(q, "DATA", s) /\ r.got \in Nat /\ sent[s] \in Nat
       /\ Underway(x, "DATA", s) \in Nat
  BY <1>2, <1>4, <1>5, SenderIsSound, ReceiverIsSound, CountsType
  DEF EInv, Sound, SenderFacts, ReceiverFacts, R!Stream, Numbered
<1>13. f.type = "DATA" => f.n \in Nat \ {0} /\ r.got + f.n <= sent[s]
  <2> SUFFICES ASSUME f.type = "DATA" PROVE f.n \in Nat \ {0} /\ r.got + f.n <= sent[s]
    OBVIOUS
  <2>1. f.n \in Nat /\ f.n > 0
    BY <1>2, <1>4 DEF Packets, FrameOK
  <2>2. Count(f, "DATA", s) = f.n
    BY DEF Count
  <2> DEFINE a == Underway(q, "DATA", s)
             b == Underway(x, "DATA", s)
  <2>3. a = f.n + b
    BY <1>2, <2>2
  <2> HIDE DEF a, b
  <2> QED
    BY <1>12, <2>1, <2>3 DEF a, b
<1>14. f.type = "END" => r.got = sent[s]
  <2> SUFFICES ASSUME f.type = "END" PROVE r.got = sent[s]
    OBVIOUS
  <2>1. Underway(x, "DATA", s) = 0
    BY <1>2, <1>11, NothingUnderway DEF OnlyResets
  <2>2. Count(f, "DATA", s) = 0
    BY DEF Count
  <2>3. Underway(q, "DATA", s) = 0
    BY <1>2, <2>1, <2>2
  <2> QED
    BY <1>12, <2>3
<1>15. f.type = "HEADERS" => r = R!NewStream /\ f.n = d
  BY <1>2, <1>6, <1>7 DEF Expected
<1>16. Oldest(f, s, r)
  <2>1. f.type \in {"DATA", "END"} => Midway(r, s)
    BY <1>7, <1>8, <1>10 DEF Midway
  <2>2. f.type = "RST_STREAM" =>
          /\ r.told # "nothing" /\ r.declared = d
          /\ r.told = "finish" => e /\ OnlyResets(x, s)
    BY <1>7, <1>8, <1>10
  <2> QED
    BY <1>2, <1>4, <1>11, <1>13, <1>14, <1>15, <2>1, <2>2 DEF Oldest, x
<1> QED
  BY <1>1, <1>4, <1>16 DEF f, x

\* The loop handles the frame f and leaves the record p, or ends.
Handles(f, s, p) ==
  /\ RP!Next
  /\ stream' = [stream EXCEPT ![s] = p]
  /\ stream[s].granted <= p.granted /\ connGranted <= connGranted'
  /\ rLoop' \in {"reading", "goaway", "ended"}
  /\ rLoop' = "reading" =>
       Takes(f, s, stream[s], declared[s], ended[s], Tail(down), p)
  /\ rLoop' = "goaway" => TooLarge(f)
  /\ rLoop' = "ended" => ~rOpen'
  /\ p.got <= sent[s]
  /\ p.told = "finish" => ended[s] /\ p.got = sent[s] /\ p.declared = declared[s]

\* Whatever the frame, handling it so keeps the invariant.
LEMMA HandledStep ==
  ASSUME EInv, HandleDown, NEW f, f = Head(down), NEW s \in Streams, f.s = s,
         rLoop = "reading", Shorter(down, f, Tail(down)), FrameOK(f),
         NEW p, Handles(f, s, p)
  PROVE  EInv' /\ (rLoop' = "goaway" => TooLarge(f))
<1>1. RP!IInv' /\ ReceiverFacts /\ ReceiverFacts' /\ SenderFacts
  BY ReceiverKeeps, ReceiverIsSound, ReceiverIsSoundNext, SenderIsSound
  DEF EInv, Handles
<1>2. /\ UNCHANGED <<sOpen, sLoop, connWin, strWin, pc, chunk, amount, queue, app,
                     remaining, fin, sent, ended, rst, accepted, declared, connCredit,
                     strCredit>>
      /\ down' = Tail(down) /\ up' = up \o Answer(s)
  BY DEF HandleDown, sVars
<1>3. SP!IInv' /\ SP!ConnKept'
  <2>1. [SP!Next]_(SP!vars)
    BY <1>2 DEF SP!vars, SP!windows, SP!writer, SP!caller, SP!credit
  <2> QED
    BY <2>1, SenderKeeps DEF EInv
<1>4. stream'[s] = p /\ \A t \in Streams \ {s} : stream'[t] = stream[t]
  BY <1>1 DEF Handles, ReceiverFacts
<1>5. /\ connGranted \in Nat /\ connGranted' \in Nat
      /\ \A t \in Streams : stream[t].granted \in Nat /\ stream'[t].granted \in Nat
      /\ \A t \in Streams : stream[t].got \in Nat
  BY <1>1 DEF ReceiverFacts, R!Stream
<1>6. GivesBack(s)
  BY <1>4, <1>5 DEF GivesBack, Handles
<1>7. LoopsKept'
  <2>1. FramesFit => ~TooLarge(f)
    <3>1. f.type = "DATA" => f.n \in Nat
      BY DEF Shorter, Packets
    <3> QED
      BY <3>1, ConstantsAssumption DEF FrameOK, TooLarge
  <2> QED
    BY <1>2, <2>1 DEF EInv, LoopsKept, FramesFit, Handles
<1>8. /\ up' \in Seq(Packets) /\ \A i \in 1 .. Len(up') : CreditOK(up'[i])
      /\ CreditReturns'
  BY <1>2, <1>6, AnswerReturns DEF Answers, Handles
<1> DEFINE x == down'
<1>9. Shorter(down, f, x)
  BY <1>2
<1>10. /\ x \in Seq(Packets) /\ f \in Packets
       /\ \A i \in 1 .. Len(x) : x[i] = down[i + 1] /\ i + 1 \in 1 .. Len(down)
  <2>1. x \in Seq(Packets) /\ Len(down) = Len(x) + 1 /\ f \in Packets
        /\ \A i \in 1 .. Len(x) : x[i] = down[i + 1]
    BY <1>9 DEF Shorter
  <2> QED
    BY <2>1
<1>11. \A i \in 1 .. Len(x) : FrameOK(x[i])
  BY <1>10 DEF EInv, WireKept
<1>12. WireKept'
  BY <1>8, <1>10, <1>11 DEF WireKept, FrameOK, CreditOK, Packets, FramesFit
<1> HIDE DEF x
<1>13. ASSUME rLoop' = "reading", NEW t \in Streams
       PROVE  /\ Sound(x, t, stream'[t], declared[t], sent[t], ended[t])
              /\ Started(x, t, stream'[t], app[t] = "new", sOpen)
  <2> DEFINE r == stream[t]
             y == stream'[t]
             d == declared[t]
             n == sent[t]
             e == ended[t]
             new == app[t] = "new"
             o == sOpen
  <2>1. Sound(down, t, r, d, n, e) /\ Started(down, t, r, new, o)
    BY DEF EInv, InStep
  <2>2. r.got \in Nat
    BY <1>5
  <2>3. Takes(f, t, r, d, e, x, y)
    <3>1. CASE t = s
      <4>1. Takes(f, s, stream[s], declared[s], ended[s], x, p)
        BY <1>2, <1>13 DEF Handles, x
      <4> QED
        BY <1>4, <3>1, <4>1
    <3>2. CASE t # s
      BY <1>4, <3>2 DEF Takes
    <3> QED
      BY <3>1, <3>2
  <2>4. Count(f, "DATA", t) \in Nat
    BY <1>10, CountType DEF Numbered
  <2> HIDE DEF r, y, d, n, e, new, o
  <2>5. Sound(x, t, y, d, n, e) /\ Started(x, t, y, new, o)
    BY <1>9, <2>1, <2>2, <2>3, <2>4, ShorterSound
  <2> QED
    BY <2>5 DEF y, d, n, e, new, o
<1>14. InStep'
  <2> SUFFICES ASSUME rLoop' = "reading", NEW t \in Streams
               PROVE  /\ Sound(down, t, stream[t], declared[t], sent[t], ended[t])'
                      /\ Started(down, t, stream[t], app[t] = "new", sOpen)'
    BY DEF InStep, Handles
  <2>1. /\ Sound(x, t, stream'[t], declared'[t], sent'[t], ended'[t])
        /\ Started(x, t, stream'[t], app'[t] = "new", sOpen')
    BY <1>2, <1>13
  <2>2. Sound(down, t, stream[t], declared[t], sent[t], ended[t])'
    BY <2>1 DEF x, Sound, Expected, HeadersBy, Plain, Underway
  <2>3. Started(down, t, stream[t], app[t] = "new", sOpen)'
    BY <2>1 DEF x, Started, HeadersBy
  <2> QED
    BY <2>2, <2>3
<1>15. Arrived'
  <2> SUFFICES ASSUME NEW t \in Streams
               PROVE  /\ stream'[t].got <= sent'[t]
                      /\ stream'[t].told = "finish" =>
                           /\ ended'[t] /\ stream'[t].got = sent'[t]
                           /\ stream'[t].declared = declared'[t]
    BY DEF Arrived
  <2>1. CASE t = s
    BY <1>2, <1>4, <2>1 DEF Handles
  <2>2. CASE t # s
    BY <1>2, <1>4, <2>2 DEF EInv, Arrived
  <2> QED
    BY <2>1, <2>2
<1>16. EInv'
  BY <1>1, <1>3, <1>7, <1>8, <1>12, <1>14, <1>15 DEF EInv
<1>17. rLoop' = "goaway" => TooLarge(f)
  BY DEF Handles
<1> QED
  BY <1>16, <1>17

\* HEADERS are handled the same way in the module the proofs of the receiving end are in.
LEMMA HeadersAreReceivers ==
  \A s : /\ R!HeadersFrame(s, TRUE, FALSE) => RP!HeadersFrame(s, TRUE, FALSE)
         /\ R!CreateOnHeaders(s, TRUE, FALSE) => RP!CreateOnHeaders(s, TRUE, FALSE)
<1>1. \A s, r : R!ParseHeaders(s, r) => RP!ParseHeaders(s, r)
  <2>1. \A r, l, i : R!StartRequest(r, l, i) = RP!StartRequest(r, l, i)
    BY DEF R!StartRequest, RP!StartRequest
  <2>2. \A s, r, end : R!MaybeEndStream(s, r, end) => RP!MaybeEndStream(s, r, end)
    BY DEF R!MaybeEndStream, R!EndStream, R!FailStream, R!Continue,
           RP!MaybeEndStream, RP!EndStream, RP!FailStream, RP!Continue
  <2>3. \A s, r : /\ R!FailConn(s, r) => RP!FailConn(s, r)
                  /\ R!FailStream(s, r) => RP!FailStream(s, r)
                  /\ R!Crash(s, r) => RP!Crash(s, r)
    BY DEF R!FailConn, R!FailStream, R!Crash, RP!FailConn, RP!FailStream, RP!Crash
  <2>4. \A s : R!HasDelegate(s) = RP!HasDelegate(s)
    BY DEF R!HasDelegate, RP!HasDelegate
  <2> QED
    BY <2>1, <2>2, <2>3, <2>4, Zenon DEF R!ParseHeaders, RP!ParseHeaders
<1>2. \A s, r : R!AddFragment(s, r, TRUE) => RP!AddFragment(s, r, TRUE)
  BY <1>1 DEF R!AddFragment, R!HeadersTooLarge, R!Crash, R!HasDelegate,
              RP!AddFragment, RP!HeadersTooLarge, RP!Crash, RP!HasDelegate
<1>3. \A s, r : R!HandleHeaders(s, r, TRUE, FALSE) => RP!HandleHeaders(s, r, TRUE, FALSE)
  BY <1>2 DEF R!HandleHeaders, R!FailConn, R!Crash, R!Grown, RP!HandleHeaders,
              RP!FailConn, RP!Crash, RP!Grown
<1>4. \A s : R!HeadersFrame(s, TRUE, FALSE) => RP!HeadersFrame(s, TRUE, FALSE)
  BY <1>3 DEF R!HeadersFrame, R!Known, R!Admitted, R!NeedsContinuation, R!FailStream,
              R!conn, RP!HeadersFrame, RP!Known, RP!Admitted, RP!NeedsContinuation,
              RP!FailStream, RP!conn
<1>5. R!NewStream = RP!NewStream
  BY DEF R!NewStream, RP!NewStream
<1>6. \A s : R!CreateOnHeaders(s, TRUE, FALSE) => RP!CreateOnHeaders(s, TRUE, FALSE)
  BY <1>3, <1>5 DEF R!CreateOnHeaders, R!Admitted, R!NeedsContinuation, R!Local,
                    R!LargestRemote, RP!CreateOnHeaders, RP!Admitted,
                    RP!NeedsContinuation, RP!Local, RP!LargestRemote
<1> QED
  BY <1>4, <1>6

\* Of the record of a stream that has not begun what its headers do not change, and the
\* record they make of it when they announce the length l.
Unbegun(r) ==
  /\ r.finished = FALSE /\ r.got = 0 /\ r.granted = 0
  /\ r.hung = FALSE /\ r.refused = FALSE

Opened(r, l) ==
  /\ Unbegun(r)
  /\ r.told = "headers" /\ r.phase = "BODY" /\ r.block = "none" /\ r.started = TRUE
  /\ r.declared = l /\ r.remaining = l

\* Headers that are understood open a stream with what they announced.
LEMMA UnderstoodOpens ==
  ASSUME NEW s \in Streams, R!HandleHeaders(s, R!NewStream, TRUE, FALSE),
         NEW f, f.s = s, Understood(f), stream \in [Streams -> R!Stream],
         isClient \in BOOLEAN
  PROVE  /\ stream' = [stream EXCEPT ![s] = stream'[s]]
         /\ Opened(stream'[s], f.n)
         /\ UNCHANGED <<rOpen, rLoop>>
         /\ f.n \in Nat \cup {None}
<1> DEFINE new == R!NewStream
           begun == [new EXCEPT !.phase = IF @ = "BODY" THEN "TRAILERS" ELSE @]
           q(size) == [begun EXCEPT !.block = size, !.ending = FALSE]
           p == stream'[s]
<1>1. /\ p.phase = "BODY" /\ p.started /\ p.declared = f.n /\ ~p.refused /\ ~p.hung
  BY DEF Understood
<1>2. PICK size \in {"small", "large"} : R!AddFragment(s, q(size), TRUE)
  <2>1. begun.phase # "BODY"
    BY DEF R!NewStream
  <2>2. ~R!FailConn(s, begun) /\ ~R!Crash(s, begun)
    BY <1>1, <2>1 DEF R!FailConn, R!Crash
  <2>3. R!Grown("none") = {"small", "large"}
    BY DEF R!Grown
  <2> QED
    BY <2>2, <2>3 DEF R!HandleHeaders
<1>3. /\ q(size) \in R!Stream /\ q(size).block = size /\ q(size).phase = "HEADERS"
      /\ q(size).ending = FALSE /\ q(size).remaining = None /\ Unbegun(q(size))
  <2>1. new \in R!Stream /\ new.phase = "HEADERS" /\ new.remaining = None /\ Unbegun(new)
    BY DEF R!NewStream, R!Stream, Unbegun
  <2>2. begun = [new EXCEPT !.phase = "HEADERS"]
    BY <2>1
  <2> HIDE DEF new, begun
  <2>3. /\ begun \in R!Stream /\ begun.phase = "HEADERS" /\ begun.remaining = None
        /\ Unbegun(begun)
    BY <2>1, <2>2 DEF R!Stream, Unbegun
  <2> QED
    BY <2>3 DEF R!Stream, Unbegun
<1> HIDE DEF new, begun, q
<1> DEFINE big == q(size)
           c == IF size = "large" THEN R!HeadersTooLarge(big) ELSE big
           parsed == [c EXCEPT !.block = "none"]
<1>4. R!ParseHeaders(s, c)
  <2>1. ~R!Crash(s, big)
    BY <1>1, <1>3 DEF R!Crash
  <2> QED
    BY <1>2, <1>3, <2>1 DEF R!AddFragment
<1>5. /\ c \in R!Stream /\ c.phase = "HEADERS" /\ c.ending = FALSE
      /\ size = "large" => c.hung = TRUE \/ c.refused = TRUE
      /\ size # "large" => c.remaining = None /\ Unbegun(c)
  <2> HIDE DEF big
  <2>1. /\ big \in R!Stream /\ big.phase = "HEADERS" /\ big.ending = FALSE
        /\ big.remaining = None /\ Unbegun(big)
    BY <1>3 DEF big
  <2>2. [big EXCEPT !.hung = TRUE] \in R!Stream /\ [big EXCEPT !.refused = TRUE] \in R!Stream
    BY <2>1 DEF R!Stream
  <2> QED
    BY <2>1, <2>2 DEF R!HeadersTooLarge, R!Stream
<1>6. /\ parsed \in R!Stream /\ parsed.phase = "HEADERS" /\ parsed.block = "none"
      /\ size = "large" => parsed.hung = TRUE \/ parsed.refused = TRUE
      /\ size # "large" => parsed.remaining = None /\ Unbegun(parsed)
  <2> HIDE DEF c
  <2> QED
    BY <1>5 DEF R!Stream, Unbegun
<1>7. PICK length \in Lengths \cup {None}, interim \in {FALSE, isClient} :
        R!MaybeEndStream(s, R!StartRequest(parsed, length, interim), FALSE)
  <2> HIDE DEF c
  <2>1. /\ ~R!FailConn(s, parsed) /\ ~R!FailStream(s, parsed) /\ ~R!Crash(s, parsed)
    BY <1>1, <1>6 DEF R!FailConn, R!FailStream, R!Crash
  <2> QED
    BY <1>4, <1>5, <2>1 DEF R!ParseHeaders
<1> HIDE DEF parsed, c, big
<1> DEFINE t == R!StartRequest(parsed, length, interim)
<1>8. stream' = [stream EXCEPT ![s] = t] /\ p = t /\ UNCHANGED <<rOpen, rLoop>>
  BY <1>7 DEF R!MaybeEndStream, R!Continue
<1> DEFINE left == IF length = None THEN parsed.remaining ELSE length
           phase == IF interim THEN parsed.phase ELSE "BODY"
<1>9. t = [parsed EXCEPT !.remaining = left, !.phase = phase, !.started = TRUE,
                         !.told = "headers", !.declared = length]
  BY DEF R!StartRequest
<1> HIDE DEF left, phase, t
<1>10. /\ t.remaining = left /\ t.phase = phase /\ t.started = TRUE
       /\ t.told = "headers" /\ t.declared = length /\ t.block = "none"
       /\ t.hung = parsed.hung /\ t.refused = parsed.refused
       /\ t.finished = parsed.finished /\ t.got = parsed.got /\ t.granted = parsed.granted
  BY <1>6, <1>9 DEF R!Stream
<1>11. size # "large"
  BY <1>1, <1>6, <1>8, <1>10
<1>12. phase = "BODY" /\ left = length
  <2>1. phase = "BODY"
    BY <1>1, <1>8, <1>10
  <2>2. left = length
    BY <1>6, <1>11 DEF left
  <2> QED
    BY <2>1, <2>2
<1>13. Opened(t, length) /\ length = f.n
  BY <1>1, <1>6, <1>8, <1>10, <1>11, <1>12 DEF Opened, Unbegun
<1> QED
  BY <1>8, <1>13, ConstantsAssumption

\* The receiving end reads HEADERS: they are the first frame of their stream.
LEMMA HeadersStep ==
  ASSUME EInv, HandleDown, NEW f, f = Head(down), NEW s \in Streams, f.s = s,
         rLoop = "reading", Shorter(down, f, Tail(down)), Oldest(f, s, stream[s]),
         f.type = "HEADERS", Understood(f),
         R!HeadersFrame(s, TRUE, FALSE) \/ R!CreateOnHeaders(s, TRUE, FALSE)
  PROVE  EInv' /\ (rLoop' = "goaway" => TooLarge(f))
<1>1. ReceiverFacts /\ SenderFacts /\ isClient \in BOOLEAN
  BY ReceiverIsSound, SenderIsSound, ReceiverAssumption
  DEF EInv, RP!IInv, RP!TypeOK, ReceiverConstants
<1>2. stream[s] = R!NewStream /\ f.n = declared[s] /\ FrameOK(f)
  BY DEF Oldest
<1>3. R!HandleHeaders(s, R!NewStream, TRUE, FALSE) /\ connGranted' = connGranted
  <2>1. R!NewStream.finished = FALSE
    BY DEF R!NewStream
  <2> QED
    BY <1>2, <2>1 DEF R!HeadersFrame, R!CreateOnHeaders
<1> DEFINE p == stream'[s]
<1>4. stream' = [stream EXCEPT ![s] = p] /\ Opened(p, f.n) /\ UNCHANGED <<rOpen, rLoop>>
      /\ f.n \in Nat \cup {None}
  BY <1>1, <1>3, UnderstoodOpens DEF ReceiverFacts
<1>5. RP!Next /\ p \in R!Stream
  <2>1. RP!Next
    BY HeadersAreReceivers DEF RP!Next, RP!Frames
  <2>2. ReceiverFacts'
    BY <2>1, ReceiverKeeps, ReceiverIsSoundNext DEF EInv
  <2> QED
    BY <2>1, <2>2 DEF ReceiverFacts
<1> HIDE DEF p
<1>6. /\ p.told = "headers" /\ p.phase = "BODY" /\ p.block = "none"
      /\ p.started = TRUE /\ p.finished = FALSE
      /\ p.declared = f.n /\ p.remaining = f.n /\ p.got = 0 /\ p.granted = 0
      /\ stream[s].got = 0 /\ stream[s].granted = 0
  <2>1. stream[s].got = 0 /\ stream[s].granted = 0
    BY <1>2 DEF R!NewStream
  <2>2. p.finished = FALSE /\ p.got = 0 /\ p.granted = 0
    BY <1>4, <1>5 DEF Opened, Unbegun, R!Stream
  <2> QED
    BY <1>4, <2>1, <2>2 DEF Opened
<1>7. Plain(p)
  <2>1. CASE f.n = None
    BY <1>6, <2>1 DEF Plain
  <2>2. CASE f.n # None
    <3>1. f.n \in Nat /\ p.declared - p.got = f.n
      BY <1>4, <1>6, <2>2
    <3> QED
      BY <1>6, <2>2, <3>1 DEF Plain
  <2> QED
    BY <2>1, <2>2
<1>8. Takes(f, s, stream[s], declared[s], ended[s], Tail(down), p)
  BY <1>2, <1>6, <1>7 DEF Takes, Count
<1>9. Handles(f, s, p)
  <2>1. connGranted \in Nat /\ sent[s] \in Nat
    BY <1>1 DEF ReceiverFacts, SenderFacts
  <2> QED
    BY <1>3, <1>4, <1>5, <1>6, <1>8, <2>1 DEF Handles
<1> QED
  BY <1>2, <1>9, HandledStep

\* What n bytes of data make of a record that is Midway, whether or not the delegate is
\* done with them.
Delivered(p, r, n) ==
  /\ p.told = r.told /\ p.phase = "BODY" /\ p.block = "none"
  /\ p.started = TRUE /\ p.finished = FALSE
  /\ p.declared = r.declared
  /\ p.remaining = IF r.remaining = None THEN None ELSE r.remaining - n
  /\ p.got = r.got + n
  /\ r.granted <= p.granted

\* Data is handled the same way in the module its proofs are in.
LEMMA DataIsReceivers ==
  ASSUME NEW s \in Streams, stream[s].body \in Nat, NEW n \in Nat, NEW end \in BOOLEAN,
         R!DataFrame(s, n, None, end)
  PROVE  RP!Next
<1>1. \A r, e : R!MaybeEndStream(s, r, e) => RP!MaybeEndStream(s, r, e)
  BY DEF R!MaybeEndStream, R!EndStream, R!FailStream, R!Continue,
         RP!MaybeEndStream, RP!EndStream, RP!FailStream, RP!Continue
<1>2. \A r : /\ R!FailConn(s, r) => RP!FailConn(s, r)
             /\ R!FailStream(s, r) => RP!FailStream(s, r)
             /\ R!Crash(s, r) => RP!Crash(s, r)
  BY DEF R!FailConn, R!FailStream, R!Crash, RP!FailConn, RP!FailStream, RP!Crash
<1>3. \A r, m : R!ReturnCredit(r, m) = RP!ReturnCredit(r, m)
  BY DEF R!ReturnCredit, RP!ReturnCredit
<1>4. \A r, m, e : R!Deliver(s, r, m, e) => RP!Deliver(s, r, m, e)
  BY <1>1, <1>2, <1>3, Zenon DEF R!Deliver, RP!Deliver
<1>5. /\ \A m : R!Unpadded(m, None) = RP!Unpadded(m, None)
      /\ \A m : R!Delivers(s, m) <=> RP!Delivers(s, m)
  <2>1. \A m : R!Unpadded(m, None) = RP!Unpadded(m, None)
    BY DEF R!Unpadded, RP!Unpadded
  <2> QED
    BY <2>1 DEF R!Delivers, RP!Delivers
<1>6. R!HandleData(s, n, None, end) => RP!HandleData(s, n, None, end)
  <2> DEFINE begun == [stream[s] EXCEPT !.phase = "BODY"]
             c == [begun EXCEPT
                     !.remaining = IF @ = None THEN None ELSE @ - R!Unpadded(n, None),
                     !.body = @ + n]
             k == [begun EXCEPT
                     !.remaining = IF @ = None THEN None ELSE @ - RP!Unpadded(n, None),
                     !.body = @ + n]
             u == R!Unpadded(n, None)
             v == RP!Unpadded(n, None)
  <2>1. c = k /\ u = v
    BY <1>5
  <2> SUFFICES ASSUME R!HandleData(s, n, None, end) PROVE RP!HandleData(s, n, None, end)
    OBVIOUS
  <2>2. \/ /\ stream[s].block # "none" \/ stream[s].phase = "TRAILERS"
           /\ R!FailConn(s, stream[s]) /\ UNCHANGED connGranted
        \/ /\ stream[s].block = "none" /\ stream[s].phase # "TRAILERS"
           /\ \/ c.remaining # None /\ c.remaining < 0 /\ R!FailStream(s, c)
                /\ UNCHANGED connGranted
              \/ /\ ~(c.remaining # None /\ c.remaining < 0)
                 /\ R!Delivers(s, u) /\ R!Deliver(s, c, u, end)
              \/ /\ ~(c.remaining # None /\ c.remaining < 0) /\ ~R!Delivers(s, u)
                 /\ R!MaybeEndStream(s, c, end) /\ UNCHANGED connGranted
    BY DEF R!HandleData
  <2> HIDE DEF c
  <2>3. \/ /\ stream[s].block # "none" \/ stream[s].phase = "TRAILERS"
           /\ RP!FailConn(s, stream[s]) /\ UNCHANGED connGranted
        \/ /\ stream[s].block = "none" /\ stream[s].phase # "TRAILERS"
           /\ \/ c.remaining # None /\ c.remaining < 0 /\ RP!FailStream(s, c)
                /\ UNCHANGED connGranted
              \/ /\ ~(c.remaining # None /\ c.remaining < 0)
                 /\ RP!Delivers(s, v) /\ RP!Deliver(s, c, v, end)
              \/ /\ ~(c.remaining # None /\ c.remaining < 0) /\ ~RP!Delivers(s, v)
                 /\ RP!MaybeEndStream(s, c, end) /\ UNCHANGED connGranted
    <3> HIDE DEF u, v
    <3>1. /\ R!FailConn(s, stream[s]) => RP!FailConn(s, stream[s])
          /\ R!FailStream(s, c) => RP!FailStream(s, c)
          /\ R!Delivers(s, u) <=> RP!Delivers(s, u)
          /\ R!Deliver(s, c, u, end) => RP!Deliver(s, c, u, end)
          /\ R!MaybeEndStream(s, c, end) => RP!MaybeEndStream(s, c, end)
      BY <1>1, <1>2, <1>4, <1>5
    <3> QED
      BY <2>1, <2>2, <3>1
  <2> QED
    BY <2>1, <2>3, Zenon DEF RP!HandleData
<1>7. RP!DataFrame(s, n, None, end)
  BY <1>2, <1>6 DEF R!DataFrame, R!Known, R!Admitted, R!NeedsContinuation, R!conn,
                    RP!DataFrame, RP!Known, RP!Admitted, RP!NeedsContinuation, RP!conn
<1>8. n \in 0 .. MaxBytes
  BY ConstantsAssumption DEF R!DataFrame
<1> QED
  BY <1>7, <1>8 DEF RP!Next, RP!Frames

\* The record that n bytes were counted in, the last of them or not.
LEMMA CountedIs ==
  ASSUME NEW s \in Streams, NEW r \in R!Stream, r = stream[s], Midway(r, s), NEW n \in Nat,
         r.remaining # None => n <= r.remaining, NEW end \in BOOLEAN,
         R!HandleData(s, n, None, end)
  PROVE  \E c \in R!Stream :
           /\ Delivered([c EXCEPT !.got = @ + n], r, n)
           /\ c.got = r.got /\ c.granted = r.granted
           /\ c.told = "headers"
           /\ c.remaining = IF r.remaining = None THEN None ELSE r.remaining - n
           /\ n > 0 => R!Deliver(s, c, n, end)
           /\ n = 0 => R!MaybeEndStream(s, c, end) /\ UNCHANGED connGranted
<1> DEFINE left == IF r.remaining = None THEN None ELSE r.remaining - n
           begun == [r EXCEPT !.phase = "BODY"]
           size == r.body + n
           c == [begun EXCEPT !.remaining = left, !.body = size]
           got == r.got + n
<1>1. R!Unpadded(n, None) = n
  BY ConstantsAssumption DEF R!Unpadded
<1>2. /\ r.remaining \in Int \cup {None} /\ r.got \in Nat /\ r.granted \in Nat
      /\ r.body \in Nat
  BY DEF R!Stream
<1>3. left \in Int \cup {None} /\ size \in Nat /\ got \in Nat
      /\ (left # None => ~(left < 0))
  BY <1>2, ConstantsAssumption
<1>4. R!Delivers(s, n) <=> n > 0
  BY DEF R!Delivers, Midway
<1>5. c = [begun EXCEPT !.remaining = IF @ = None THEN None ELSE @ - n, !.body = @ + n]
      /\ c.remaining = left
  BY DEF R!Stream
<1>6. begun \in R!Stream /\ begun.told = r.told /\ begun.phase = "BODY"
      /\ begun.block = r.block /\ begun.started = r.started /\ begun.finished = r.finished
      /\ begun.declared = r.declared /\ begun.got = r.got /\ begun.granted = r.granted
  BY DEF R!Stream
<1>7. r.block = "none" /\ r.phase = "BODY" /\ r.told = "headers" /\ r.started = TRUE
      /\ r.finished = FALSE
  BY DEF Midway
<1> HIDE DEF left, size, got, begun
<1>8. c \in R!Stream /\ c.told = r.told /\ c.phase = "BODY"
      /\ c.block = r.block /\ c.started = r.started /\ c.finished = r.finished
      /\ c.declared = r.declared /\ c.got = r.got /\ c.granted = r.granted
  BY <1>3, <1>6 DEF R!Stream
<1>9. /\ n > 0 => R!Deliver(s, c, n, end)
      /\ n = 0 => R!MaybeEndStream(s, c, end) /\ UNCHANGED connGranted
  <2>1. ~(c.remaining # None /\ c.remaining < 0)
    BY <1>3, <1>5
  <2> HIDE DEF c
  <2>2. c = [[stream[s] EXCEPT !.phase = "BODY"]
               EXCEPT !.remaining = IF @ = None THEN None ELSE @ - R!Unpadded(n, None),
                      !.body = @ + n]
    BY <1>1, <1>5 DEF begun
  <2> DEFINE k == [[stream[s] EXCEPT !.phase = "BODY"]
                    EXCEPT !.remaining = IF @ = None THEN None ELSE @ - R!Unpadded(n, None),
                           !.body = @ + n]
  <2>3. ~(k.remaining # None /\ k.remaining < 0)
    BY <2>1, <2>2
  <2>4. n = 0 => ~(n > 0)
    OBVIOUS
  <2> QED
    BY <1>1, <1>4, <1>7, <2>2, <2>3, <2>4 DEF R!HandleData
<1>10. Delivered([c EXCEPT !.got = got], r, n)
  <2> HIDE DEF c
  <2> DEFINE g == [c EXCEPT !.got = got]
  <2>1. /\ g.told = c.told /\ g.phase = c.phase /\ g.block = c.block
        /\ g.started = c.started /\ g.finished = c.finished /\ g.declared = c.declared
        /\ g.remaining = c.remaining /\ g.granted = c.granted /\ g.got = got
    BY <1>8 DEF R!Stream
  <2>2. r.granted <= g.granted
    BY <1>2, <1>8, <2>1
  <2> HIDE DEF g
  <2>3. Delivered(g, r, n)
    BY <1>5, <1>7, <1>8, <2>1, <2>2 DEF Delivered, left, got
  <2> QED
    BY <2>3 DEF g
<1>11. [c EXCEPT !.got = @ + n] = [c EXCEPT !.got = got]
  BY <1>8 DEF got
<1>12. /\ c.told = "headers"
       /\ c.remaining = IF r.remaining = None THEN None ELSE r.remaining - n
  BY <1>5, <1>7, <1>8 DEF left
<1> HIDE DEF c
<1> QED
  BY <1>8, <1>9, <1>10, <1>11, <1>12

\* A record that Delivered describes is one the next frames may be sound for.
LEMMA DeliveredIsTaken ==
  ASSUME NEW s \in Streams, NEW r \in R!Stream, Midway(r, s), NEW n \in Nat,
         declared[s] \in Nat \cup {None}, NEW p, Delivered(p, r, n),
         NEW f, f.s = s, f.type = "DATA" /\ f.n = n, NEW e, NEW x
  PROVE  Takes(f, s, r, declared[s], e, x, p)
<1> DEFINE d == declared[s]
<1>1. p.remaining = IF p.declared = None THEN None ELSE p.declared - p.got
  <2>1. r.got \in Nat /\ r.declared = d
    BY DEF R!Stream, Midway
  <2>2. r.remaining = IF d = None THEN None ELSE d - r.got
    BY <2>1 DEF Midway
  <2>3. p.declared = d /\ p.got = r.got + n
        /\ p.remaining = IF r.remaining = None THEN None ELSE r.remaining - n
    BY <2>1 DEF Delivered
  <2>4. CASE d = None
    BY <2>2, <2>3, <2>4
  <2>5. CASE d # None
    <3>1. d \in Nat /\ r.remaining = d - r.got /\ r.remaining # None
      BY <2>1, <2>2, <2>5, ConstantsAssumption
    <3>2. p.remaining = d - r.got - n /\ d - r.got - n = d - (r.got + n)
      BY <2>1, <2>3, <3>1
    <3> QED
      BY <2>3, <2>5, <3>2
  <2> QED
    BY <2>4, <2>5
<1>2. Plain(p)
  BY <1>1 DEF Plain, Delivered, Midway
<1> QED
  BY <1>2 DEF Takes, Delivered, Midway, Count

\* It reads DATA: the delegate has its headers, and did announce as much.
LEMMA DataStep ==
  ASSUME EInv, HandleDown, NEW f, f = Head(down), NEW s \in Streams, f.s = s,
         rLoop = "reading", Shorter(down, f, Tail(down)), Oldest(f, s, stream[s]),
         f.type = "DATA", R!DataFrame(s, f.n, None, FALSE)
  PROVE  EInv' /\ (rLoop' = "goaway" => TooLarge(f))
<1> DEFINE r == stream[s]
           n == f.n
<1>1. ReceiverFacts /\ SenderFacts /\ FrameOK(f)
  BY ReceiverIsSound, SenderIsSound DEF EInv, Oldest
<1>2. /\ r \in R!Stream /\ Midway(r, s) /\ n \in Nat \ {0} /\ r.got + n <= sent[s]
      /\ declared[s] \in Nat \cup {None}
  BY <1>1 DEF Oldest, ReceiverFacts, SenderFacts
<1>3. r.remaining # None => n <= r.remaining
  <2> SUFFICES ASSUME r.remaining # None PROVE n <= r.remaining
    OBVIOUS
  <2>1. declared[s] \in Nat /\ r.remaining = declared[s] - r.got /\ r.got \in Nat
    BY <1>2 DEF Midway, R!Stream
  <2>2. sent[s] \in Nat /\ accepted[s] \in Nat /\ sent[s] <= accepted[s]
        /\ accepted[s] <= declared[s]
    BY <1>1, <2>1, ConstantsAssumption DEF SenderFacts
  <2> HIDE DEF r, n
  <2> QED
    BY <1>2, <2>1, <2>2
<1>4. R!HandleData(s, n, None, FALSE)
  BY <1>2 DEF R!DataFrame, Midway
<1>5. PICK c \in R!Stream :
        /\ Delivered([c EXCEPT !.got = @ + n], r, n)
        /\ R!Deliver(s, c, n, FALSE)
  <2>1. n > 0
    BY <1>2
  <2> QED
    BY <1>2, <1>3, <1>4, <2>1, CountedIs
<1> DEFINE g == [c EXCEPT !.got = @ + n]
           back == R!ReturnCredit(g, n)
           held == [g EXCEPT !.pending = Append(@, n)]
<1>6. \/ rOpen /\ R!Continue(s, back) /\ connGranted' = connGranted + n
      \/ ~rOpen /\ R!Crash(s, g) /\ UNCHANGED connGranted
      \/ R!Continue(s, held) /\ UNCHANGED connGranted
  BY <1>5 DEF R!Deliver, R!MaybeEndStream
<1>7. g \in R!Stream
  <2>1. c.got + n \in Nat
    BY <1>2, <1>5 DEF R!Stream
  <2> QED
    BY <1>5, <2>1 DEF R!Stream
<1> HIDE DEF g
<1>8. Delivered(g, r, n) /\ Delivered(back, r, n) /\ Delivered(held, r, n)
  <2>1. Delivered(g, r, n)
    BY <1>5 DEF g
  <2> DEFINE credit == g.granted + n
             more == Append(g.pending, n)
  <2>2. back = [g EXCEPT !.granted = credit] /\ held = [g EXCEPT !.pending = more]
    BY <1>7 DEF R!ReturnCredit, R!Stream
  <2>3. r.granted <= credit
    <3>1. r.granted \in Nat /\ g.granted \in Nat /\ r.granted <= g.granted
      BY <1>2, <1>7, <2>1 DEF Delivered, R!Stream
    <3> QED
      BY <1>2, <3>1
  <2> HIDE DEF credit, more, back, held, r, n
  <2>4. /\ back.told = g.told /\ back.phase = g.phase /\ back.block = g.block
        /\ back.started = g.started /\ back.finished = g.finished
        /\ back.declared = g.declared /\ back.remaining = g.remaining
        /\ back.got = g.got /\ back.granted = credit
        /\ held.told = g.told /\ held.phase = g.phase /\ held.block = g.block
        /\ held.started = g.started /\ held.finished = g.finished
        /\ held.declared = g.declared /\ held.remaining = g.remaining
        /\ held.got = g.got /\ held.granted = g.granted
    BY <1>7, <2>2 DEF R!Stream
  <2> QED
    BY <2>1, <2>3, <2>4 DEF Delivered
<1>9. PICK p : /\ Delivered(p, r, n) /\ stream' = [stream EXCEPT ![s] = p]
               /\ rLoop' = "reading" \/ (rLoop' = "ended" /\ ~rOpen')
               /\ connGranted' = connGranted \/ connGranted' = connGranted + n
  BY <1>6, <1>8 DEF R!Continue, R!Crash
<1>10. RP!Next
  <2>1. r.body \in Nat
    BY <1>2 DEF R!Stream
  <2> QED
    BY <1>2, <2>1, DataIsReceivers
<1>11. Takes(f, s, r, declared[s], ended[s], Tail(down), p)
  <2>1. n \in Nat
    BY <1>2
  <2> HIDE DEF r
  <2> QED
    BY <1>2, <1>9, <2>1, DeliveredIsTaken
<1>12. Handles(f, s, p)
  <2>1. connGranted <= connGranted'
    <3>1. connGranted \in Nat
      BY <1>1 DEF ReceiverFacts
    <3> QED
      BY <1>2, <1>9, <3>1
  <2>2. r.granted <= p.granted /\ p.got <= sent[s] /\ p.told = "headers"
    BY <1>2, <1>9 DEF Delivered, Midway
  <2> QED
    BY <1>9, <1>10, <1>11, <2>1, <2>2 DEF Handles
<1> QED
  BY <1>1, <1>12, HandledStep

\* It reads the END_STREAM flag: all that was announced has arrived.
LEMMA EndStep ==
  ASSUME EInv, HandleDown, NEW f, f = Head(down), NEW s \in Streams, f.s = s,
         rLoop = "reading", Shorter(down, f, Tail(down)), Oldest(f, s, stream[s]),
         f.type = "END", R!DataFrame(s, 0, None, TRUE)
  PROVE  EInv' /\ (rLoop' = "goaway" => TooLarge(f))
<1> DEFINE r == stream[s]
<1>1. ReceiverFacts /\ SenderFacts /\ FrameOK(f)
  BY ReceiverIsSound, SenderIsSound DEF EInv, Oldest
<1>2. /\ r \in R!Stream /\ Midway(r, s) /\ ended[s] /\ OnlyResets(Tail(down), s)
      /\ r.got = sent[s] /\ sent[s] \in Nat /\ declared[s] \in {None, sent[s]}
  BY <1>1 DEF Oldest, ReceiverFacts, SenderFacts
<1>3. r.remaining \in {None, 0}
  <2>1. CASE declared[s] = None
    BY <1>2, <2>1 DEF Midway
  <2>2. CASE declared[s] # None
    <3>1. declared[s] = sent[s] /\ r.remaining = declared[s] - r.got
      BY <1>2, <2>2 DEF Midway
    <3> HIDE DEF r
    <3> QED
      BY <1>2, <3>1
  <2> QED
    BY <2>1, <2>2
<1>4. R!HandleData(s, 0, None, TRUE)
  BY <1>2 DEF R!DataFrame, Midway
<1>5. PICK c \in R!Stream :
        /\ Delivered([c EXCEPT !.got = @ + 0], r, 0)
        /\ c.got = r.got /\ c.granted = r.granted
        /\ c.remaining = IF r.remaining = None THEN None ELSE r.remaining - 0
        /\ R!MaybeEndStream(s, c, TRUE) /\ UNCHANGED connGranted
  <2>1. r.remaining # None => 0 <= r.remaining
    BY <1>3
  <2> DEFINE n == 0
  <2>2. n \in Nat /\ ~(n > 0) /\ n = 0
    OBVIOUS
  <2>3. (r.remaining # None => n <= r.remaining) /\ R!HandleData(s, n, None, TRUE)
    BY <1>4, <2>1
  <2>4. Midway(stream[s], s) /\ stream[s] \in R!Stream /\ TRUE \in BOOLEAN
    BY <1>2
  <2> HIDE DEF n
  <2>5. \E c \in R!Stream :
           /\ Delivered([c EXCEPT !.got = @ + n], r, n)
           /\ c.got = r.got /\ c.granted = r.granted
           /\ c.told = "headers"
           /\ c.remaining = IF r.remaining = None THEN None ELSE r.remaining - n
           /\ n > 0 => R!Deliver(s, c, n, TRUE)
           /\ n = 0 => R!MaybeEndStream(s, c, TRUE) /\ UNCHANGED connGranted
    BY <2>2, <2>3, <2>4, CountedIs, Zenon
  <2> QED
    BY <2>2, <2>5
<1>6. c.remaining \in {None, 0}
  BY <1>3, <1>5
<1> DEFINE p == R!EndStream(c)
<1>7. stream' = [stream EXCEPT ![s] = p] /\ UNCHANGED <<rOpen, rLoop>>
  BY <1>5, <1>6 DEF R!MaybeEndStream, R!Continue
<1>8. /\ c.phase = "BODY" /\ c.block = "none" /\ c.started = TRUE
      /\ c.declared = declared[s]
  <2> DEFINE k == c.got + 0
             g == [c EXCEPT !.got = k]
  <2>1. Delivered(g, r, 0)
    BY <1>5
  <2> HIDE DEF k
  <2>2. /\ g.phase = c.phase /\ g.block = c.block /\ g.started = c.started
        /\ g.declared = c.declared
    BY <1>5 DEF R!Stream
  <2> HIDE DEF g
  <2> QED
    BY <1>2, <2>1, <2>2 DEF Delivered, Midway
<1>9. /\ p.told = "finish" /\ p.started = FALSE /\ p.finished = TRUE
      /\ p.phase = "BODY" /\ p.block = "none" /\ p.declared = declared[s]
      /\ p.remaining = c.remaining /\ p.got = r.got /\ p.granted = r.granted
  BY <1>5, <1>8 DEF R!EndStream, R!Stream
<1> HIDE DEF p
<1>10. RP!Next
  <2>1. r.body \in Nat /\ 0 \in Nat
    BY <1>2 DEF R!Stream
  <2> QED
    BY <2>1, DataIsReceivers
<1>11. Plain(p)
  <2>1. p.remaining = IF p.declared = None THEN None ELSE p.declared - p.got
    <3>1. CASE declared[s] = None
      BY <1>2, <1>5, <1>9, <3>1 DEF Midway
    <3>2. CASE declared[s] # None
      <4>1. declared[s] = sent[s] /\ p.got = sent[s] /\ p.declared = sent[s]
            /\ r.remaining = declared[s] - r.got
        BY <1>2, <1>9, <3>2 DEF Midway
      <4>2. r.remaining = 0
        <5> HIDE DEF r
        <5> QED
          BY <1>2, <4>1
      <4>3. p.remaining = 0 /\ p.declared - p.got = 0
        BY <1>2, <1>5, <1>9, <4>1, <4>2, ConstantsAssumption
      <4> QED
        BY <1>9, <3>2, <4>3
    <3> QED
      BY <3>1, <3>2
  <2> QED
    BY <1>9, <2>1 DEF Plain
<1>12. Takes(f, s, r, declared[s], ended[s], Tail(down), p)
  <2>1. p.got = r.got + Count(f, "DATA", s)
    <3>1. Count(f, "DATA", s) = 0
      BY DEF Count
    <3> QED
      BY <1>2, <1>9, <3>1
  <2> QED
    BY <1>2, <1>9, <1>11, <2>1 DEF Takes, OnlyResets
<1>13. Handles(f, s, p)
  <2>1. connGranted <= connGranted' /\ p.got <= sent[s]
    <3>1. connGranted \in Nat
      BY <1>1 DEF ReceiverFacts
    <3> QED
      BY <1>2, <1>5, <1>9, <3>1
  <2>2. r.granted <= p.granted
    <3>1. r.granted \in Nat
      BY <1>2 DEF R!Stream
    <3> QED
      BY <1>9, <3>1
  <2> QED
    BY <1>2, <1>7, <1>9, <1>10, <1>12, <2>1, <2>2 DEF Handles
<1> QED
  BY <1>1, <1>13, HandledStep

\* It reads RST_STREAM, of a stream that has begun and may have ended.
LEMMA RstStep ==
  ASSUME EInv, HandleDown, NEW f, f = Head(down), NEW s \in Streams, f.s = s,
         rLoop = "reading", Shorter(down, f, Tail(down)), Oldest(f, s, stream[s]),
         f.type = "RST_STREAM", R!RstStreamFrame(s), UNCHANGED rLoop
  PROVE  EInv' /\ (rLoop' = "goaway" => TooLarge(f))
<1> DEFINE r == stream[s]
           hung == r.hung \/ r.started
           p == [r EXCEPT !.hung = hung]
<1>1. ReceiverFacts /\ SenderFacts /\ FrameOK(f)
  BY ReceiverIsSound, SenderIsSound DEF EInv, Oldest
<1>2. /\ r \in R!Stream /\ Plain(r) /\ r.told # "nothing" /\ r.declared = declared[s]
      /\ r.told = "finish" => ended[s] /\ OnlyResets(Tail(down), s) /\ r.got = sent[s]
      /\ r.got <= sent[s] /\ sent[s] \in Nat /\ r.got \in Nat /\ r.granted \in Nat
  <2>1. r \in R!Stream /\ Plain(r) /\ r.got <= sent[s] /\ sent[s] \in Nat
    BY <1>1 DEF EInv, InStep, Sound, Arrived, ReceiverFacts, SenderFacts
  <2>2. r.told = "finish" => r.got = sent[s]
    BY DEF EInv, Arrived
  <2>3. r.got \in Nat /\ r.granted \in Nat
    BY <2>1 DEF R!Stream
  <2> QED
    BY <2>1, <2>2, <2>3 DEF Oldest
<1>3. stream' = [stream EXCEPT ![s] = p] /\ UNCHANGED <<rOpen, connGranted>>
  <2>1. ~R!FailConn(s, r)
    BY DEF R!FailConn
  <2>2. R!Continue(s, [r EXCEPT !.hung = @ \/ r.started])
    BY <2>1 DEF R!RstStreamFrame
  <2> QED
    BY <1>2, <2>2 DEF R!RstStreamFrame, R!Continue, R!Stream
<1> HIDE DEF hung
<1>4. /\ p.told = r.told /\ p.phase = r.phase /\ p.block = r.block
      /\ p.started = r.started /\ p.finished = r.finished /\ p.declared = r.declared
      /\ p.remaining = r.remaining /\ p.got = r.got /\ p.granted = r.granted
  BY <1>2 DEF R!Stream
<1>5. RP!Next
  <2>1. RP!RstStreamFrame(s)
    BY DEF R!RstStreamFrame, R!Known, R!Admitted, R!NeedsContinuation, R!FailConn,
           R!Continue, R!conn, RP!RstStreamFrame, RP!Known, RP!Admitted,
           RP!NeedsContinuation, RP!FailConn, RP!Continue, RP!conn
  <2> QED
    BY <2>1 DEF RP!Next, RP!Frames
<1> HIDE DEF p, r
<1>6. Plain(p)
  <2>1. r # R!NewStream
    BY <1>2 DEF R!NewStream
  <2> QED
    BY <1>2, <1>4, <2>1 DEF Plain
<1>7. Takes(f, s, r, declared[s], ended[s], Tail(down), p)
  <2>1. p.got = r.got + Count(f, "DATA", s)
    <3>1. Count(f, "DATA", s) = 0
      BY DEF Count
    <3> QED
      BY <1>2, <1>4, <3>1
  <2> QED
    BY <1>2, <1>4, <1>6, <2>1 DEF Takes, OnlyResets
<1>8. Handles(f, s, p)
  <2>1. connGranted <= connGranted' /\ p.got <= sent[s] /\ r.granted <= p.granted
    <3>1. connGranted \in Nat
      BY <1>1 DEF ReceiverFacts
    <3> QED
      BY <1>2, <1>3, <1>4, <3>1
  <2> QED
    BY <1>2, <1>3, <1>4, <1>5, <1>7, <2>1 DEF Handles, r
<1> QED
  BY <1>1, <1>8, HandledStep

\* A frame that is too large is the end of the loop.
LEMMA OversizedStep ==
  ASSUME EInv, HandleDown, NEW f, f = Head(down), NEW s \in Streams, f.s = s,
         rLoop = "reading", Shorter(down, f, Tail(down)), Oldest(f, s, stream[s]),
         TooLarge(f), R!OversizedFrame
  PROVE  EInv' /\ (rLoop' = "goaway" => TooLarge(f))
<1> DEFINE p == stream[s]
<1>1. ReceiverFacts /\ SenderFacts /\ FrameOK(f) /\ f.n \in Nat
  BY ReceiverIsSound, SenderIsSound DEF EInv, Oldest, Packets, TooLarge
<1>2. /\ UNCHANGED <<rOpen, stream, connGranted>>
      /\ rLoop' = IF rOpen THEN "goaway" ELSE "ended"
  BY DEF R!OversizedFrame, R!Reject
<1>3. RP!Next
  BY DEF R!OversizedFrame, R!Reject, R!conn, RP!Next, RP!OversizedFrame, RP!Reject, RP!conn
<1>4. stream' = [stream EXCEPT ![s] = p]
  BY <1>1, <1>2 DEF ReceiverFacts
<1>5. p.got <= sent[s]
      /\ (p.told = "finish" => ended[s] /\ p.got = sent[s] /\ p.declared = declared[s])
  BY DEF EInv, Arrived
<1>6. p.granted <= p.granted /\ connGranted <= connGranted'
  BY <1>1, <1>2 DEF ReceiverFacts, R!Stream
<1> HIDE DEF p
<1>7. Handles(f, s, p)
  <2>1. rLoop' \in {"goaway", "ended"} /\ (rLoop' = "ended" => ~rOpen')
    BY <1>2
  <2> QED
    BY <1>3, <1>4, <1>5, <1>6, <2>1 DEF Handles, p
<1> QED
  BY <1>1, <1>7, HandledStep

\* The receiving end reads a frame.
LEMMA HandleDownStep ==
  ASSUME EInv, HandleDown
  PROVE  EInv' /\ (rLoop' = "goaway" => down # <<>> /\ TooLarge(Head(down)))
<1> DEFINE f == Head(down)
           s == f.s
<1>1. down # <<>> /\ rLoop = "reading"
  BY DEF HandleDown, R!HeadersFrame, R!CreateOnHeaders, R!OversizedFrame, R!DataFrame,
         R!RstStreamFrame, R!Known, R!Admitted
<1>2. s \in Streams /\ Oldest(f, s, stream[s]) /\ Shorter(down, f, Tail(down))
  BY <1>1, OldestFrame
<1>3. CASE /\ f.type = "HEADERS"
           /\ R!HeadersFrame(s, TRUE, FALSE) \/ R!CreateOnHeaders(s, TRUE, FALSE)
           /\ Understood(f)
  BY <1>1, <1>2, <1>3, HeadersStep
<1>4. CASE TooLarge(f) /\ R!OversizedFrame
  BY <1>1, <1>2, <1>4, OversizedStep
<1>5. CASE f.type = "DATA" /\ ~TooLarge(f) /\ R!DataFrame(s, f.n, None, FALSE)
  BY <1>1, <1>2, <1>5, DataStep
<1>6. CASE f.type = "END" /\ R!DataFrame(s, 0, None, TRUE)
  BY <1>1, <1>2, <1>6, EndStep
<1>7. CASE f.type = "RST_STREAM" /\ R!RstStreamFrame(s) /\ UNCHANGED rLoop
  BY <1>1, <1>2, <1>7, RstStep
<1> QED
  BY <1>1, <1>3, <1>4, <1>5, <1>6, <1>7 DEF HandleDown
-----------------------------------------------------------------------------
(* The invariant.                                                          *)

\* The invariant holds at first ...
LEMMA InitEInv == Init => EInv
<1> SUFFICES ASSUME Init PROVE EInv
  OBVIOUS
<1>1. SP!Init
  BY DEF Init, S!Init, SP!Init
<1>2. RP!Init
  BY DEF Init, R!Init, R!NewStream, RP!Init, RP!NewStream
<1>3. SP!IInv /\ SP!ConnKept /\ RP!IInv
  BY <1>1, <1>2, SenderAssumption, ReceiverAssumption, SP!InitInv, SP!InitCredit, RP!InitInv
<1>4. /\ down = <<>> /\ up = <<>> /\ connGranted = 0 /\ connCredit = ConnInit
      /\ sLoop = "reading" /\ rLoop \in {"preface", "reading"}
      /\ strCredit \in [Streams -> StreamInits]
      /\ \A s \in Streams : /\ stream[s] = R!NewStream /\ sent[s] = 0 /\ ended[s] = FALSE
                            /\ app[s] = "new" /\ strCredit[s] \in StreamInits
  BY DEF Init, S!Init, R!Init
<1>5. \A type \in Numbered : \A s : Underway(<<>>, type, s) = 0
  BY UnderwayNone
<1>6. WireKept
  BY <1>4 DEF WireKept
<1>7. InStep
  <2> SUFFICES ASSUME NEW s \in Streams
               PROVE  /\ Sound(down, s, stream[s], declared[s], sent[s], ended[s])
                      /\ Started(down, s, stream[s], app[s] = "new", sOpen)
    BY DEF InStep
  <2>1. Underway(down, "DATA", s) = 0 /\ Len(down) = 0
    BY <1>4, <1>5 DEF Numbered
  <2>2. stream[s].told = "nothing" /\ stream[s].got = 0 /\ Plain(stream[s])
    <3>1. stream[s] = R!NewStream
      BY <1>4
    <3>2. R!NewStream.told = "nothing" /\ R!NewStream.got = 0
      BY DEF R!NewStream
    <3> QED
      BY <3>1, <3>2 DEF Plain
  <2>3. \A i \in 1 .. Len(down) : FALSE
    BY <2>1
  <2> QED
    BY <1>4, <2>1, <2>2, <2>3 DEF Sound, Started
<1>8. Arrived
  BY <1>4 DEF Arrived, R!NewStream
<1>9. CreditReturns
  <2>1. Underway(up, "WINDOW_UPDATE", 0) = 0
    BY <1>4, <1>5 DEF Numbered
  <2>2. \A s \in Streams : Underway(up, "WINDOW_UPDATE", s) = 0 /\ stream[s].granted = 0
                           /\ strCredit[s] + 0 - 0 = strCredit[s]
    <3>1. \A n \in StreamInits : n \in Nat
      BY ConstantsAssumption
    <3> QED
      BY <1>4, <1>5, <3>1 DEF Numbered, R!NewStream
  <2>3. connCredit + 0 = ConnInit + connGranted
    BY <1>4, ConstantsAssumption
  <2> QED
    BY <1>4, <2>1, <2>2, <2>3 DEF CreditReturns
<1>10. LoopsKept
  BY <1>4 DEF LoopsKept
<1> QED
  BY <1>3, <1>6, <1>7, <1>8, <1>9, <1>10 DEF EInv

\* ... and every step keeps it.
LEMMA NextEInv == EInv /\ [Next]_vars => EInv'
<1> SUFFICES ASSUME EInv, [Next]_vars PROVE EInv'
  OBVIOUS
<1>1. CASE UNCHANGED vars
  <2>1. /\ UNCHANGED <<sOpen, sLoop, connWin, strWin, pc, chunk, amount, queue, app,
                       remaining, fin, sent, ended, rst, accepted, declared, connCredit,
                       strCredit>>
        /\ UNCHANGED <<rOpen, rLoop, isClient, upgraded, known, nextId, maxRemote, last,
                       stream, connGranted, undecoded>>
        /\ UNCHANGED <<down, up>>
    BY <1>1 DEF vars, sVars, rVars
  <2>2. [SP!Next]_(SP!vars) /\ [RP!Next]_(RP!vars)
    BY <2>1 DEF SP!vars, SP!windows, SP!writer, SP!caller, SP!credit, RP!vars, RP!conn
  <2>3. LoopsKept'
    BY <2>1 DEF EInv, LoopsKept, FramesFit
  <2> QED
    BY <2>1, <2>2, <2>3, ApartStep
<1>2. CASE \E s \in Streams : Call(s) \/ Resume(s) \/ Consumed(s)
  BY <1>2, WriterStep, ConsumedStep
<1>3. CASE HandleUp
  BY <1>3, HandleUpStep
<1>4. CASE HandleDown
  BY <1>4, HandleDownStep
<1>5. CASE SenderRuns
  BY <1>5, SenderRunsStep
<1>6. CASE ReceiverRuns
  BY <1>6, ReceiverRunsStep
<1>7. CASE Open
  BY <1>7, OpenStep
<1>8. CASE HangUp
  BY <1>8, HangUpStep
<1> QED
  BY <1>1, <1>2, <1>3, <1>4, <1>5, <1>6, <1>7, <1>8 DEF Next

\* The inductive invariant: those of the two ends, and what they say of each other by
\* what is underway.
LEMMA Invariance == Spec => []EInv
  BY InitEInv, NextEInv, PTL DEF Spec
-----------------------------------------------------------------------------
(* The theorems.                                                           *)

\* The delegate is told that a message is complete only when it has all that the other
\* end's application wrote and as much as it announced, for any number of streams, any
\* windows and lengths, also when a frame was refused or an end hung up.
THEOREM ArrivalCorrect == Spec => []MessageArrives
<1>1. EInv => MessageArrives
  <2> SUFFICES ASSUME EInv, NEW s \in Streams, stream[s].told = "finish"
               PROVE  /\ stream[s].got = accepted[s]
                      /\ stream[s].declared = declared[s]
                      /\ app[s] = "finished" /\ fin[s] # "failed"
    BY DEF MessageArrives
  <2>1. ended[s] /\ stream[s].got = sent[s] /\ stream[s].declared = declared[s]
    BY DEF EInv, Arrived
  <2>2. sent[s] = accepted[s] /\ app[s] = "finished" /\ fin[s] = "done"
    BY <2>1, SenderIsSound DEF EInv, SenderFacts
  <2> QED
    BY <2>1, <2>2
<1> QED
  BY <1>1, Invariance, PTL

\* The receiving end begins to answer with GOAWAY only when it reads a frame that is
\* too large.
LEMMA GoawayStep ==
  ASSUME EInv, [Next]_vars, rLoop # "goaway", rLoop' = "goaway"
  PROVE  down # <<>> /\ TooLarge(Head(down)) /\ down' = Tail(down)
<1>1. CASE HandleDown
  <2>1. down' = Tail(down)
    BY <1>1 DEF HandleDown
  <2> QED
    BY <1>1, <2>1, HandleDownStep
<1>2. ~UNCHANGED rLoop
  OBVIOUS
<1>3. ~UNCHANGED rVars
  BY <1>2 DEF rVars
<1>4. ASSUME NEW s \in Streams, Call(s) \/ Resume(s) \/ Consumed(s) PROVE FALSE
  <2>1. CASE Call(s) \/ Resume(s)
    BY <1>3, <2>1 DEF Call, Resume
  <2>2. CASE Consumed(s)
    BY <1>2, <2>2 DEF Consumed, R!DataConsumed, R!Continue
  <2> QED
    BY <1>4, <2>1, <2>2
<1>5. ~HandleUp /\ ~SenderRuns
  BY <1>3 DEF HandleUp, SenderRuns
<1>6. ~ReceiverRuns
  BY DEF ReceiverRuns, R!LoopFlushed, R!LoopFails
<1>7. ~Open
  BY <1>2 DEF Open, R!CreateStream
<1>8. ~HangUp
  BY <1>2, <1>3 DEF HangUp, R!Close
<1>9. ~UNCHANGED vars
  BY <1>3 DEF vars
<1> QED
  BY <1>1, <1>4, <1>5, <1>6, <1>7, <1>8, <1>9 DEF Next

\* The only frame of this program that its other end refuses is DATA larger than it
\* reads: no other, in any order and for any windows and lengths, is answered with
\* RST_STREAM or GOAWAY.
THEOREM OnlySizeRefused == Spec => OnlySizeIsRefused
<1>1. ASSUME EInv, [Next]_vars, NoAccusation, ~NoAccusation'
      PROVE  down # <<>> /\ TooLarge(Head(down)) /\ down' = Tail(down)
  <2>1. EInv'
    BY <1>1, NextEInv
  <2>2. rLoop # "goaway" /\ rLoop' = "goaway"
    BY <1>1, <2>1 DEF EInv, LoopsKept, NoAccusation
  <2> QED
    BY <1>1, <2>2, GoawayStep
<1>2. EInv /\ [Next]_vars =>
        [NoAccusation /\ ~NoAccusation' =>
           down # <<>> /\ TooLarge(Head(down)) /\ down' = Tail(down)]_vars
  BY <1>1
<1> QED
  BY <1>2, Invariance, PTL DEF Spec, OnlySizeIsRefused

\* So nothing is refused where the windows begin no larger than a frame.
COROLLARY NothingRefused == FramesFit => (Spec => []NoAccusation)
<1>1. ASSUME FramesFit PROVE Spec => []NoAccusation
  <2>1. EInv => NoAccusation
    BY <1>1 DEF EInv, LoopsKept, NoAccusation
  <2> QED
    BY <2>1, Invariance, PTL
<1> QED
  BY <1>1

\* What CreditCirculates says, while the receiving end has refused no frame.
LEMMA AwayIsUsed ==
  ASSUME EInv, Connected, rLoop # "goaway"
  PROVE  /\ \A s \in Streams :
              strWin[s] + S!TakenFromStream(s)
                + (Underway(down, "DATA", s) + R!Pending(s))
                + Underway(up, "WINDOW_UPDATE", s) \in StreamInits
         /\ connWin + SumFunction([s \in Streams |->
                S!TakenFromConn(s) + (Underway(down, "DATA", s) + R!Pending(s))])
              + Underway(up, "WINDOW_UPDATE", 0) = ConnInit
<1>1. SenderFacts /\ ReceiverFacts /\ sOpen /\ rOpen
  BY SenderIsSound, ReceiverIsSound DEF EInv, Connected
<1>2. \A s \in Streams : sent[s] = stream[s].got + Underway(down, "DATA", s)
  <2>1. rLoop \in {"preface", "reading"}
    <3>1. rLoop \in {"preface", "reading", "rst", "goaway", "ended"}
      BY DEF EInv, RP!IInv, RP!TypeOK
    <3> QED
      BY <1>1, <3>1 DEF EInv, LoopsKept
  <2> QED
    BY <2>1 DEF EInv, InStep, Sound
<1>3. \A s : Underway(down, "DATA", s) \in Nat /\ Underway(up, "WINDOW_UPDATE", s) \in Nat
  BY CountsType DEF EInv, WireKept, Numbered
<1> DEFINE away(s) == Underway(down, "DATA", s) + R!Pending(s)
<1>4. ASSUME NEW s \in Streams
      PROVE  away(s) \in Nat /\ stream[s].granted \in Nat /\ sent[s] \in Nat
             /\ sent[s] = stream[s].granted + away(s)
  <2>1. /\ stream[s].got \in Nat /\ stream[s].granted \in Nat /\ R!Pending(s) \in Nat
        /\ stream[s].got = stream[s].granted + R!Pending(s) /\ sent[s] \in Nat
    BY <1>1 DEF ReceiverFacts, SenderFacts, R!Stream
  <2> QED
    BY <1>2, <1>3, <2>1
<1> HIDE DEF away
<1>5. ASSUME NEW s \in Streams
      PROVE  strWin[s] + S!TakenFromStream(s) + away(s)
               + Underway(up, "WINDOW_UPDATE", s) \in StreamInits
  <2> DEFINE u == Underway(up, "WINDOW_UPDATE", s)
             w == strWin[s]
             k == S!TakenFromStream(s)
             c == strCredit[s]
             g == stream[s].granted
             n == sent[s]
             a == away(s)
  <2>1. c + u - g \in StreamInits
    BY DEF EInv, CreditReturns
  <2>2. w \in Nat /\ k \in Nat /\ c \in Nat /\ n \in Nat /\ w + n + k = c
    BY <1>1 DEF SenderFacts
  <2>3. u \in Nat /\ g \in Nat /\ a \in Nat /\ n = g + a
    BY <1>3, <1>4
  <2> HIDE DEF u, w, k, c, g, n, a
  <2>4. w + k + a + u = c + u - g
    BY <2>2, <2>3
  <2> QED
    BY <2>1, <2>4 DEF u, w, k, a
<1>6. connWin + SumFunction([s \in Streams |-> S!TakenFromConn(s) + away(s)])
        + Underway(up, "WINDOW_UPDATE", 0) = ConnInit
  <2> DEFINE f == [s \in Streams |-> S!TakenFromConn(s) + away(s)]
             g == [s \in Streams |-> stream[s].granted]
             h == [s \in Streams |-> SP!Used(s)]
             u == Underway(up, "WINDOW_UPDATE", 0)
  <2>1. \A s \in Streams : S!TakenFromConn(s) \in Nat
                           /\ S!TakenFromConn(s) = SP!TakenFromConn(s)
    <3>1. \A s \in Streams : amount[s] \in Nat
      BY DEF EInv, SP!IInv, SP!TypeOK
    <3> QED
      BY <3>1 DEF S!TakenFromConn, SP!TakenFromConn
  <2>2. \A s \in Streams : f[s] \in Int /\ g[s] \in Int /\ h[s] = f[s] + g[s]
    <3> SUFFICES ASSUME NEW s \in Streams
                 PROVE  f[s] \in Int /\ g[s] \in Int /\ h[s] = f[s] + g[s]
      OBVIOUS
    <3>1. h[s] = sent[s] + S!TakenFromConn(s)
      BY <2>1 DEF SP!Used
    <3>2. f[s] = S!TakenFromConn(s) + away(s) /\ g[s] = stream[s].granted
      OBVIOUS
    <3> HIDE DEF f, g, h
    <3> QED
      BY <1>4, <2>1, <3>1, <3>2
  <2>3. DOMAIN f = Streams /\ DOMAIN g = Streams /\ DOMAIN h = Streams
        /\ IsFiniteSet(Streams)
    BY ConstantsAssumption
  <2>4. connWin + SumFunction(h) = connCredit
    BY <1>1, SameLibrary DEF EInv, SP!ConnKept, SP!UsedBy
  <2>5. connGranted = SumFunction(g)
    BY <1>1 DEF ReceiverFacts
  <2> HIDE DEF f, g, h
  <2>6. SumFunction(h) = SumFunction(f) + SumFunction(g)
    BY <2>2, <2>3, SumOfBoth DEF SumFunction
  <2>7. SumFunction(f) \in Int
    BY <2>2, <2>3, SumInt DEF SumFunction
  <2>8. connCredit + u = ConnInit + connGranted
    BY DEF EInv, CreditReturns
  <2>9. connWin \in Nat /\ connCredit \in Nat /\ connGranted \in Nat /\ ConnInit \in Nat
        /\ u \in Nat
    BY <1>1, <1>3, ConstantsAssumption DEF SenderFacts, ReceiverFacts
  <2>10. connWin + SumFunction(f) + u = ConnInit
    <3> DEFINE a == SumFunction(f)
               b == SumFunction(g)
               c == SumFunction(h)
    <3>1. /\ connWin + c = connCredit /\ connGranted = b /\ c = a + b /\ a \in Int
          /\ connCredit + u = ConnInit + connGranted
      BY <2>4, <2>5, <2>6, <2>7, <2>8
    <3> HIDE DEF a, b, c, u
    <3>2. connWin + a + u = ConnInit
      BY <2>9, <3>1
    <3> QED
      BY <3>2 DEF a
  <2> QED
    BY <2>10 DEF f, u
<1> QED
  BY <1>5, <1>6 DEF away

\* The credit of every window goes round between the two ends and none of it is lost or
\* made, for any number of streams that share the connection's window and windows of any
\* size, until a frame is refused for its size.
THEOREM CreditCorrect == Spec => []CreditCirculates
<1>1. EInv => CreditCirculates
  BY AwayIsUsed DEF CreditCirculates, NoAccusation
<1> QED
  BY <1>1, Invariance, PTL
=============================================================================

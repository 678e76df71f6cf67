--------------------------- MODULE Receiver_proofs ---------------------------
(***************************************************************************)
(* Theorems about Receiver, for every set of streams and all lengths.  The *)
(* handlers of a frame change one stream: they turn its record r into a    *)
(* record q that is as good as r, by a step Message allows.  What a chain  *)
(* of handlers does is proved of these records; what remains to be proved  *)
(* of an action is which streams and blocks it is for.                     *)
(***************************************************************************)
EXTENDS Receiver, Sums

\* The paddings that do not trouble without_padding(): none, or a pad length that is
\* neither zero nor read as negative.
SmallPads == Pads \subseteq 1 .. 127 \cup {None}

\* The delegate has the headers but not the end of a message.
DelegateKept(r) ==
  /\ r.started <=> r.told = "headers"
  /\ r.told = "finish" => r.finished
  /\ r.phase = "HEADERS" => r.got = 0 /\ r.body = 0

\* What the announced length leaves to be received, until more than that came.
LengthKept(r) ==
  /\ r.declared # None => r.got <= r.declared
  /\ r.told = "headers" /\ r.declared # None =>
       /\ r.remaining # None
       /\ r.remaining >= 0 => r.got + r.remaining = r.declared

\* The data that is not delivered is that of a message that cannot be completed.
BodyKept(r) ==
  /\ r.told = "headers" /\ (r.remaining # None => r.remaining >= 0) => r.got = r.body
  /\ r.told = "finish" => r.got = r.body

\* What the delegate got and the peer's windows do not have back.
Owed(r) == r.got - r.granted - SumFunction(r.pending)

Good(r) ==
  /\ r \in Stream
  /\ DelegateKept(r)
  /\ LengthKept(r)
  /\ SmallPads => BodyKept(r)

Granted == [s \in Ids |-> stream[s].granted]

\* A block that is not complete is the last stream's, also while the loop waits.
BlockIsLast ==
  loop \notin {"goaway", "ended"} => \A s \in Ids : stream[s].block # "none" => last = s

CreditKept ==
  /\ \A s \in Ids : Owed(stream[s]) >= 0
  /\ open => \A s \in Ids : Owed(stream[s]) = 0
  /\ connGranted = SumFunction(Granted)

IInv ==
  /\ TypeOK
  /\ \A s \in Ids : Good(stream[s])
  /\ \A s \in Ids \ known : stream[s] = NewStream
  /\ BlockIsLast
  /\ IdsAreBounded
  /\ CreditKept
-----------------------------------------------------------------------------
(* What the handlers make of a stream's record.                            *)

SameView(r, q) == q.told = r.told /\ q.declared = r.declared /\ q.got = r.got
SameCredit(r, q) == q.got = r.got /\ q.granted = r.granted /\ q.pending = r.pending

\* on_connection_close() was called, or not.
Hang(r, q) == q.hung = r.hung \/ (q.hung = TRUE /\ r.told # "finish")

\* The steps of Message, for one stream.
Move(r, q) ==
  /\ Hang(r, q)
  /\ \/ SameView(r, q)
     \/ /\ r.told # "finish" /\ r.got = 0
        /\ q.told = "headers" /\ q.got = r.got
     \/ /\ r.told = "headers" /\ q.told = "headers"
        /\ q.got > r.got
        /\ q.declared = r.declared
        /\ q.declared # None => q.got <= q.declared
     \/ /\ r.told # "finish" /\ q.told = "finish"
        /\ q.declared = r.declared \/ r.got = 0
        /\ q.got = r.got \/ (r.told = "headers" /\ q.got > r.got)
        /\ q.declared \in {None, q.got}

\* Between two handlers of the same frame.
Touched(r, q) == SameView(r, q) /\ Hang(r, q) /\ SameCredit(r, q)

\* A connection that is closed takes no credit back.
Balanced(r, q) == Owed(q) = Owed(r) \/ (~open' /\ Owed(q) >= Owed(r))

Ends(s, q) == Continue(s, q) \/ FailStream(s, q) \/ FailConn(s, q) \/ Crash(s, q)

Result(s, r) ==
  \E q \in Stream :
    /\ Ends(s, q)
    /\ Good(q)
    /\ Move(r, q)
    /\ Balanced(r, q)
    /\ connGranted' = connGranted + (q.granted - r.granted)

LEMMA EndResult ==
  ASSUME NEW s \in Ids, NEW r \in Stream, NEW q \in Stream, Good(q), Ends(s, q),
         Move(r, q), Balanced(r, q),
         connGranted' = connGranted + (q.granted - r.granted)
  PROVE  Result(s, r)
BY DEF Result

LEMMA OwedInt ==
  ASSUME NEW r \in Stream
  PROVE  Owed(r) \in Int
<1>1. r.got \in Nat /\ r.granted \in Nat /\ r.pending \in Seq(Int)
  BY DEF Stream
<1>2. SumFunction(r.pending) \in Int
  BY <1>1, SumSeqInt
<1> QED
  BY <1>1, <1>2 DEF Owed

\* What was only touched has the same balance.
LEMMA TouchedMoves ==
  ASSUME NEW r \in Stream, NEW q \in Stream, Touched(r, q)
  PROVE  /\ Move(r, q)
         /\ Owed(q) = Owed(r)
         /\ q.granted - r.granted = 0
<1>1. r.granted \in Nat
  BY DEF Stream
<1> QED
  BY <1>1 DEF Touched, Move, SameCredit, Owed

\* The end of a message comes once, with as much as was announced.
LEMMA MaybeEndStreamResult ==
  ASSUME NEW s \in Ids, NEW end \in BOOLEAN,
         NEW r \in Stream, Good(r), r.told # "finish",
         NEW q \in Stream, Good(q), q.told # "finish", Move(r, q),
         MaybeEndStream(s, q, end), Balanced(r, q),
         connGranted' = connGranted + (q.granted - r.granted)
  PROVE  Result(s, r)
<1>1. CASE Continue(s, q) \/ FailStream(s, q)
  BY <1>1, EndResult DEF Ends
<1>2. CASE q.remaining \in {None, 0} /\ Continue(s, EndStream(q))
  <2> DEFINE p == EndStream(q)
  <2>1. /\ p \in Stream
        /\ p.started = FALSE /\ p.finished = TRUE
        /\ p.told = IF q.started THEN "finish" ELSE q.told
        /\ p.phase = q.phase /\ p.remaining = q.remaining
        /\ p.declared = q.declared /\ p.got = q.got /\ p.hung = q.hung
        /\ p.granted = q.granted /\ p.pending = q.pending /\ p.body = q.body
    <3> DEFINE told == IF q.started THEN "finish" ELSE q.told
    <3>1. told \in {"nothing", "headers", "finish"}
      BY DEF Stream
    <3>2. p = [q EXCEPT !.started = FALSE, !.finished = TRUE, !.told = told]
      BY DEF EndStream
    <3> HIDE DEF p, told
    <3>3. /\ p \in Stream /\ p.started = FALSE /\ p.finished = TRUE /\ p.told = told
          /\ p.phase = q.phase /\ p.remaining = q.remaining
          /\ p.declared = q.declared /\ p.got = q.got /\ p.hung = q.hung
          /\ p.granted = q.granted /\ p.pending = q.pending /\ p.body = q.body
      BY <3>1, <3>2 DEF Stream
    <3> QED
      BY <3>3 DEF told
  <2> HIDE DEF p
  <2>2. /\ q.got \in Nat /\ q.body \in Nat
        /\ q.told \in {"nothing", "headers"} /\ q.started \in BOOLEAN
        /\ q.declared \in Nat \cup {None} /\ None \notin Int
    BY ConstantsAssumption DEF Stream
  <2>3. q.told = "headers" => q.declared \in {None, q.got}
    BY <1>2, <2>2 DEF Good, LengthKept
  <2>4. DelegateKept(p)
    BY <2>1, <2>2 DEF Good, DelegateKept
  <2>5. LengthKept(p)
    BY <2>1, <2>2 DEF Good, LengthKept, DelegateKept
  <2>6. SmallPads => BodyKept(p)
    BY <1>2, <2>1, <2>2 DEF Good, BodyKept, DelegateKept
  <2>7. Move(r, p)
    <3>1. CASE ~q.started
      BY <2>1, <3>1 DEF Move, Hang, SameView
    <3>2. CASE q.started
      <4>1. q.told = "headers"
        BY <3>2 DEF Good, DelegateKept
      <4> QED
        BY <2>1, <2>2, <2>3, <3>2, <4>1 DEF Move, Hang, SameView
    <3> QED
      BY <3>1, <3>2
  <2>8. Owed(p) = Owed(q)
    BY <2>1 DEF Owed
  <2>9. Ends(s, p)
    BY <1>2 DEF Ends, p
  <2> QED
    BY <2>1, <2>4, <2>5, <2>6, <2>7, <2>8, <2>9, EndResult DEF Good, Balanced
<1> QED
  BY <1>1, <1>2 DEF MaybeEndStream
-----------------------------------------------------------------------------
(* Header blocks.                                                          *)

\* What changes when only the parts of the record change that say how a header
\* block arrives.
LEMMA TouchedIsGood ==
  ASSUME NEW r \in Stream, Good(r), NEW q \in Stream, SameView(r, q), SameCredit(r, q),
         q.started = r.started, q.finished = r.finished, q.remaining = r.remaining,
         q.body = r.body, q.phase = "HEADERS" => r.phase = "HEADERS"
  PROVE  Good(q)
<1>1. DelegateKept(q)
  BY DEF Good, DelegateKept, SameView
<1>2. LengthKept(q)
  BY DEF Good, LengthKept, SameView
<1>3. SmallPads => BodyKept(q)
  BY DEF Good, BodyKept, SameView
<1> QED
  BY <1>1, <1>2, <1>3 DEF Good

\* The headers of a message, an interim one or the last, begin it.
LEMMA StartRequestMoves ==
  ASSUME NEW r \in Stream, Good(r), r.told # "finish",
         NEW q \in Stream, Good(q), Touched(r, q), q.phase = "HEADERS",
         NEW length \in Nat \cup {None}, NEW interim \in BOOLEAN
  PROVE  LET p == StartRequest(q, length, interim)
         IN  /\ p \in Stream /\ Good(p) /\ Move(r, p) /\ SameCredit(r, p)
             /\ p.told = "headers"
<1> DEFINE p == StartRequest(q, length, interim)
<1>1. /\ p \in Stream
      /\ p.remaining = IF length = None THEN q.remaining ELSE length
      /\ p.started = TRUE /\ p.told = "headers" /\ p.declared = length
      /\ p.finished = q.finished /\ p.got = q.got /\ p.hung = q.hung
      /\ p.granted = q.granted /\ p.pending = q.pending /\ p.body = q.body
  <2> DEFINE left == IF length = None THEN q.remaining ELSE length
             phase == IF interim THEN q.phase ELSE "BODY"
  <2>1. left \in Int \cup {None} /\ phase \in {"HEADERS", "BODY", "TRAILERS"}
    BY DEF Stream
  <2>2. p = [q EXCEPT !.remaining = left, !.phase = phase, !.started = TRUE,
                      !.told = "headers", !.declared = length]
    BY DEF StartRequest
  <2> HIDE DEF p, left, phase
  <2>3. /\ p \in Stream /\ p.remaining = left /\ p.started = TRUE
        /\ p.told = "headers" /\ p.declared = length
        /\ p.finished = q.finished /\ p.got = q.got /\ p.hung = q.hung
        /\ p.granted = q.granted /\ p.pending = q.pending /\ p.body = q.body
    BY <2>1, <2>2 DEF Stream
  <2> QED
    BY <2>3 DEF left
<1> HIDE DEF p
<1>2. q.got = 0 /\ q.body = 0 /\ None \notin Int
  BY ConstantsAssumption DEF Good, DelegateKept
<1>3. DelegateKept(p)
  BY <1>1, <1>2 DEF DelegateKept
<1>4. LengthKept(p)
  BY <1>1, <1>2 DEF LengthKept
<1>5. BodyKept(p)
  BY <1>1, <1>2 DEF BodyKept
<1>6. Move(r, p)
  BY <1>1, <1>2 DEF Move, Touched, SameView, Hang
<1>7. SameCredit(r, p)
  BY <1>1 DEF Touched, SameCredit
<1> QED
  BY <1>1, <1>3, <1>4, <1>5, <1>6, <1>7 DEF Good, p

\* A step that leaves the credit alone.
LEMMA CreditAlone ==
  ASSUME NEW r \in Stream, NEW q \in Stream, SameCredit(r, q), UNCHANGED connGranted,
         connGranted \in Nat
  PROVE  Owed(q) = Owed(r) /\ connGranted' = connGranted + (q.granted - r.granted)
<1>1. r.granted \in Nat
  BY DEF Stream
<1> QED
  BY <1>1 DEF SameCredit, Owed

LEMMA ParseHeadersResult ==
  ASSUME NEW s \in Ids, NEW r \in Stream, Good(r), r.told # "finish",
         NEW q \in Stream, Good(q), Touched(r, q), isClient \in BOOLEAN,
         ParseHeaders(s, q), UNCHANGED connGranted, connGranted \in Nat
  PROVE  Result(s, r)
<1> DEFINE p == [q EXCEPT !.block = "none"]
<1>1. p \in Stream /\ p.phase = q.phase
  BY DEF Stream
<1>2. Touched(r, p)
  BY DEF Touched, SameView, SameCredit, Hang, Stream
<1>3. Good(p)
  <2>1. /\ SameView(q, p) /\ SameCredit(q, p)
        /\ p.started = q.started /\ p.finished = q.finished
        /\ p.remaining = q.remaining /\ p.body = q.body
    BY DEF SameView, SameCredit, Stream
  <2> HIDE DEF p
  <2> QED
    BY <1>1, <2>1, TouchedIsGood
<1> HIDE DEF p
<1>4. /\ Move(r, p) /\ p.told # "finish"
      /\ Owed(p) = Owed(r) /\ connGranted' = connGranted + (p.granted - r.granted)
  BY <1>1, <1>2, TouchedMoves, CreditAlone DEF Touched, SameView
<1>5. CASE FailConn(s, p) \/ FailStream(s, p) \/ Crash(s, p)
  BY <1>1, <1>3, <1>4, <1>5, EndResult DEF Ends, Balanced
<1>6. ASSUME q.phase = "HEADERS",
             NEW length \in Lengths \cup {None}, NEW interim \in {FALSE, isClient},
             MaybeEndStream(s, StartRequest(p, length, interim), q.ending)
      PROVE  Result(s, r)
  <2> DEFINE t == StartRequest(p, length, interim)
  <2>1. /\ t \in Stream /\ Good(t) /\ Move(r, t) /\ SameCredit(r, t)
        /\ t.told = "headers"
    <3>1. length \in Nat \cup {None} /\ interim \in BOOLEAN
      BY ConstantsAssumption
    <3>2. p.phase = "HEADERS"
      BY <1>1, <1>6
    <3> QED
      BY <1>1, <1>2, <1>3, <3>1, <3>2, StartRequestMoves
  <2>2. q.ending \in BOOLEAN
    BY DEF Stream
  <2>3. MaybeEndStream(s, t, q.ending)
    BY <1>6
  <2> HIDE DEF t
  <2>4. Owed(t) = Owed(r) /\ connGranted' = connGranted + (t.granted - r.granted)
    BY <2>1, CreditAlone
  <2> QED
    BY <2>1, <2>2, <2>3, <2>4, MaybeEndStreamResult DEF Balanced
<1>7. CASE MaybeEndStream(s, p, TRUE)
  BY <1>1, <1>3, <1>4, <1>7, MaybeEndStreamResult DEF Balanced
<1> QED
  BY <1>5, <1>6, <1>7 DEF ParseHeaders, p

LEMMA AddFragmentResult ==
  ASSUME NEW s \in Ids, NEW r \in Stream, Good(r), r.told # "finish",
         NEW q \in Stream, Good(q), Touched(r, q), isClient \in BOOLEAN,
         NEW endHeaders \in BOOLEAN, AddFragment(s, q, endHeaders),
         UNCHANGED connGranted, connGranted \in Nat
  PROVE  Result(s, r)
<1> DEFINE p == IF q.block = "large" THEN HeadersTooLarge(q) ELSE q
<1>1. CASE Crash(s, q)
  <2>1. Move(r, q) /\ Owed(q) = Owed(r) /\ connGranted' = connGranted + (q.granted - r.granted)
    BY TouchedMoves, CreditAlone DEF Touched
  <2> QED
    BY <1>1, <2>1, EndResult DEF Ends, Balanced
<1>2. CASE IF endHeaders THEN ParseHeaders(s, p) ELSE Continue(s, p)
  <2>1. p \in Stream
    <3>1. [q EXCEPT !.hung = TRUE] \in Stream /\ [q EXCEPT !.refused = TRUE] \in Stream
      BY DEF Stream
    <3> QED
      BY <3>1 DEF HeadersTooLarge
  <2>2. Touched(r, p)
    BY DEF HeadersTooLarge, Touched, SameView, SameCredit, Hang, Stream
  <2>3. Good(p)
    <3>1. /\ SameView(q, p) /\ SameCredit(q, p)
          /\ p.started = q.started /\ p.finished = q.finished
          /\ p.remaining = q.remaining /\ p.body = q.body /\ p.phase = q.phase
      BY DEF HeadersTooLarge, SameView, SameCredit, Stream
    <3> HIDE DEF p
    <3> QED
      BY <2>1, <3>1, TouchedIsGood
  <2> HIDE DEF p
  <2>4. CASE endHeaders
    BY <1>2, <2>1, <2>2, <2>3, <2>4, ParseHeadersResult
  <2>5. CASE ~endHeaders
    <3>1. Move(r, p) /\ Owed(p) = Owed(r) /\ connGranted' = connGranted + (p.granted - r.granted)
      BY <2>1, <2>2, TouchedMoves, CreditAlone DEF Touched
    <3> QED
      BY <1>2, <2>1, <2>3, <2>5, <3>1, EndResult DEF Ends, Balanced
  <2> QED
    BY <2>4, <2>5
<1> QED
  BY <1>1, <1>2 DEF AddFragment

LEMMA HandleHeadersResult ==
  ASSUME NEW s \in Ids, NEW r \in Stream, Good(r), ~r.finished, isClient \in BOOLEAN,
         NEW endHeaders \in BOOLEAN, NEW endStream \in BOOLEAN,
         HandleHeaders(s, r, endHeaders, endStream),
         UNCHANGED connGranted, connGranted \in Nat
  PROVE  Result(s, r)
<1> DEFINE b == [r EXCEPT !.phase = IF @ = "BODY" THEN "TRAILERS" ELSE @]
           q(size) == [b EXCEPT !.block = size, !.ending = endStream]
<1>1. r.told # "finish"
  BY DEF Good, DelegateKept
<1>2. /\ b \in Stream /\ SameView(r, b) /\ SameCredit(r, b)
      /\ b.started = r.started /\ b.finished = r.finished /\ b.remaining = r.remaining
      /\ b.body = r.body /\ b.hung = r.hung
      /\ b.phase = "HEADERS" => r.phase = "HEADERS"
  BY DEF SameView, SameCredit, Stream
<1> HIDE DEF b
<1>3. Good(b)
  BY <1>2, TouchedIsGood
<1>4. Touched(r, b)
  BY <1>2 DEF Touched, Hang
<1>5. CASE FailConn(s, b) \/ Crash(s, b)
  <2>1. Move(r, b) /\ Owed(b) = Owed(r) /\ connGranted' = connGranted + (b.granted - r.granted)
    BY <1>2, <1>4, TouchedMoves, CreditAlone
  <2> QED
    BY <1>2, <1>3, <1>5, <2>1, EndResult DEF Ends, Balanced
<1>6. ASSUME NEW size \in Grown("none"), AddFragment(s, q(size), endHeaders)
      PROVE  Result(s, r)
  <2>1. size \in {"small", "large"}
    BY DEF Grown
  <2>2. /\ q(size) \in Stream /\ SameView(b, q(size)) /\ SameCredit(b, q(size))
        /\ q(size).started = b.started /\ q(size).finished = b.finished
        /\ q(size).remaining = b.remaining /\ q(size).body = b.body
        /\ q(size).phase = b.phase /\ q(size).hung = b.hung
    BY <1>2, <2>1 DEF SameView, SameCredit, Stream
  <2>3. Good(q(size))
    <3> HIDE DEF q
    <3> QED
      BY <1>2, <1>3, <2>2, TouchedIsGood
  <2>4. Touched(r, q(size))
    <3> HIDE DEF q
    <3> QED
      BY <1>4, <2>2 DEF Touched, SameView, SameCredit, Hang
  <2> HIDE DEF q
  <2> QED
    BY <1>1, <1>6, <2>2, <2>3, <2>4, AddFragmentResult
<1> QED
  BY <1>5, <1>6 DEF HandleHeaders, b
-----------------------------------------------------------------------------
(* Data.                                                                   *)

LEMMA UnpaddedSize ==
  ASSUME NEW n \in Nat, NEW pad \in Pads
  PROVE  Unpadded(n, pad) \in Nat /\ (SmallPads => Unpadded(n, pad) = n)
<1>1. pad \in 0 .. 255 \cup {None} /\ (SmallPads => pad \in 1 .. 127 \cup {None})
      /\ None \notin Int
  BY ConstantsAssumption DEF SmallPads
<1>2. CASE pad = None \/ pad \in 1 .. 127
  BY <1>1, <1>2 DEF Unpadded
<1>3. CASE pad = 0
  BY <1>1, <1>3 DEF Unpadded
<1>4. CASE pad \in 128 .. 255
  <2>1. Unpadded(n, pad) = IF 255 - pad < n + pad THEN 255 - pad ELSE n + pad
    BY <1>1, <1>4 DEF Unpadded
  <2> QED
    BY <1>1, <1>4, <2>1
<1> QED
  BY <1>1, <1>2, <1>3, <1>4

\* data_received() of len bytes of r, of which nothing else has changed.
LEMMA DeliverResult ==
  ASSUME NEW s \in Ids, NEW end \in BOOLEAN, connGranted \in Nat, open \in BOOLEAN,
         NEW r \in Stream, Good(r), r.started,
         NEW n \in Nat, NEW len \in Nat \ {0}, SmallPads => len = n,
         NEW c \in Stream, SameView(r, c), SameCredit(r, c),
         c.started = TRUE, c.finished = r.finished, c.hung = r.hung, c.phase = "BODY",
         c.remaining = IF r.remaining = None THEN None ELSE r.remaining - len,
         c.body = r.body + n, ~(c.remaining # None /\ c.remaining < 0),
         Deliver(s, c, len, end)
  PROVE  Result(s, r)
<1> DEFINE g == [c EXCEPT !.got = @ + len]
<1>1. /\ r.got \in Nat /\ r.body \in Nat /\ r.granted \in Nat /\ None \notin Int
      /\ r.remaining \in Int \cup {None} /\ r.declared \in Nat \cup {None}
      /\ r.pending \in Seq(Nat \ {0}) /\ r.told = "headers"
  BY ConstantsAssumption DEF Stream, Good, DelegateKept
<1>2. /\ g \in Stream /\ g.got = r.got + len
      /\ g.told = "headers" /\ g.declared = r.declared
      /\ g.granted = r.granted /\ g.pending = r.pending
      /\ g.started = TRUE /\ g.finished = r.finished /\ g.hung = r.hung
      /\ g.phase = "BODY" /\ g.remaining = c.remaining /\ g.body = c.body
  <2>1. r.got + len \in Nat /\ c.got = r.got
    BY <1>1 DEF SameView
  <2>2. g = [c EXCEPT !.got = r.got + len]
    BY <2>1
  <2> HIDE DEF g
  <2>3. /\ g \in Stream /\ g.got = r.got + len
        /\ g.told = c.told /\ g.declared = c.declared
        /\ g.granted = c.granted /\ g.pending = c.pending
        /\ g.started = c.started /\ g.finished = c.finished /\ g.hung = c.hung
        /\ g.phase = c.phase /\ g.remaining = c.remaining /\ g.body = c.body
    BY <2>1, <2>2 DEF Stream
  <2> QED
    BY <1>1, <2>3 DEF SameView, SameCredit
<1> HIDE DEF g
\* Whatever becomes of the credit.
<1>3. ASSUME NEW q \in Stream,
             q.got = g.got, q.told = g.told, q.declared = g.declared,
             q.started = g.started, q.finished = g.finished, q.hung = g.hung,
             q.phase = g.phase, q.remaining = g.remaining, q.body = g.body
      PROVE  Good(q) /\ Move(r, q) /\ q.told # "finish"
  <2>1. DelegateKept(q)
    BY <1>2, <1>3 DEF DelegateKept
  <2>2. r.declared # None =>
          /\ r.remaining # None /\ q.remaining = r.remaining - len
          /\ r.remaining >= len
          /\ r.got + r.remaining = r.declared
    BY <1>1, <1>2, <1>3 DEF Good, LengthKept
  <2>3. LengthKept(q)
    BY <1>1, <1>2, <1>3, <2>2 DEF LengthKept
  <2>4. SmallPads => BodyKept(q)
    <3> SUFFICES ASSUME SmallPads PROVE BodyKept(q)
      OBVIOUS
    <3>1. r.remaining # None => r.remaining >= 0
      BY <1>1
    <3>2. r.got = r.body
      BY <1>1, <3>1 DEF Good, BodyKept
    <3>3. q.got = q.body
      BY <1>1, <1>2, <1>3, <3>2
    <3> QED
      BY <3>3 DEF BodyKept
  <2>5. Move(r, q)
    BY <1>1, <1>2, <1>3, <2>2 DEF Move, Hang
  <2> QED
    BY <1>2, <1>3, <2>1, <2>3, <2>4, <2>5 DEF Good
<1>4. SumFunction(r.pending) \in Int
      /\ SumFunction(Append(r.pending, len)) = SumFunction(r.pending) + len
  <2>1. r.pending \in Seq(Int) /\ len \in Int
    BY <1>1
  <2> QED
    BY <2>1, SumAppend
<1>5. ASSUME MaybeEndStream(s, ReturnCredit(g, len), end),
             connGranted' = connGranted + len
      PROVE  Result(s, r)
  <2> DEFINE q == ReturnCredit(g, len)
  <2>1. /\ q \in Stream /\ q.granted = r.granted + len /\ q.pending = r.pending
        /\ q.got = g.got /\ q.told = g.told /\ q.declared = g.declared
        /\ q.started = g.started /\ q.finished = g.finished /\ q.hung = g.hung
        /\ q.phase = g.phase /\ q.remaining = g.remaining /\ q.body = g.body
    <3>1. g.granted + len \in Nat /\ g.granted + len = r.granted + len
      BY <1>1, <1>2
    <3>2. q = [g EXCEPT !.granted = g.granted + len]
      BY DEF ReturnCredit
    <3> HIDE DEF q
    <3> QED
      BY <1>2, <3>1, <3>2 DEF Stream
  <2>2. MaybeEndStream(s, q, end)
    BY <1>5
  <2> HIDE DEF q
  <2>3. Owed(q) = Owed(r) /\ connGranted' = connGranted + (q.granted - r.granted)
    BY <1>1, <1>2, <1>4, <1>5, <2>1 DEF Owed
  <2>4. Good(q) /\ Move(r, q) /\ q.told # "finish"
    BY <1>3, <2>1
  <2> QED
    BY <1>1, <2>1, <2>2, <2>3, <2>4, MaybeEndStreamResult DEF Balanced
<1>6. ASSUME Crash(s, g), UNCHANGED connGranted PROVE Result(s, r)
  <2>1. ~open' /\ connGranted' = connGranted + (g.granted - r.granted)
    BY <1>1, <1>2, <1>6 DEF Crash
  <2>2. Good(g) /\ Move(r, g)
    BY <1>2, <1>3
  <2>3. Balanced(r, g)
    <3>1. Owed(g) = (r.got + len) - r.granted - SumFunction(r.pending)
          /\ Owed(r) = r.got - r.granted - SumFunction(r.pending)
      BY <1>2 DEF Owed
    <3> QED
      BY <1>1, <1>4, <2>1, <3>1 DEF Balanced
  <2> QED
    BY <1>2, <1>6, <2>1, <2>2, <2>3, EndResult DEF Ends
<1>7. ASSUME MaybeEndStream(s, [g EXCEPT !.pending = Append(@, len)], end),
             UNCHANGED connGranted
      PROVE  Result(s, r)
  <2> DEFINE q == [g EXCEPT !.pending = Append(@, len)]
  <2>0. Append(r.pending, len) \in Seq(Nat \ {0})
    BY <1>1
  <2>1. /\ q \in Stream /\ q.granted = r.granted /\ q.pending = Append(r.pending, len)
        /\ q.got = g.got /\ q.told = g.told /\ q.declared = g.declared
        /\ q.started = g.started /\ q.finished = g.finished /\ q.hung = g.hung
        /\ q.phase = g.phase /\ q.remaining = g.remaining /\ q.body = g.body
    BY <1>2, <2>0 DEF Stream
  <2>2. MaybeEndStream(s, q, end)
    BY <1>7
  <2> HIDE DEF q
  <2>3. Owed(q) = Owed(r) /\ connGranted' = connGranted + (q.granted - r.granted)
    BY <1>1, <1>2, <1>4, <1>7, <2>1 DEF Owed
  <2>4. Good(q) /\ Move(r, q) /\ q.told # "finish"
    BY <1>3, <2>1
  <2> QED
    BY <1>1, <2>1, <2>2, <2>3, <2>4, MaybeEndStreamResult DEF Balanced
<1> QED
  BY <1>5, <1>6, <1>7 DEF Deliver, g

LEMMA HandleDataResult ==
  ASSUME NEW s \in Ids, stream[s] \in Stream, Good(stream[s]), ~stream[s].finished,
         NEW n \in Nat, NEW pad \in Pads, NEW end \in BOOLEAN,
         connGranted \in Nat, open \in BOOLEAN,
         HandleData(s, n, pad, end)
  PROVE  Result(s, stream[s])
<1> DEFINE r == stream[s]
           len == Unpadded(n, pad)
           b == [r EXCEPT !.phase = "BODY"]
           c == [b EXCEPT !.remaining = IF @ = None THEN None ELSE @ - len,
                          !.body = @ + n]
           tooLong == c.remaining # None /\ c.remaining < 0
<1>1. /\ r \in Stream /\ Good(r) /\ r.told # "finish"
      /\ r.got \in Nat /\ r.body \in Nat /\ None \notin Int
      /\ r.remaining \in Int \cup {None} /\ r.declared \in Nat \cup {None}
  BY ConstantsAssumption DEF Good, DelegateKept, Stream
<1>2. len \in Nat /\ (SmallPads => len = n)
  BY UnpaddedSize
<1> HIDE DEF len
<1>3. /\ b \in Stream /\ SameView(r, b) /\ SameCredit(r, b)
      /\ b.started = r.started /\ b.finished = r.finished /\ b.hung = r.hung
      /\ b.remaining = r.remaining /\ b.body = r.body /\ b.phase = "BODY"
  BY <1>1 DEF Stream, SameView, SameCredit
<1>4. /\ c \in Stream /\ SameView(r, c) /\ SameCredit(r, c)
      /\ c.started = r.started /\ c.finished = r.finished /\ c.hung = r.hung
      /\ c.phase = "BODY" /\ c.body = r.body + n
      /\ c.remaining = IF r.remaining = None THEN None ELSE r.remaining - len
  <2> DEFINE left == IF r.remaining = None THEN None ELSE r.remaining - len
  <2>1. left \in Int \cup {None} /\ r.body + n \in Nat
    BY <1>1, <1>2
  <2>2. c = [b EXCEPT !.remaining = left, !.body = r.body + n]
    BY <1>3
  <2> HIDE DEF b, c, left
  <2>3. /\ c \in Stream /\ c.remaining = left /\ c.body = r.body + n
        /\ c.told = b.told /\ c.declared = b.declared /\ c.got = b.got
        /\ c.granted = b.granted /\ c.pending = b.pending
        /\ c.started = b.started /\ c.finished = b.finished /\ c.hung = b.hung
        /\ c.phase = b.phase
    BY <1>3, <2>1, <2>2 DEF Stream
  <2> QED
    BY <1>3, <2>3 DEF SameView, SameCredit, left
<1>5. CASE FailConn(s, r) /\ UNCHANGED connGranted
  <2>1. Touched(r, r)
    BY DEF Touched, SameView, SameCredit, Hang
  <2> QED
    BY <1>1, <1>5, <2>1, TouchedMoves, CreditAlone, EndResult DEF Ends, Touched, Balanced
<1>6. CASE (FailStream(s, b) \/ Crash(s, b)) /\ UNCHANGED connGranted
  <2> HIDE DEF b
  <2>1. Touched(r, b)
    BY <1>3 DEF Touched, Hang
  <2>2. Good(b)
    BY <1>1, <1>3, TouchedIsGood
  <2> QED
    BY <1>1, <1>3, <1>6, <2>1, <2>2, TouchedMoves, CreditAlone, EndResult DEF Ends, Touched, Balanced
\* Data that is not delivered ends a message only if it is empty, unless there is none.
<1>7. ASSUME UNCHANGED connGranted,
             tooLong \/ ~Delivers(s, len),
             FailStream(s, c) \/ MaybeEndStream(s, c, end),
             tooLong => FailStream(s, c)
      PROVE  Result(s, r)
  <2> HIDE DEF c
  <2>1. Touched(r, c) /\ c.told # "finish"
    BY <1>1, <1>4 DEF Touched, Hang, SameView
  <2>2. DelegateKept(c)
    BY <1>1, <1>4 DEF Good, DelegateKept, SameView
  <2>3. LengthKept(c)
    <3>1. c.got = r.got /\ c.told = r.told /\ c.declared = r.declared
      BY <1>4 DEF SameView
    <3>2. ASSUME c.told = "headers", c.declared # None
          PROVE  c.remaining # None /\ (c.remaining >= 0 => c.got + c.remaining = c.declared)
      <4>1. r.remaining # None /\ (r.remaining >= 0 => r.got + r.remaining = r.declared)
        BY <1>1, <3>1, <3>2 DEF Good, LengthKept
      <4>2. c.remaining = r.remaining - len
        BY <1>4, <4>1
      <4>3. c.remaining >= 0 => len = 0
        <5>1. r.started = TRUE
          BY <1>1, <3>1, <3>2 DEF Good, DelegateKept, Stream
        <5> QED
          BY <1>1, <1>2, <1>7, <4>1, <4>2, <5>1 DEF Delivers
      <4> QED
        BY <1>1, <1>2, <3>1, <4>1, <4>2, <4>3
    <3> QED
      BY <1>1, <3>1, <3>2 DEF Good, LengthKept
  <2>4. SmallPads => BodyKept(c)
    <3> SUFFICES ASSUME SmallPads, c.told = "headers",
                        c.remaining # None => c.remaining >= 0
                 PROVE  c.got = c.body
      BY <2>1 DEF BodyKept
    <3>1. r.started = TRUE /\ r.told = "headers"
      BY <1>1, <1>4 DEF Good, DelegateKept, SameView, Stream
    <3>2. len = 0
      <4>1. c.remaining \in Int \cup {None}
        BY <1>4 DEF Stream
      <4>2. ~tooLong
        BY <1>1, <4>1
      <4> QED
        BY <1>2, <1>7, <3>1, <4>2 DEF Delivers
    <3>3. r.remaining # None => r.remaining >= 0
      BY <1>1, <1>4, <3>2
    <3> QED
      BY <1>1, <1>2, <1>4, <3>1, <3>2, <3>3 DEF Good, BodyKept, SameView
  <2>5. Good(c)
    BY <1>4, <2>2, <2>3, <2>4 DEF Good
  <2>6. Move(r, c) /\ Owed(c) = Owed(r) /\ connGranted' = connGranted + (c.granted - r.granted)
    BY <1>1, <1>4, <1>7, <2>1, TouchedMoves, CreditAlone
  <2>7. CASE FailStream(s, c)
    BY <1>1, <1>4, <2>5, <2>6, <2>7, EndResult DEF Ends, Balanced
  <2>8. CASE MaybeEndStream(s, c, end)
    BY <1>1, <1>4, <2>1, <2>5, <2>6, <2>8, MaybeEndStreamResult DEF Balanced
  <2> QED
    BY <1>7, <2>7, <2>8
<1>8. ASSUME ~tooLong, Delivers(s, len), Deliver(s, c, len, end)
      PROVE  Result(s, r)
  <2>1. len \in Nat \ {0} /\ r.started = TRUE
    BY <1>1, <1>2, <1>8 DEF Delivers, Stream
  <2> HIDE DEF c
  <2> QED
    BY <1>1, <1>2, <1>4, <1>8, <2>1, DeliverResult
<1> QED
  <2> HIDE DEF r
  <2> QED
    BY <1>5, <1>6, <1>7, <1>8 DEF HandleData, len, r
-----------------------------------------------------------------------------
(* What a step of one stream does to the others and to the connection.     *)

Loops == {"preface", "reading", "rst", "goaway", "ended"}

\* The step of one stream is one of Message, or none.
LEMMA MoveIsMessage ==
  ASSUME TypeOK, NEW s \in Ids, NEW q \in Stream, Move(stream[s], q),
         stream' = [stream EXCEPT ![s] = q]
  PROVE  [DelegateView!Next]_(DelegateView!message)
<1> DEFINE r == stream[s]
           told == [t \in Ids |-> stream[t].told]
           declared == [t \in Ids |-> stream[t].declared]
           got == [t \in Ids |-> stream[t].got]
           hung == [t \in Ids |-> stream[t].hung]
<1>1. /\ told' = [told EXCEPT ![s] = q.told]
      /\ declared' = [declared EXCEPT ![s] = q.declared]
      /\ got' = [got EXCEPT ![s] = q.got]
      /\ hung' = [hung EXCEPT ![s] = q.hung]
  BY DEF TypeOK
<1>2. /\ told[s] = r.told /\ declared[s] = r.declared
      /\ got[s] = r.got /\ hung[s] = r.hung
  OBVIOUS
<1>3. /\ told'[s] = q.told /\ declared'[s] = q.declared
      /\ got'[s] = q.got /\ hung'[s] = q.hung
  BY <1>1
<1>4. /\ q.told = r.told => told' = told
      /\ q.declared = r.declared => declared' = declared
      /\ q.got = r.got => got' = got
      /\ q.hung = r.hung => hung' = hung
  BY <1>1, <1>2
<1>5. r \in Stream
  BY DEF TypeOK
<1> HIDE DEF told, declared, got, hung, r
<1>6. hung' = hung \/ (r.told # "finish" /\ hung' = [hung EXCEPT ![s] = TRUE])
  BY <1>1, <1>4 DEF Move, Hang, r
<1>7. \/ SameView(r, q)
      \/ /\ told[s] # "finish" /\ got[s] = 0
         /\ told' = [told EXCEPT ![s] = "headers"]
         /\ declared' = [declared EXCEPT ![s] = declared'[s]]
         /\ got' = got
      \/ /\ told[s] = "headers" /\ got'[s] > got[s]
         /\ declared[s] # None => got'[s] <= declared[s]
         /\ got' = [got EXCEPT ![s] = got'[s]]
         /\ told' = told /\ declared' = declared
      \/ /\ told[s] # "finish"
         /\ told' = [told EXCEPT ![s] = "finish"]
         /\ \/ declared' = declared
            \/ got[s] = 0 /\ declared' = [declared EXCEPT ![s] = declared'[s]]
         /\ \/ got' = got
            \/ told[s] = "headers" /\ got'[s] > got[s] /\ got' = [got EXCEPT ![s] = got'[s]]
         /\ declared'[s] \in {None, got'[s]}
  BY <1>1, <1>2, <1>3, <1>4 DEF Move, r
<1> QED
  BY <1>2, <1>4, <1>6, <1>7 DEF told, declared, got, hung, SameView,
     DelegateView!Next, DelegateView!message, DelegateView!Headers, DelegateView!Data,
     DelegateView!Finish, DelegateView!HangUp

\* The credit of the connection is that of the streams, before and after.
LEMMA GrantedSum ==
  ASSUME TypeOK, NEW s \in Ids, NEW q \in Stream, stream' = [stream EXCEPT ![s] = q],
         connGranted = SumFunction(Granted),
         connGranted' = connGranted + (q.granted - stream[s].granted)
  PROVE  connGranted' = SumFunction(Granted)' /\ connGranted' \in Nat
<1> DEFINE after == [t \in Ids |-> stream'[t].granted]
<1>1. \A t \in Ids : stream[t] \in Stream /\ stream'[t] \in Stream
  BY DEF TypeOK
<1>2. \A t \in Ids : Granted[t] \in Nat /\ after[t] \in Nat
  BY <1>1 DEF Granted, Stream
<1>3. /\ \A t \in Ids \ {s} : Granted[t] = after[t]
      /\ Granted[s] = stream[s].granted /\ after[s] = q.granted
      /\ DOMAIN Granted = Ids /\ DOMAIN after = Ids
      /\ Granted' = after
  BY DEF Granted, TypeOK
<1> HIDE DEF after
<1>4. IsFiniteSet(Ids)
  BY ConstantsAssumption
<1>5. SumFunctionOnSet(after, Ids) =
        SumFunctionOnSet(Granted, Ids) - Granted[s] + after[s]
  <2>1. \A t \in Ids : Granted[t] \in Int /\ after[t] \in Int
    BY <1>2
  <2> QED
    BY <1>3, <1>4, <2>1, SumUpdate
<1>6. SumFunctionOnSet(after, Ids) \in Nat /\ SumFunctionOnSet(Granted, Ids) \in Nat
  BY <1>2, <1>4, SumNat
<1>7. Granted[s] \in Nat /\ after[s] \in Nat
  BY <1>2
<1>8. SumFunction(Granted)' = SumFunctionOnSet(after, Ids)
      /\ SumFunction(Granted) = SumFunctionOnSet(Granted, Ids)
  BY <1>3 DEF SumFunction
<1> QED
  BY <1>3, <1>5, <1>6, <1>7, <1>8

\* What the step of one stream leaves behind.
Stepped(s) ==
  /\ stream' \in [Ids -> Stream]
  /\ \A t \in Ids : Good(stream[t])'
  /\ \A t \in Ids \ {s} : stream'[t] = stream[t]
  /\ open' \in BOOLEAN
  /\ loop' \in {loop, "rst", "goaway", "ended"}
  /\ connGranted' \in Nat
  /\ CreditKept'
  /\ [DelegateView!Next]_(DelegateView!message)

LEMMA StreamStep ==
  ASSUME IInv, NEW s \in Ids, Result(s, stream[s])
  PROVE  Stepped(s)
<1>1. PICK q \in Stream :
        /\ Ends(s, q)
        /\ Good(q)
        /\ Move(stream[s], q)
        /\ Balanced(stream[s], q)
        /\ connGranted' = connGranted + (q.granted - stream[s].granted)
  BY DEF Result
<1>2. TypeOK
  BY DEF IInv
<1>3. /\ stream' = [stream EXCEPT ![s] = q]
      /\ open' \in BOOLEAN /\ (open' => open)
      /\ loop' \in {loop, "rst", "goaway", "ended"}
  <2>1. open \in BOOLEAN
    BY <1>2 DEF TypeOK
  <2>2. CASE Continue(s, q)
    BY <2>1, <2>2 DEF Continue
  <2>3. CASE FailStream(s, q)
    BY <2>1, <2>3 DEF FailStream
  <2>4. CASE FailConn(s, q)
    BY <2>1, <2>4 DEF FailConn
  <2>5. CASE Crash(s, q)
    BY <2>1, <2>5 DEF Crash
  <2> QED
    BY <1>1, <2>2, <2>3, <2>4, <2>5 DEF Ends
<1>4. /\ stream' \in [Ids -> Stream]
      /\ stream'[s] = q
      /\ \A t \in Ids \ {s} : stream'[t] = stream[t]
  BY <1>2, <1>3 DEF TypeOK
<1>5. \A t \in Ids : Good(stream'[t])
  BY <1>1, <1>4 DEF IInv
<1>6. connGranted' = SumFunction(Granted)' /\ connGranted' \in Nat
  BY <1>1, <1>2, <1>3, GrantedSum DEF IInv, CreditKept
<1>7. /\ open' => \A t \in Ids : Owed(stream'[t]) = 0
      /\ \A t \in Ids : Owed(stream'[t]) >= 0
  <2>1. Owed(q) \in Int /\ Owed(stream[s]) \in Int
    BY <1>1, <1>2, OwedInt DEF TypeOK
  <2>2. Owed(stream[s]) >= 0 /\ (open' => Owed(stream[s]) = 0)
    BY <1>3 DEF IInv, CreditKept
  <2>3. Owed(q) >= 0 /\ (open' => Owed(q) = 0)
    BY <1>1, <2>1, <2>2 DEF Balanced
  <2> QED
    BY <1>3, <1>4, <2>3 DEF IInv, CreditKept
<1>8. [DelegateView!Next]_(DelegateView!message)
  BY <1>1, <1>2, <1>3, MoveIsMessage
<1>9. (\A t \in Ids : Good(stream[t]))' /\ CreditKept'
  BY <1>5, <1>6, <1>7 DEF CreditKept, Good, DelegateKept, LengthKept, BodyKept, SmallPads, Owed
<1> QED
  BY <1>3, <1>4, <1>6, <1>8, <1>9 DEF Stepped

\* A frame that the rule on CONTINUATION lets pass leaves no other block open.
LEMMA FrameKeepsInv ==
  ASSUME IInv, NEW s \in Ids, NEW c \in BOOLEAN, Admitted(c, s), last' = s,
         Stepped(s), known' = known \cup {s}, undecoded' \in BOOLEAN,
         UNCHANGED <<isClient, upgraded, nextId>>,
         maxRemote' \in Ids \cup {0}, IdsAreBounded'
  PROVE  IInv'
<1>1. TypeOK'
  BY DEF TypeOK, IInv, Stepped
<1>2. (\A t \in Ids : Good(stream[t]))' /\ CreditKept'
  BY DEF Stepped
<1>3. (\A t \in Ids \ known : stream[t] = NewStream)'
  BY DEF Stepped, IInv, NewStream
<1>4. BlockIsLast'
  <2> SUFFICES ASSUME NEW t \in Ids, stream'[t].block # "none", t # s PROVE FALSE
    BY DEF BlockIsLast
  <2>1. stream[t].block # "none" /\ loop = "reading"
    BY DEF Stepped, Admitted
  <2>2. last = t
    BY <2>1 DEF IInv, BlockIsLast
  <2>3. last # None
    BY <2>2, ConstantsAssumption
  <2>4. NeedsContinuation
    BY <2>1, <2>2, <2>3, Zenon DEF NeedsContinuation
  <2> QED
    BY <2>2, <2>4 DEF Admitted
<1> QED
  BY <1>1, <1>2, <1>3, <1>4 DEF IInv

\* A step that changes no stream.
Quiet ==
  /\ UNCHANGED <<last, stream, connGranted>>
  /\ undecoded' \in BOOLEAN
  /\ open' \in BOOLEAN /\ (open' => open)
  /\ loop' \in Loops
  /\ loop' \notin {"goaway", "ended"} => loop \notin {"goaway", "ended"}

LEMMA QuietKeepsInv ==
  ASSUME IInv, Quiet, UNCHANGED <<isClient, upgraded, maxRemote>>, known \subseteq known',
         known' \subseteq Ids, nextId' \in Nat, IdsAreBounded'
  PROVE  IInv'
<1>1. TypeOK'
  BY DEF IInv, TypeOK, Quiet, Loops
<1>2. (\A t \in Ids : Good(stream[t]))'
  BY DEF IInv, Quiet, Good, DelegateKept, LengthKept, BodyKept, SmallPads, Owed
<1>3. CreditKept'
  BY DEF IInv, Quiet, CreditKept, Granted, Owed
<1>4. (\A t \in Ids \ known : stream[t] = NewStream)'
  BY DEF IInv, Quiet, NewStream
<1>5. BlockIsLast'
  BY DEF IInv, Quiet, BlockIsLast
<1> QED
  BY <1>1, <1>2, <1>3, <1>4, <1>5 DEF IInv

\* The same when the connection's own state does not change either.
LEMMA QuietUnchanged ==
  ASSUME IInv, Quiet, UNCHANGED conn
  PROVE  IInv'
<1>1. UNCHANGED <<isClient, upgraded, known, nextId, maxRemote>>
  BY DEF conn
<1>2. IdsAreBounded'
  BY <1>1 DEF IInv, IdsAreBounded, Local, HasDelegate
<1>3. known \subseteq known' /\ known' \subseteq Ids /\ nextId' \in Nat
  BY <1>1 DEF IInv, TypeOK
<1> QED
  BY <1>1, <1>2, <1>3, QuietKeepsInv
-----------------------------------------------------------------------------
(* The frames.                                                             *)

\* A stream that is not changed keeps its record.
LEMMA SameRecord ==
  ASSUME IInv, NEW s \in Ids, Ends(s, stream[s]), UNCHANGED connGranted
  PROVE  Result(s, stream[s])
<1>1. stream[s] \in Stream /\ Good(stream[s]) /\ connGranted \in Nat
  BY DEF IInv, TypeOK
<1>2. Touched(stream[s], stream[s])
  BY DEF Touched, SameView, SameCredit, Hang
<1> QED
  BY <1>1, <1>2, TouchedMoves, CreditAlone, EndResult DEF Touched, Balanced

KnownResult(s) ==
  /\ \E c \in BOOLEAN : Known(c, s)
  /\ Result(s, stream[s])
  /\ undecoded' \in BOOLEAN
  /\ UNCHANGED conn

LEMMA HeadersFrameResult ==
  ASSUME IInv, NEW s \in Ids, NEW endHeaders \in BOOLEAN, NEW endStream \in BOOLEAN,
         HeadersFrame(s, endHeaders, endStream)
  PROVE  KnownResult(s)
<1>1. Known(FALSE, s) /\ UNCHANGED conn /\ UNCHANGED connGranted
  BY DEF HeadersFrame
<1>2. /\ stream[s] \in Stream /\ Good(stream[s]) /\ connGranted \in Nat
      /\ isClient \in BOOLEAN /\ undecoded \in BOOLEAN
  BY ConstantsAssumption DEF IInv, TypeOK
<1>3. CASE FailStream(s, stream[s]) /\ undecoded' = TRUE
  BY <1>1, <1>3, SameRecord DEF Ends, KnownResult
<1>4. CASE /\ ~stream[s].finished
           /\ HandleHeaders(s, stream[s], endHeaders, endStream)
           /\ UNCHANGED undecoded
  BY <1>1, <1>2, <1>4, HandleHeadersResult DEF KnownResult
<1> QED
  BY <1>3, <1>4 DEF HeadersFrame

LEMMA ContinuationFrameResult ==
  ASSUME IInv, NEW s \in Ids, NEW endHeaders \in BOOLEAN, ContinuationFrame(s, endHeaders)
  PROVE  KnownResult(s)
<1>1. Known(TRUE, s) /\ UNCHANGED conn /\ UNCHANGED connGranted /\ UNCHANGED undecoded
  BY DEF ContinuationFrame
<1>2. /\ stream[s] \in Stream /\ Good(stream[s]) /\ connGranted \in Nat
      /\ isClient \in BOOLEAN /\ undecoded \in BOOLEAN
  BY ConstantsAssumption DEF IInv, TypeOK
<1>3. CASE FailStream(s, stream[s]) \/ FailConn(s, stream[s])
  BY <1>1, <1>2, <1>3, SameRecord DEF Ends, KnownResult
<1>4. ASSUME ~stream[s].finished, NEW size \in Grown(stream[s].block),
             AddFragment(s, [stream[s] EXCEPT !.block = size], endHeaders)
      PROVE  KnownResult(s)
  <2> DEFINE r == stream[s]
             q == [r EXCEPT !.block = size]
  <2>1. size \in {"small", "large"}
    BY DEF Grown
  <2>2. /\ q \in Stream /\ SameView(r, q) /\ SameCredit(r, q)
        /\ q.started = r.started /\ q.finished = r.finished /\ q.hung = r.hung
        /\ q.remaining = r.remaining /\ q.body = r.body /\ q.phase = r.phase
    BY <1>2, <2>1 DEF Stream, SameView, SameCredit
  <2>3. r.told # "finish"
    BY <1>2, <1>4 DEF Good, DelegateKept
  <2>4. AddFragment(s, q, endHeaders)
    BY <1>4
  <2> HIDE DEF q
  <2>5. Good(q) /\ Touched(r, q)
    BY <1>2, <2>2, TouchedIsGood DEF Touched, Hang
  <2>6. Result(s, r)
    BY <1>1, <1>2, <2>2, <2>3, <2>4, <2>5, AddFragmentResult
  <2> QED
    BY <1>1, <1>2, <2>6 DEF KnownResult
<1> QED
  BY <1>3, <1>4 DEF ContinuationFrame

LEMMA DataFrameResult ==
  ASSUME IInv, NEW s \in Ids, NEW n \in Nat, NEW pad \in Pads, NEW end \in BOOLEAN,
         DataFrame(s, n, pad, end)
  PROVE  KnownResult(s)
<1>1. Known(FALSE, s) /\ UNCHANGED conn /\ UNCHANGED undecoded
  BY DEF DataFrame
<1>2. /\ stream[s] \in Stream /\ Good(stream[s]) /\ connGranted \in Nat
      /\ open \in BOOLEAN /\ undecoded \in BOOLEAN
  BY DEF IInv, TypeOK
<1>3. CASE FailStream(s, stream[s]) /\ UNCHANGED connGranted
  BY <1>1, <1>2, <1>3, SameRecord DEF Ends, KnownResult
<1>4. CASE ~stream[s].finished /\ HandleData(s, n, pad, end)
  BY <1>1, <1>2, <1>4, HandleDataResult DEF KnownResult
<1> QED
  BY <1>3, <1>4 DEF DataFrame

LEMMA RstStreamFrameResult ==
  ASSUME IInv, NEW s \in Ids, RstStreamFrame(s)
  PROVE  KnownResult(s)
<1>1. Known(FALSE, s) /\ UNCHANGED conn /\ UNCHANGED connGranted /\ UNCHANGED undecoded
  BY DEF RstStreamFrame
<1>2. /\ stream[s] \in Stream /\ Good(stream[s]) /\ connGranted \in Nat
      /\ undecoded \in BOOLEAN
  BY DEF IInv, TypeOK
<1>3. CASE FailConn(s, stream[s])
  BY <1>1, <1>2, <1>3, SameRecord DEF Ends, KnownResult
<1>4. CASE Continue(s, [stream[s] EXCEPT !.hung = @ \/ stream[s].started])
  <2> DEFINE r == stream[s]
             h == r.hung \/ r.started
             q == [r EXCEPT !.hung = h]
  <2>1. h \in BOOLEAN /\ (h # r.hung => h = TRUE /\ r.started = TRUE)
    BY <1>2 DEF Stream
  <2>2. Continue(s, q)
    BY <1>4
  <2> HIDE DEF h
  <2>3. /\ q \in Stream /\ SameView(r, q) /\ SameCredit(r, q)
        /\ q.started = r.started /\ q.finished = r.finished /\ q.hung = h
        /\ q.remaining = r.remaining /\ q.body = r.body /\ q.phase = r.phase
    BY <1>2, <2>1 DEF Stream, SameView, SameCredit
  <2> HIDE DEF q
  <2>4. Good(q)
    BY <1>2, <2>3, TouchedIsGood
  <2>5. Touched(r, q)
    BY <1>2, <2>1, <2>3 DEF Touched, Hang, Good, DelegateKept
  <2>6. Result(s, r)
    BY <1>1, <1>2, <2>2, <2>3, <2>4, <2>5, TouchedMoves, CreditAlone, EndResult
       DEF Touched, Ends, Balanced
  <2> QED
    BY <1>1, <1>2, <2>6 DEF KnownResult
<1> QED
  BY <1>3, <1>4 DEF RstStreamFrame

LEMMA OtherFrameResult ==
  ASSUME IInv, NEW s \in Ids, NEW type, OtherFrame(s, type)
  PROVE  KnownResult(s)
<1>1. Known(FALSE, s) /\ UNCHANGED conn /\ UNCHANGED connGranted /\ UNCHANGED undecoded
  BY DEF OtherFrame
<1>2. undecoded \in BOOLEAN
  BY DEF IInv, TypeOK
<1>3. Ends(s, stream[s])
  BY DEF OtherFrame, Ends
<1> QED
  BY <1>1, <1>2, <1>3, SameRecord DEF KnownResult

\* A frame of a stream that exists.
LEMMA KnownKeepsInv ==
  ASSUME IInv, NEW s \in Ids, KnownResult(s)
  PROVE  IInv' /\ [DelegateView!Next]_(DelegateView!message)
<1>1. PICK c \in BOOLEAN : Known(c, s)
  BY DEF KnownResult
<1>2. Stepped(s)
  BY StreamStep DEF KnownResult
<1>3. /\ known' = known /\ known' = known \cup {s} /\ maxRemote' = maxRemote
      /\ UNCHANGED <<isClient, upgraded, nextId>> /\ last' = s /\ Admitted(c, s)
      /\ undecoded' \in BOOLEAN
  BY <1>1 DEF KnownResult, Known, conn
<1>4. IdsAreBounded' /\ maxRemote' \in Ids \cup {0}
  BY <1>3 DEF IInv, IdsAreBounded, Local, HasDelegate, TypeOK
<1>5. IInv'
  BY <1>2, <1>3, <1>4, FrameKeepsInv
<1> QED
  BY <1>2, <1>5 DEF Stepped

\* A server opens a stream, which is in its initial state until then.
LEMMA CreateKeepsInv ==
  ASSUME IInv, NEW s \in Ids, NEW endHeaders \in BOOLEAN, NEW endStream \in BOOLEAN,
         CreateOnHeaders(s, endHeaders, endStream)
  PROVE  IInv' /\ [DelegateView!Next]_(DelegateView!message)
<1>1. /\ Admitted(FALSE, s) /\ ~Local(s) /\ s \in Ids \ known
      /\ maxRemote' = LargestRemote(s) /\ known' = known \cup {s} /\ last' = s
      /\ HandleHeaders(s, NewStream, endHeaders, endStream)
      /\ UNCHANGED <<isClient, upgraded, nextId, connGranted, undecoded>>
  BY DEF CreateOnHeaders
<1>2. stream[s] = NewStream
  BY <1>1 DEF IInv
<1>3. /\ stream[s] \in Stream /\ Good(stream[s]) /\ ~stream[s].finished
      /\ isClient \in BOOLEAN /\ connGranted \in Nat /\ undecoded' \in BOOLEAN
      /\ maxRemote \in Ids \cup {0} /\ Ids \subseteq Nat
  <2>1. stream[s] \in Stream /\ Good(stream[s])
    BY <1>1 DEF IInv, TypeOK
  <2>2. ~NewStream.finished
    BY DEF NewStream
  <2>3. isClient \in BOOLEAN /\ connGranted \in Nat /\ undecoded' \in BOOLEAN
        /\ maxRemote \in Ids \cup {0} /\ Ids \subseteq Nat
    BY <1>1, ConstantsAssumption DEF IInv, TypeOK
  <2> QED
    BY <1>2, <2>1, <2>2, <2>3
<1>4. Result(s, stream[s])
  BY <1>1, <1>2, <1>3, HandleHeadersResult
<1>5. Stepped(s)
  BY <1>4, StreamStep
<1>6. maxRemote' \in Ids \cup {0} /\ maxRemote <= maxRemote' /\ s <= maxRemote'
  BY <1>1, <1>3 DEF LargestRemote
<1>7. IdsAreBounded'
  <2> SUFFICES ASSUME NEW t \in known'
               PROVE  IF Local(t)' THEN t < nextId' ELSE t <= maxRemote' \/ ~HasDelegate(t)
    BY <1>1 DEF IInv, IdsAreBounded, HasDelegate
  <2>1. Local(t)' = Local(t)
    BY <1>1 DEF Local
  <2>2. CASE t = s
    BY <1>1, <1>6, <2>1, <2>2
  <2>3. CASE t \in known
    <3>1. t \in Nat /\ maxRemote \in Nat /\ maxRemote' \in Nat
      BY <1>3, <1>6, <2>3 DEF IInv, TypeOK
    <3>2. IF Local(t) THEN t < nextId ELSE t <= maxRemote \/ ~HasDelegate(t)
      BY <2>3 DEF IInv, IdsAreBounded
    <3>3. nextId' = nextId
      BY <1>1
    <3>4. CASE Local(t)
      BY <2>1, <3>2, <3>3, <3>4
    <3>5. CASE ~Local(t)
      BY <1>6, <2>1, <3>1, <3>2, <3>5
    <3> QED
      BY <3>4, <3>5
  <2> QED
    BY <1>1, <2>2, <2>3
<1>8. IInv'
  BY <1>1, <1>3, <1>5, <1>6, <1>7, FrameKeepsInv
<1> QED
  BY <1>5, <1>8 DEF Stepped
-----------------------------------------------------------------------------
(* The other steps.                                                        *)

\* Consumed data is no longer owed, neither by the stream nor by the connection.
LEMMA DataConsumedKeepsInv ==
  ASSUME IInv, NEW s \in Ids, NEW i \in DOMAIN stream[s].pending, DataConsumed(s, i)
  PROVE  IInv' /\ [DelegateView!Next]_(DelegateView!message)
<1> DEFINE r == stream[s]
           n == r.pending[i]
           rest == [r EXCEPT !.pending = RemoveAt(@, i)]
<1>1. /\ r \in Stream /\ Good(r) /\ r.pending \in Seq(Nat \ {0}) /\ r.granted \in Nat
      /\ r.got \in Nat /\ connGranted \in Nat /\ open \in BOOLEAN
  BY DEF IInv, TypeOK, Stream
<1>2. i \in 1 .. Len(r.pending) /\ n \in Nat \ {0}
  BY <1>1
<1>3. /\ RemoveAt(r.pending, i) \in Seq(Nat \ {0})
      /\ SumFunction(RemoveAt(r.pending, i)) = SumFunction(r.pending) - n
      /\ SumFunction(r.pending) \in Int
  <2>1. r.pending \in Seq(Int)
    BY <1>1
  <2>2. SumFunction(RemoveAt(r.pending, i)) = SumFunction(r.pending) - n
    BY <1>2, <2>1, SumRemoveAt
  <2>3. SumFunction(r.pending) \in Int
    BY <2>1, SumSeqInt
  <2>4. RemoveAt(r.pending, i) \in Seq(Nat \ {0})
    BY <1>1, <1>2, RemoveAtIn
  <2> QED
    BY <2>2, <2>3, <2>4
<1>4. /\ rest \in Stream /\ rest.pending = RemoveAt(r.pending, i)
      /\ SameView(r, rest) /\ rest.granted = r.granted /\ rest.block = r.block
      /\ rest.started = r.started /\ rest.finished = r.finished /\ rest.hung = r.hung
      /\ rest.remaining = r.remaining /\ rest.body = r.body /\ rest.phase = r.phase
  BY <1>1, <1>3 DEF Stream, SameView
<1> HIDE DEF n, rest
<1>5. ASSUME NEW q \in Stream, SameView(r, q), q.block = r.block,
             q.started = r.started, q.finished = r.finished, q.hung = r.hung,
             q.remaining = r.remaining, q.body = r.body, q.phase = r.phase,
             Continue(s, q),
             Balanced(r, q),
             connGranted' = connGranted + (q.granted - r.granted)
      PROVE  IInv' /\ [DelegateView!Next]_(DelegateView!message)
  <2>1. Good(q)
    BY <1>1, <1>5 DEF Good, DelegateKept, LengthKept, BodyKept, SameView
  <2>2. Move(r, q)
    BY <1>5 DEF Move, Hang
  <2>3. Stepped(s)
    BY <1>1, <1>5, <2>1, <2>2, EndResult, StreamStep DEF Ends
  <2>4. UNCHANGED <<conn, last, undecoded, open, loop>>
    BY <1>5 DEF DataConsumed, Continue
  <2>5. IdsAreBounded'
    BY <2>4 DEF IInv, IdsAreBounded, Local, HasDelegate, conn
  <2>6. TypeOK'
    BY <2>3, <2>4 DEF IInv, TypeOK, Stepped, conn
  <2>7. \A t \in Ids : stream'[t].block = stream[t].block
    BY <1>5, <2>3 DEF Stepped, Continue, IInv, TypeOK
  <2>8. BlockIsLast'
    BY <2>4, <2>7 DEF IInv, BlockIsLast
  <2>9. (\A t \in Ids \ known : stream[t] = NewStream)'
    <3>1. s \in known
      <4>1. NewStream.pending = <<>>
        BY DEF NewStream
      <4> QED
        BY <1>2, <4>1 DEF IInv
    <3> QED
      BY <2>3, <2>4, <3>1 DEF Stepped, IInv, NewStream, conn
  <2> QED
    BY <2>3, <2>5, <2>6, <2>8, <2>9 DEF IInv, Stepped
<1>6. CASE open
  <2> DEFINE q == ReturnCredit(rest, n)
  <2>1. Continue(s, q) /\ connGranted' = connGranted + n
    BY <1>6 DEF DataConsumed, n, rest
  <2>2. /\ q \in Stream /\ q.pending = rest.pending /\ q.granted = r.granted + n
        /\ SameView(r, q) /\ q.block = r.block
        /\ q.started = r.started /\ q.finished = r.finished /\ q.hung = r.hung
        /\ q.remaining = r.remaining /\ q.body = r.body /\ q.phase = r.phase
    <3>1. rest.granted + n \in Nat /\ rest.granted + n = r.granted + n
      BY <1>1, <1>2, <1>4
    <3>2. q = [rest EXCEPT !.granted = rest.granted + n]
      BY DEF ReturnCredit
    <3> HIDE DEF q
    <3> QED
      BY <1>4, <3>1, <3>2 DEF Stream, SameView
  <2> HIDE DEF q
  <2>3. Owed(q) = Owed(r) /\ connGranted' = connGranted + (q.granted - r.granted)
    <3>1. /\ q.got = r.got /\ q.granted = r.granted + n
          /\ SumFunction(q.pending) = SumFunction(r.pending) - n
      BY <1>3, <1>4, <2>2 DEF SameView
    <3>2. q.granted - r.granted = n
      BY <1>1, <1>2, <3>1
    <3>3. Owed(q) = r.got - (r.granted + n) - (SumFunction(r.pending) - n)
          /\ Owed(r) = r.got - r.granted - SumFunction(r.pending)
      BY <3>1 DEF Owed
    <3>4. Owed(q) = Owed(r)
      <4> DEFINE sum == SumFunction(r.pending)
      <4>1. sum \in Int
        BY <1>3
      <4> HIDE DEF sum
      <4> QED
        BY <1>1, <1>2, <3>3, <4>1 DEF sum
    <3> QED
      BY <2>1, <3>2, <3>4
  <2> QED
    BY <1>5, <2>1, <2>2, <2>3 DEF Balanced
<1>7. CASE ~open
  <2>1. Continue(s, rest) /\ UNCHANGED connGranted /\ ~open'
    BY <1>7 DEF DataConsumed, n, rest, Continue
  <2>2. connGranted' = connGranted + (rest.granted - r.granted)
    BY <1>1, <1>4, <2>1
  <2>3. Balanced(r, rest)
    <3>1. Owed(rest) = r.got - r.granted - (SumFunction(r.pending) - n)
          /\ Owed(r) = r.got - r.granted - SumFunction(r.pending)
      BY <1>3, <1>4 DEF Owed, SameView
    <3> QED
      BY <1>1, <1>2, <1>3, <2>1, <3>1 DEF Balanced
  <2> QED
    BY <1>4, <1>5, <2>1, <2>2, <2>3
<1> QED
  BY <1>6, <1>7

\* The steps that change no stream: rejected and discarded frames, those of stream 0,
\* and what the loop and the connection do by themselves.
LEMMA QuietSteps ==
  ASSUME IInv,
         \/ RefusedFrame \/ OversizedFrame
         \/ \E s \in Ids, type \in Types : UnknownStreamFrame(s, type)
         \/ \E ack \in BOOLEAN : SettingsFrame(ack) \/ PingFrame(ack)
         \/ \E type \in {"WINDOW_UPDATE", "UNKNOWN", "STREAM", "GOAWAY"} : ConnFrame(type)
         \/ Preface \/ LoopFlushed \/ LoopFails \/ Close
  PROVE  Quiet /\ UNCHANGED conn
<1> USE DEF Quiet, Loops
<1>1. /\ open \in BOOLEAN /\ undecoded \in BOOLEAN
      /\ loop \in {"preface", "reading", "rst", "goaway", "ended"}
  BY DEF IInv, TypeOK
<1>2. CASE RefusedFrame
  BY <1>1, <1>2 DEF RefusedFrame, Reject
<1>3. CASE OversizedFrame
  BY <1>1, <1>3 DEF OversizedFrame, Reject
<1>4. ASSUME NEW s \in Ids, NEW type \in Types, UnknownStreamFrame(s, type)
      PROVE  Quiet /\ UNCHANGED conn
  <2>1. /\ loop = "reading" /\ UNCHANGED <<conn, last, connGranted, undecoded>>
        /\ Reject \/ Ignore \/ FailStream(s, stream[s])
    BY <1>4 DEF UnknownStreamFrame, Admitted
  <2>2. stream' = stream /\ open' = open /\ loop' \in {"reading", "rst", "goaway", "ended"}
    BY <2>1 DEF Reject, Ignore, FailStream, IInv, TypeOK
  <2> QED
    BY <1>1, <2>1, <2>2
<1>5. ASSUME NEW ack \in BOOLEAN, SettingsFrame(ack) \/ PingFrame(ack)
      PROVE  Quiet /\ UNCHANGED conn
  <2>1. /\ loop = "reading" /\ UNCHANGED <<conn, last, connGranted, undecoded>>
        /\ Ignore \/ Reject \/ Stop
    BY <1>5 DEF SettingsFrame, PingFrame, Admitted
  <2>2. stream' = stream /\ loop' \in {"reading", "rst", "goaway", "ended"}
    BY <1>1, <2>1 DEF Reject, Ignore, Stop
  <2>3. open' \in BOOLEAN /\ (open' => open)
    <3>1. CASE Ignore \/ Reject
      BY <1>1, <3>1 DEF Reject, Ignore
    <3>2. CASE Stop
      BY <3>2 DEF Stop
    <3> QED
      BY <2>1, <3>1, <3>2
  <2> QED
    BY <1>1, <2>1, <2>2, <2>3
<1>6. ASSUME NEW type, ConnFrame(type)
      PROVE  Quiet /\ UNCHANGED conn
  <2>1. /\ loop = "reading" /\ UNCHANGED <<conn, last, connGranted, undecoded>>
        /\ Ignore \/ Reject \/ Stop
    BY <1>6 DEF ConnFrame, Admitted
  <2>2. stream' = stream /\ loop' \in {"reading", "rst", "goaway", "ended"}
    BY <1>1, <2>1 DEF Reject, Ignore, Stop
  <2>3. open' \in BOOLEAN /\ (open' => open)
    <3>1. CASE Ignore \/ Reject
      BY <1>1, <3>1 DEF Reject, Ignore
    <3>2. CASE Stop
      BY <3>2 DEF Stop
    <3> QED
      BY <2>1, <3>1, <3>2
  <2> QED
    BY <1>1, <2>1, <2>2, <2>3
<1>7. CASE Preface
  BY <1>1, <1>7 DEF Preface
<1>8. CASE LoopFlushed
  BY <1>1, <1>8 DEF LoopFlushed
<1>9. CASE LoopFails
  BY <1>1, <1>9 DEF LoopFails
<1>10. CASE Close
  BY <1>1, <1>10 DEF Close
<1> QED
  BY <1>2, <1>3, <1>4, <1>5, <1>6, <1>7, <1>8, <1>9, <1>10

\* The client takes the next of its identifiers.
LEMMA CreateStreamKeepsInv ==
  ASSUME IInv, CreateStream
  PROVE  Quiet /\ IInv'
<1>1. /\ nextId \in Ids /\ known' = known \cup {nextId} /\ nextId' = nextId + 2
      /\ UNCHANGED <<isClient, upgraded, open, loop, maxRemote, last, stream, connGranted, undecoded>>
      /\ known \subseteq Ids /\ Ids \subseteq Nat
  BY ConstantsAssumption DEF CreateStream, IInv, TypeOK
<1>2. Quiet
  BY <1>1 DEF Quiet, IInv, TypeOK, Loops
<1>3. IdsAreBounded'
  <2> SUFFICES ASSUME NEW t \in known'
               PROVE  IF Local(t)' THEN t < nextId' ELSE t <= maxRemote' \/ ~HasDelegate(t)
    BY <1>1 DEF IInv, IdsAreBounded, HasDelegate
  <2>1. nextId \in Nat /\ (nextId + 2) % 2 = nextId % 2
    BY <1>1
  <2>2. Local(t)' = Local(t)
    BY <1>1, <2>1 DEF Local
  <2>3. CASE t = nextId
    BY <1>1, <2>1, <2>2, <2>3 DEF Local
  <2>4. CASE t \in known
    <3>1. t \in Nat
      BY <1>1, <2>4
    <3>2. IF Local(t) THEN t < nextId ELSE t <= maxRemote \/ ~HasDelegate(t)
      BY <2>4 DEF IInv, IdsAreBounded
    <3> QED
      BY <1>1, <2>1, <2>2, <3>1, <3>2
  <2> QED
    BY <1>1, <2>3, <2>4
<1> QED
  BY <1>1, <1>2, <1>3, QuietKeepsInv

\* The inductive invariant is one, and every step is a step of Message or none.
LEMMA NextInv ==
  ASSUME IInv, [Next]_vars
  PROVE  IInv' /\ [DelegateView!Next]_(DelegateView!message)
<1>0. Quiet => UNCHANGED (DelegateView!message)
  BY DEF Quiet, DelegateView!message
<1>1. ASSUME NEW s \in Ids, Frames(s)
      PROVE  IInv' /\ [DelegateView!Next]_(DelegateView!message)
  <2>1. ASSUME NEW endHeaders \in BOOLEAN, ContinuationFrame(s, endHeaders)
        PROVE  IInv' /\ [DelegateView!Next]_(DelegateView!message)
    BY <2>1, ContinuationFrameResult, KnownKeepsInv
  <2>2. ASSUME NEW endHeaders \in BOOLEAN, NEW end \in BOOLEAN,
               HeadersFrame(s, endHeaders, end)
        PROVE  IInv' /\ [DelegateView!Next]_(DelegateView!message)
    BY <2>2, HeadersFrameResult, KnownKeepsInv
  <2>3. ASSUME NEW endHeaders \in BOOLEAN, NEW end \in BOOLEAN,
               CreateOnHeaders(s, endHeaders, end)
        PROVE  IInv' /\ [DelegateView!Next]_(DelegateView!message)
    BY <2>3, CreateKeepsInv
  <2>4. ASSUME NEW n \in 0 .. MaxBody, NEW pad \in Pads, NEW end \in BOOLEAN,
               DataFrame(s, n, pad, end)
        PROVE  IInv' /\ [DelegateView!Next]_(DelegateView!message)
    <3>1. n \in Nat
      BY ConstantsAssumption
    <3> QED
      BY <2>4, <3>1, DataFrameResult, KnownKeepsInv
  <2>5. CASE RstStreamFrame(s)
    BY <2>5, RstStreamFrameResult, KnownKeepsInv
  <2>6. ASSUME NEW type \in Types, OtherFrame(s, type)
        PROVE  IInv' /\ [DelegateView!Next]_(DelegateView!message)
    BY <2>6, OtherFrameResult, KnownKeepsInv
  <2>7. ASSUME NEW type \in Types, UnknownStreamFrame(s, type)
        PROVE  IInv' /\ [DelegateView!Next]_(DelegateView!message)
    <3>1. Quiet /\ UNCHANGED conn
      BY <2>7, QuietSteps
    <3>2. IInv'
      BY <3>1, QuietUnchanged
    <3> QED
      BY <1>0, <3>1, <3>2
  <2> QED
    BY <1>1, <2>1, <2>2, <2>3, <2>4, <2>5, <2>6, <2>7 DEF Frames
<1>2. ASSUME NEW s \in Ids, NEW i \in DOMAIN stream[s].pending, DataConsumed(s, i)
      PROVE  IInv' /\ [DelegateView!Next]_(DelegateView!message)
  BY <1>2, DataConsumedKeepsInv
<1>3. CASE \/ RefusedFrame \/ OversizedFrame
           \/ \E ack \in BOOLEAN : SettingsFrame(ack) \/ PingFrame(ack)
           \/ \E type \in {"WINDOW_UPDATE", "UNKNOWN", "STREAM", "GOAWAY"} : ConnFrame(type)
           \/ Preface \/ LoopFlushed \/ LoopFails \/ Close
  <2>1. Quiet /\ UNCHANGED conn
    BY <1>3, QuietSteps
  <2>2. IInv'
    BY <2>1, QuietUnchanged
  <2> QED
    BY <1>0, <2>1, <2>2
<1>4. CASE CreateStream
  BY <1>0, <1>4, CreateStreamKeepsInv
<1>5. CASE UNCHANGED vars
  <2>1. Quiet /\ UNCHANGED conn
    BY <1>5 DEF vars, Quiet, conn, IInv, TypeOK, Loops
  <2>2. IInv'
    BY <2>1, QuietUnchanged
  <2> QED
    BY <1>0, <2>1, <2>2
<1> QED
  BY <1>1, <1>2, <1>3, <1>4, <1>5 DEF Next

LEMMA InitInv == Init => IInv /\ DelegateView!Init
<1> SUFFICES ASSUME Init PROVE IInv /\ DelegateView!Init
  OBVIOUS
<1>1. NewStream \in Stream /\ stream = [s \in Ids |-> NewStream]
  BY DEF NewStream, Stream, Init
<1>2. TypeOK
  BY <1>1, ConstantsAssumption DEF Init, TypeOK
<1>3. Good(NewStream)
  BY <1>1, ConstantsAssumption
     DEF Good, DelegateKept, LengthKept, BodyKept, NewStream
<1>4. Owed(NewStream) = 0
  <2>1. SumFunction(<<>>) = 0
    BY SumEmpty
  <2> QED
    BY <2>1 DEF Owed, NewStream
<1>5. connGranted = SumFunction(Granted)
  <2>1. \A s \in Ids : Granted[s] = 0
    BY <1>1 DEF Granted, NewStream
  <2>2. IsFiniteSet(Ids) /\ DOMAIN Granted = Ids
    BY ConstantsAssumption DEF Granted
  <2>3. SumFunctionOnSet(Granted, Ids) = 0
    BY <2>1, <2>2, SumZero
  <2> QED
    BY <2>2, <2>3 DEF SumFunction, Init
<1>6. BlockIsLast
  BY <1>1 DEF BlockIsLast, NewStream
<1>7. IdsAreBounded
  BY DEF Init, IdsAreBounded, HasDelegate
<1>8. IInv
  BY <1>1, <1>2, <1>3, <1>4, <1>5, <1>6, <1>7 DEF IInv, CreditKept
<1>9. DelegateView!Init
  BY <1>1 DEF DelegateView!Init, NewStream
<1> QED
  BY <1>8, <1>9

LEMMA NextKeepsInv == IInv /\ [Next]_vars => IInv'
BY NextInv

LEMMA Invariance == Spec => []IInv
<1>1. Init => IInv
  BY InitInv
<1> QED
  BY <1>1, NextKeepsInv, PTL DEF Spec
-----------------------------------------------------------------------------
(* The theorems.                                                           *)

\* Every variable stays in its type; what matters here is that the lengths of the
\* data that is not consumed are positive, whatever their padding was.
THEOREM TypeCorrect == Spec => []TypeOK
<1>1. IInv => TypeOK
  BY DEF IInv
<1> QED
  BY <1>1, Invariance, PTL

\* Header blocks do not interleave (handle_frame's test of last_stream).
THEOREM Contiguity == Spec => []HeaderBlockIsContiguous
<1>1. IInv => HeaderBlockIsContiguous
  BY DEF IInv, BlockIsLast, HeaderBlockIsContiguous
<1> QED
  BY <1>1, Invariance, PTL

\* Identifiers tell streams that existed from those that never did
\* (next_stream_id, max_remote_stream_id), also on the connection of an upgrade, whose
\* stream 1 alone may lie beyond them.
THEOREM IdBounds == Spec => []IdsAreBounded
<1>1. IInv => IdsAreBounded
  BY DEF IInv
<1> QED
  BY <1>1, Invariance, PTL

\* While the connection is open all the data that delegates have consumed, and none
\* that they have not, is returned to the windows of the streams and the connection.
THEOREM CreditReturned == Spec => []CreditIsReturned
<1>1. IInv => CreditIsReturned
  <2> SUFFICES ASSUME IInv, open
               PROVE  /\ \A s \in Ids : stream[s].got = stream[s].granted + Pending(s)
                      /\ connGranted = SumFunction([s \in Ids |-> stream[s].granted])
    BY DEF CreditIsReturned
  <2>1. ASSUME NEW s \in Ids PROVE stream[s].got = stream[s].granted + Pending(s)
    <3> DEFINE sum == SumFunction(stream[s].pending)
    <3>1. /\ stream[s].got \in Nat /\ stream[s].granted \in Nat
          /\ stream[s].pending \in Seq(Int)
      BY DEF IInv, TypeOK, Stream
    <3>2. sum \in Int
      BY <3>1, SumSeqInt
    <3>3. stream[s].got - stream[s].granted - sum = 0
      BY DEF IInv, CreditKept, Owed
    <3> HIDE DEF sum
    <3>4. stream[s].got = stream[s].granted + sum
      <4>1. \A a, b, c \in Int : a - b - c = 0 => a = b + c
        OBVIOUS
      <4>2. stream[s].got \in Int /\ stream[s].granted \in Int
        BY <3>1
      <4> QED
        BY <3>2, <3>3, <4>1, <4>2
    <3> QED
      BY <3>4 DEF sum, Pending
  <2>2. connGranted = SumFunction([s \in Ids |-> stream[s].granted])
    BY DEF IInv, CreditKept, Granted
  <2> QED
    BY <2>1, <2>2
<1> QED
  BY <1>1, Invariance, PTL

\* When finish() is called the delegate has every byte of the peer's DATA frames.  The
\* hypothesis is needed: SmallPads excludes an empty padding, which loses the data of its
\* frame, and one of more than 127 bytes, whose length is read as a negative number.
THEOREM BodyDelivered == SmallPads => (Spec => []BodyIsDelivered)
<1> SUFFICES ASSUME SmallPads PROVE Spec => []BodyIsDelivered
  OBVIOUS
<1>1. IInv => BodyIsDelivered
  BY DEF IInv, Good, BodyKept, BodyIsDelivered
<1> QED
  BY <1>1, Invariance, PTL

\* The delegate of each stream sees a well-formed message: Receiver implements Message.
THEOREM Implementation == Spec => ImplementsMessage
<1>1. Init => DelegateView!Init
  BY InitInv
<1>2. IInv /\ [Next]_vars => [DelegateView!Next]_(DelegateView!message)
  BY NextInv
<1> QED
  BY <1>1, <1>2, Invariance, PTL DEF Spec, ImplementsMessage, DelegateView!Spec
=============================================================================

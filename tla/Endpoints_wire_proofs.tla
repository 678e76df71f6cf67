------------------------ MODULE Endpoints_wire_proofs ------------------------
(***************************************************************************)
(* What is between the two ends, for the proofs about Endpoints: which     *)
(* frames may be underway to a stream, given what the sending end wrote    *)
(* to it and what the receiving end made of that.  Both ends change what   *)
(* is underway, the one at its end and the other at its beginning, and     *)
(* here it is proved that neither disturbs what it says of a stream.       *)
(***************************************************************************)
EXTENDS Endpoints, Sums

\* The frames this program writes to a stream are not larger than it reads.
FramesFit == \A n \in StreamInits : n <= MaxFrame

\* What is on the wire.
Packets ==
  {f \in [type : {"HEADERS", "DATA", "END", "RST_STREAM", "WINDOW_UPDATE", "GOAWAY"},
          s : Streams \cup {0}, n : Nat \cup {None}] :
     f.type # "HEADERS" => f.n \in Nat}

\* A frame of the sending end, and one of the receiving end.
FrameOK(f) ==
  /\ f.type \in {"HEADERS", "DATA", "END", "RST_STREAM"}
  /\ f.s \in Streams
  /\ f.type = "DATA" => f.n > 0 /\ (FramesFit => f.n <= MaxFrame)

CreditOK(f) ==
  /\ f.type \in {"WINDOW_UPDATE", "GOAWAY"}
  /\ f.type = "WINDOW_UPDATE" => f.n > 0

\* All that is underway is of one of those kinds.
WireKept ==
  /\ down \in Seq(Packets) /\ \A i \in 1 .. Len(down) : FrameOK(down[i])
  /\ up \in Seq(Packets) /\ \A i \in 1 .. Len(up) : CreditOK(up[i])

\* Of all the records of Receiver those that the frames of this program lead to: no
\* headers yet, or the one block of headers and some of what it announced.
Plain(r) ==
  \/ r = R!NewStream
  \/ /\ r.told \in {"headers", "finish"}
     /\ r.phase = "BODY" /\ r.block = "none"
     /\ r.started = (r.told = "headers") /\ r.finished = (r.told = "finish")
     /\ r.remaining = IF r.declared = None THEN None ELSE r.declared - r.got

\* HEADERS of stream s is on its way, at or before place i.
HeadersBy(q, s, i) == \E j \in 1 .. i : q[j].s = s /\ q[j].type = "HEADERS"

\* What may be on its way at place i to a stream whose record is r, when its application
\* declared d and, if e, END_STREAM was written.
Expected(q, i, s, r, d, e) ==
  /\ q[i].type = "HEADERS" =>
       /\ r.told = "nothing" /\ q[i].n = d
       /\ \A j \in 1 .. i - 1 : q[j].s # s
  /\ r.told = "nothing" => HeadersBy(q, s, i)
  /\ q[i].type = "END" =>
       e /\ \A j \in i + 1 .. Len(q) : q[j].s = s => q[j].type = "RST_STREAM"
  /\ r.told = "finish" => q[i].type = "RST_STREAM"

\* From the sender's n bytes to the receiver's record by the frames underway.
Sound(q, s, r, d, n, e) ==
  /\ Plain(r)
  /\ r.told # "nothing" => r.declared = d
  /\ r.told = "finish" => e
  /\ n = r.got + Underway(q, "DATA", s)
  /\ \A i \in 1 .. Len(q) : q[i].s = s => Expected(q, i, s, r, d, e)

\* HEADERS comes first of all, and before the application of the sender started nothing;
\* o says that the connection took what was written.
Started(q, s, r, new, o) ==
  /\ new => r.told = "nothing" /\ \A i \in 1 .. Len(q) : q[i].s # s
  /\ ~new /\ o => r.told # "nothing" \/ HeadersBy(q, s, Len(q))
-----------------------------------------------------------------------------
(* What is underway.                                                       *)

\* The frames that carry a number, and what one of them, or each of a sequence, carries for
\* stream s.
Numbered == {"DATA", "WINDOW_UPDATE"}

Count(f, type, s) == IF f.type = type /\ f.s = s THEN f.n ELSE 0
Counts(q, type, s) == [i \in DOMAIN q |-> Count(q[i], type, s)]

\* What a frame carries is a number.
LEMMA CountType ==
  ASSUME NEW f \in Packets, NEW type \in Numbered, NEW s
  PROVE  Count(f, type, s) \in Nat
BY DEF Count, Numbered, Packets

\* What is underway is the sum of what the frames carry.
LEMMA CountsType ==
  ASSUME NEW q \in Seq(Packets), NEW type \in Numbered, NEW s
  PROVE  /\ Counts(q, type, s) \in Seq(Int)
         /\ Len(Counts(q, type, s)) = Len(q)
         /\ \A i \in 1 .. Len(q) : /\ Counts(q, type, s)[i] = Count(q[i], type, s)
                                   /\ Counts(q, type, s)[i] \in Nat
         /\ Underway(q, type, s) = SumFunction(Counts(q, type, s))
         /\ Underway(q, type, s) \in Nat
<1> DEFINE c(i) == Count(q[i], type, s)
<1>1. /\ Len(q) \in Nat /\ DOMAIN q = 1 .. Len(q)
      /\ \A i \in 1 .. Len(q) : q[i] \in Packets
  BY LenProperties
<1>2. \A i \in 1 .. Len(q) : c(i) \in Nat
  BY <1>1, CountType
<1>3. Counts(q, type, s) = [i \in 1 .. Len(q) |-> c(i)]
  BY <1>1 DEF Counts
<1> HIDE DEF c
<1>4. Counts(q, type, s) \in Seq(Int) /\ Len(Counts(q, type, s)) = Len(q)
  BY <1>1, <1>2, <1>3, IsASeq
<1>5. \A i \in 1 .. Len(q) : Counts(q, type, s)[i] = Count(q[i], type, s)
  BY <1>3 DEF c
<1>6. Underway(q, type, s) = SumFunction(Counts(q, type, s))
  BY DEF Underway, Counts, Count
<1>7. SumFunction(Counts(q, type, s)) \in Nat
  <2> DEFINE k == Counts(q, type, s)
  <2>1. DOMAIN k = 1 .. Len(q) /\ \A i \in DOMAIN k : k[i] \in Nat
    BY <1>2, <1>3
  <2>2. IsFiniteSet(DOMAIN k)
    BY <1>1, <2>1, FS_Interval
  <2> HIDE DEF k
  <2>3. SumFunction(k) \in Nat
    BY <2>1, <2>2, SumNat DEF SumFunction
  <2> QED
    BY <2>3 DEF k
<1> QED
  BY <1>1, <1>2, <1>4, <1>5, <1>6, <1>7 DEF c

\* What two sequences of frames carry they carry together.
LEMMA UnderwayConcat ==
  ASSUME NEW q \in Seq(Packets), NEW r \in Seq(Packets), NEW type \in Numbered, NEW s
  PROVE  Underway(q \o r, type, s) = Underway(q, type, s) + Underway(r, type, s)
<1> DEFINE a == Counts(q, type, s)
           b == Counts(r, type, s)
           x == q \o r
           c == Counts(x, type, s)
<1>1. /\ x \in Seq(Packets) /\ Len(x) = Len(q) + Len(r)
      /\ Len(q) \in Nat /\ Len(r) \in Nat
      /\ \A i \in 1 .. Len(q) + Len(r) :
           x[i] = IF i <= Len(q) THEN q[i] ELSE r[i - Len(q)]
  BY ConcatProperties, LenProperties
<1> HIDE DEF x
<1>2. /\ a \in Seq(Int) /\ Len(a) = Len(q)
      /\ \A i \in 1 .. Len(q) : a[i] = Count(q[i], type, s)
      /\ Underway(q, type, s) = SumFunction(a)
  BY CountsType
<1>3. /\ b \in Seq(Int) /\ Len(b) = Len(r)
      /\ \A i \in 1 .. Len(r) : b[i] = Count(r[i], type, s)
      /\ Underway(r, type, s) = SumFunction(b)
  BY CountsType
<1>4. /\ c \in Seq(Int) /\ Len(c) = Len(q) + Len(r)
      /\ \A i \in 1 .. Len(q) + Len(r) : c[i] = Count(x[i], type, s)
      /\ Underway(x, type, s) = SumFunction(c)
  BY <1>1, CountsType
<1> HIDE DEF a, b, c
<1>5. /\ a \o b \in Seq(Int) /\ Len(a \o b) = Len(q) + Len(r)
      /\ \A i \in 1 .. Len(q) + Len(r) :
           (a \o b)[i] = IF i <= Len(q) THEN a[i] ELSE b[i - Len(q)]
  <2>1. /\ a \o b \in Seq(Int) /\ Len(a \o b) = Len(a) + Len(b)
        /\ \A i \in 1 .. Len(a) + Len(b) :
             (a \o b)[i] = IF i <= Len(a) THEN a[i] ELSE b[i - Len(a)]
    <3>1. a \in Seq(Int) /\ b \in Seq(Int)
      BY <1>2, <1>3
    <3> QED
      BY <3>1, ConcatProperties
  <2> QED
    BY <1>2, <1>3, <2>1
<1>6. \A i \in 1 .. Len(c) : c[i] = (a \o b)[i]
  <2> SUFFICES ASSUME NEW i \in 1 .. Len(q) + Len(r) PROVE c[i] = (a \o b)[i]
    BY <1>4
  <2>1. CASE i <= Len(q)
    <3>1. i \in 1 .. Len(q)
      BY <1>1, <2>1
    <3> QED
      BY <1>1, <1>2, <1>4, <1>5, <2>1, <3>1
  <2>2. CASE ~(i <= Len(q))
    <3>1. i - Len(q) \in 1 .. Len(r)
      BY <1>1, <2>2
    <3> QED
      BY <1>1, <1>3, <1>4, <1>5, <2>2, <3>1
  <2> QED
    BY <2>1, <2>2
<1>7. c = a \o b
  BY <1>4, <1>5, <1>6, SeqEqual
<1> QED
  BY <1>2, <1>3, <1>4, <1>7, SumConcat DEF x

\* Nothing is underway in no frame ...
LEMMA UnderwayNone ==
  ASSUME NEW type \in Numbered, NEW s
  PROVE  Underway(<<>>, type, s) = 0
<1>1. Counts(<<>>, type, s) = <<>>
  BY DEF Counts
<1> QED
  BY <1>1, SumEmpty DEF Underway, Counts, Count

\* ... in one, that which it carries ...
LEMMA UnderwayOne ==
  ASSUME NEW f \in Packets, NEW type \in Numbered, NEW s
  PROVE  Underway(<<f>>, type, s) = Count(f, type, s)
<1> DEFINE n == Count(f, type, s)
           q == <<f>>
           e == <<>>
           c == Counts(q, type, s)
<1>1. q \in Seq(Packets) /\ Len(q) = 1 /\ q[1] = f /\ n \in Nat
  BY CountType
<1>2. e \in Seq(Int) /\ Len(e) = 0 /\ SumFunction(e) = 0
  BY EmptySeq, SumEmpty
<1> HIDE DEF q, e
<1>3. /\ c \in Seq(Int) /\ Len(c) = 1 /\ c[1] = n
      /\ Underway(q, type, s) = SumFunction(c)
  BY <1>1, CountsType
<1> HIDE DEF n, c
<1>4. Append(e, n) \in Seq(Int) /\ Len(Append(e, n)) = 1 /\ Append(e, n)[1] = n
  BY <1>1, <1>2, AppendProperties
<1>5. c = Append(e, n)
  BY <1>3, <1>4, SeqEqual
<1>6. SumFunction(Append(e, n)) = SumFunction(e) + n
  <2>1. e \in Seq(Int) /\ n \in Int
    BY <1>1, <1>2
  <2> QED
    BY <2>1, SumAppend
<1>7. Underway(q, type, s) = n
  BY <1>1, <1>2, <1>3, <1>5, <1>6
<1> QED
  BY <1>7 DEF q, n

\* ... and in several that of the first and of the others.
LEMMA UnderwayTail ==
  ASSUME NEW q \in Seq(Packets), q # <<>>, NEW type \in Numbered, NEW s
  PROVE  Underway(q, type, s) = Count(Head(q), type, s) + Underway(Tail(q), type, s)
<1>1. /\ Head(q) \in Packets /\ Tail(q) \in Seq(Packets) /\ Len(Tail(q)) = Len(q) - 1
      /\ \A i \in 1 .. Len(Tail(q)) : Tail(q)[i] = q[i + 1]
  BY HeadTailProperties
<1>2. <<Head(q)>> \in Seq(Packets) /\ Len(<<Head(q)>>) = 1 /\ <<Head(q)>>[1] = q[1]
      /\ Len(q) \in Nat \ {0}
  BY <1>1, EmptySeq
<1>3. q = <<Head(q)>> \o Tail(q)
  <2> DEFINE h == <<Head(q)>>
             t == Tail(q)
  <2>1. h \in Seq(Packets) /\ Len(h) = 1 /\ h[1] = q[1] /\ t \in Seq(Packets)
    BY <1>1, <1>2
  <2>2. /\ Len(t) = Len(q) - 1 /\ \A i \in 1 .. Len(t) : t[i] = q[i + 1]
    BY <1>1
  <2> HIDE DEF h, t
  <2>3. /\ h \o t \in Seq(Packets) /\ Len(h \o t) = 1 + Len(t)
        /\ \A i \in 1 .. 1 + Len(t) : (h \o t)[i] = IF i <= 1 THEN h[i] ELSE t[i - 1]
    <3>1. /\ h \o t \in Seq(Packets) /\ Len(h \o t) = Len(h) + Len(t)
          /\ \A i \in 1 .. Len(h) + Len(t) :
               (h \o t)[i] = IF i <= Len(h) THEN h[i] ELSE t[i - Len(h)]
      BY <2>1, ConcatProperties
    <3> QED
      BY <2>1, <3>1
  <2>4. \A i \in 1 .. Len(q) : q[i] = (h \o t)[i]
    BY <1>2, <2>1, <2>2, <2>3
  <2>5. Len(q) = Len(h \o t)
    BY <1>2, <2>2, <2>3
  <2>6. q = h \o t
    BY <2>3, <2>4, <2>5, SeqEqual
  <2> QED
    BY <2>6 DEF h, t
<1>4. Underway(<<Head(q)>> \o Tail(q), type, s)
        = Underway(<<Head(q)>>, type, s) + Underway(Tail(q), type, s)
  BY <1>1, <1>2, UnderwayConcat
<1> QED
  BY <1>1, <1>3, <1>4, UnderwayOne
-----------------------------------------------------------------------------
(* Frames that are written.                                                *)

\* x is q with the frame f behind it.
Longer(q, f, x) ==
  /\ x \in Seq(Packets) /\ Len(x) = Len(q) + 1
  /\ \A i \in 1 .. Len(q) : x[i] = q[i]
  /\ x[Len(q) + 1] = f
  /\ \A type \in Numbered : \A s \in Streams \cup {0} :
       Underway(x, type, s) = Underway(q, type, s) + Count(f, type, s)

\* The same if when, and else x is q.
Grows(q, f, when, x) == IF when THEN Longer(q, f, x) ELSE x = q

\* The frame f, if when.
Maybe(f, when) == IF when THEN <<f>> ELSE <<>>

\* A frame that is put behind a sequence, if when, makes it grow.
LEMMA MaybeGrows ==
  ASSUME NEW q \in Seq(Packets), NEW f, NEW when \in BOOLEAN, when => f \in Packets
  PROVE  /\ Grows(q, f, when, q \o Maybe(f, when))
         /\ Maybe(f, when) \in Seq(Packets)
<1>1. CASE ~when
  BY <1>1, ConcatEmptySeq, EmptySeq DEF Grows, Maybe
<1>2. CASE when
  <2> DEFINE g == <<f>>
             x == q \o g
  <2>1. f \in Packets
    BY <1>2
  <2>2. g \in Seq(Packets) /\ Len(g) = 1 /\ g[1] = f
    BY <2>1
  <2> HIDE DEF g
  <2>3. /\ x \in Seq(Packets) /\ Len(x) = Len(q) + Len(g)
        /\ \A i \in 1 .. Len(q) + Len(g) : x[i] = IF i <= Len(q) THEN q[i] ELSE g[i - Len(q)]
    BY <2>2, ConcatProperties
  <2>4. \A type \in Numbered : \A s \in Streams \cup {0} :
          Underway(x, type, s) = Underway(q, type, s) + Count(f, type, s)
    <3> SUFFICES ASSUME NEW type \in Numbered, NEW s \in Streams \cup {0}
                 PROVE  Underway(x, type, s) = Underway(q, type, s) + Count(f, type, s)
      OBVIOUS
    <3>1. Underway(x, type, s) = Underway(q, type, s) + Underway(g, type, s)
      BY <2>2, UnderwayConcat
    <3>2. Underway(g, type, s) = Count(f, type, s)
      BY <2>1, UnderwayOne DEF g
    <3> QED
      BY <3>1, <3>2
  <2> HIDE DEF x
  <2>5. Len(q) \in Nat
    OBVIOUS
  <2>6. \A i \in 1 .. Len(q) : x[i] = q[i]
    BY <2>2, <2>3, <2>5
  <2>7. x[Len(q) + 1] = f
    BY <2>2, <2>3, <2>5
  <2>8. Longer(q, f, x)
    BY <2>2, <2>3, <2>4, <2>6, <2>7 DEF Longer
  <2> QED
    BY <1>2, <2>2, <2>8 DEF Grows, Maybe, x, g
<1> QED
  BY <1>1, <1>2

\* The frames of one stream do not concern another.
LEMMA LongerOther ==
  ASSUME NEW q \in Seq(Packets), NEW f, NEW x, Longer(q, f, x),
         NEW s \in Streams, f.s # s,
         NEW r, NEW d, NEW n, NEW e, NEW new, NEW o
  PROVE  /\ Sound(q, s, r, d, n, e) => Sound(x, s, r, d, n, e)
         /\ Started(q, s, r, new, o) => Started(x, s, r, new, o)
<1>1. /\ Len(q) \in Nat /\ Len(x) = Len(q) + 1
      /\ \A i \in 1 .. Len(q) : x[i] = q[i]
      /\ x[Len(q) + 1].s # s
  BY DEF Longer
<1>2. Underway(q, "DATA", s) \in Nat
  BY CountsType DEF Numbered
<1>3. Underway(x, "DATA", s) = Underway(q, "DATA", s)
  BY <1>2 DEF Longer, Numbered, Count
<1>4. ASSUME NEW i \in 1 .. Len(x), x[i].s = s
      PROVE  i \in 1 .. Len(q)
  BY <1>1, <1>4
<1>5. \A i \in 1 .. Len(q) : HeadersBy(q, s, i) <=> HeadersBy(x, s, i)
  BY <1>1 DEF HeadersBy
<1>6. ASSUME NEW i \in 1 .. Len(q), Expected(q, i, s, r, d, e)
      PROVE  Expected(x, i, s, r, d, e)
  <2>1. \A j \in 1 .. i - 1 : x[j] = q[j]
    BY <1>1
  <2>2. \A j \in i + 1 .. Len(x) : x[j].s = s => j \in i + 1 .. Len(q) /\ x[j] = q[j]
    BY <1>1
  <2> QED
    BY <1>1, <1>5, <1>6, <2>1, <2>2 DEF Expected
<1>7. Sound(q, s, r, d, n, e) => Sound(x, s, r, d, n, e)
  BY <1>1, <1>3, <1>4, <1>6 DEF Sound
<1>8. HeadersBy(q, s, Len(q)) => HeadersBy(x, s, Len(x))
  BY <1>1 DEF HeadersBy
<1>9. Started(q, s, r, new, o) => Started(x, s, r, new, o)
  BY <1>1, <1>4, <1>8 DEF Started
<1> QED
  BY <1>7, <1>9

\* The headers of stream s were handled, or written.
Begun(q, s, r) == r.told # "nothing" \/ HeadersBy(q, s, Len(q))

\* The first frame of a stream.
LEMMA LongerHeaders ==
  ASSUME NEW q \in Seq(Packets), NEW f, NEW x, Longer(q, f, x),
         NEW s \in Streams, f.s = s, f.type = "HEADERS",
         NEW r, r.told = "nothing", \A i \in 1 .. Len(q) : q[i].s # s,
         NEW d, NEW n, NEW e, Sound(q, s, r, d, n, e)
  PROVE  Sound(x, s, r, f.n, n, e) /\ Begun(x, s, r)
<1>1. /\ Len(q) \in Nat /\ Len(x) = Len(q) + 1
      /\ \A i \in 1 .. Len(q) : x[i].s # s
      /\ x[Len(q) + 1] = f
  BY DEF Longer
<1>2. Underway(q, "DATA", s) \in Nat
  BY CountsType DEF Numbered
<1>3. Underway(x, "DATA", s) = Underway(q, "DATA", s)
  BY <1>2 DEF Longer, Numbered, Count
<1>4. HeadersBy(x, s, Len(x))
  BY <1>1 DEF HeadersBy
<1>5. Expected(x, Len(x), s, r, f.n, e)
  BY <1>1, <1>4 DEF Expected
<1>6. \A i \in 1 .. Len(x) : x[i].s = s => i = Len(x)
  BY <1>1
<1> QED
  BY <1>3, <1>4, <1>5, <1>6 DEF Sound, Begun

\* A later one, by which the sender's bytes become m and its end g.
Follows(q, f, s, r, d, n, e, m, g) ==
  /\ f.s = s /\ f.type # "HEADERS"
  /\ Begun(q, s, r)
  /\ Sound(q, s, r, d, n, e)
  /\ f.type # "RST_STREAM" => ~e
  /\ m = n + Count(f, "DATA", s)
  /\ e => g
  /\ f.type = "END" => g

\* What was sound for stream s stays so when such a frame is written.
LEMMA LongerOwn ==
  ASSUME NEW q \in Seq(Packets), NEW f \in Packets, NEW x, Longer(q, f, x),
         NEW s \in Streams, NEW r, r.got \in Nat, NEW d, NEW n, NEW e, NEW m, NEW g,
         Follows(q, f, s, r, d, n, e, m, g)
  PROVE  Sound(x, s, r, d, m, g) /\ Begun(x, s, r)
<1>0. /\ f.s = s /\ f.type # "HEADERS"
      /\ Begun(q, s, r)
      /\ Sound(q, s, r, d, n, e)
      /\ f.type # "RST_STREAM" => ~e
      /\ m = n + Count(f, "DATA", s)
      /\ e => g
      /\ f.type = "END" => g
      /\ Count(f, "DATA", s) \in Nat
  BY CountType DEF Follows, Numbered
<1>1. /\ Len(q) \in Nat /\ Len(x) = Len(q) + 1
      /\ \A i \in 1 .. Len(q) : x[i] = q[i]
      /\ x[Len(q) + 1] = f
  BY DEF Longer
<1>2. Underway(q, "DATA", s) \in Nat
  BY CountsType DEF Numbered
<1>3. Underway(x, "DATA", s) = Underway(q, "DATA", s) + Count(f, "DATA", s)
  BY DEF Longer, Numbered
<1>4. m = r.got + Underway(x, "DATA", s)
  <2>1. n = r.got + Underway(q, "DATA", s)
    BY <1>0 DEF Sound
  <2> QED
    BY <1>0, <1>2, <1>3, <2>1
<1>5. \A i \in 1 .. Len(q) : HeadersBy(q, s, i) => HeadersBy(x, s, i)
  BY <1>1 DEF HeadersBy
<1>6. HeadersBy(q, s, Len(q)) => HeadersBy(x, s, Len(x))
  BY <1>1 DEF HeadersBy
<1>7. ASSUME NEW i \in 1 .. Len(q), Expected(q, i, s, r, d, e)
      PROVE  Expected(x, i, s, r, d, g)
  <2>1. \A j \in 1 .. i - 1 : x[j] = q[j]
    BY <1>1
  <2>2. \A j \in i + 1 .. Len(x) : j = Len(q) + 1 \/ (j \in i + 1 .. Len(q) /\ x[j] = q[j])
    BY <1>1
  <2>3. x[i].type = "END" =>
          e /\ \A j \in i + 1 .. Len(x) : x[j].s = s => x[j].type = "RST_STREAM"
    BY <1>0, <1>1, <1>7, <2>2 DEF Expected
  <2> QED
    BY <1>0, <1>1, <1>5, <1>7, <2>1, <2>3 DEF Expected
<1>8. Expected(x, Len(x), s, r, d, g)
  <2>1. r.told = "nothing" => HeadersBy(x, s, Len(x))
    BY <1>0, <1>6 DEF Begun
  <2>2. r.told = "finish" => f.type = "RST_STREAM"
    BY <1>0 DEF Sound
  <2>3. \A j \in Len(x) + 1 .. Len(x) : FALSE
    BY <1>1
  <2> QED
    BY <1>0, <1>1, <2>1, <2>2, <2>3 DEF Expected
<1>9. \A i \in 1 .. Len(x) : i = Len(x) \/ (i \in 1 .. Len(q) /\ x[i] = q[i])
  BY <1>1
<1>10. \A i \in 1 .. Len(x) : x[i].s = s => Expected(x, i, s, r, d, g)
  BY <1>0, <1>7, <1>8, <1>9 DEF Sound
<1> QED
  BY <1>0, <1>4, <1>6, <1>10 DEF Sound, Begun

\* Frames of the sending end are put behind frames of the sending end.
LEMMA GrowsOK ==
  ASSUME NEW q \in Seq(Packets), \A i \in 1 .. Len(q) : FrameOK(q[i]),
         NEW f, NEW when \in BOOLEAN, NEW x, Grows(q, f, when, x), when => FrameOK(f)
  PROVE  x \in Seq(Packets) /\ \A i \in 1 .. Len(x) : FrameOK(x[i])
<1>1. CASE ~when
  BY <1>1 DEF Grows
<1>2. CASE when
  <2>1. /\ x \in Seq(Packets) /\ Len(x) = Len(q) + 1 /\ Len(q) \in Nat
        /\ \A i \in 1 .. Len(q) : x[i] = q[i]
        /\ x[Len(q) + 1] = f
    BY <1>2 DEF Grows, Longer
  <2>2. \A i \in 1 .. Len(x) : i \in 1 .. Len(q) \/ i = Len(q) + 1
    BY <2>1
  <2> QED
    BY <1>2, <2>1, <2>2
<1> QED
  BY <1>1, <1>2

\* Frames of a stream, if any are written, change nothing for another ...
LEMMA GrowsOther ==
  ASSUME NEW q \in Seq(Packets), NEW f, NEW when \in BOOLEAN, NEW x, Grows(q, f, when, x),
         NEW s \in Streams, f.s # s,
         NEW r, NEW d, NEW n, NEW e, NEW new, NEW o,
         Sound(q, s, r, d, n, e), Started(q, s, r, new, o)
  PROVE  Sound(x, s, r, d, n, e) /\ Started(x, s, r, new, o)
BY LongerOther DEF Grows

\* The same where there may be no frame.
MayFollow(q, f, when, s, r, d, n, e, m, g) ==
  IF when THEN Follows(q, f, s, r, d, n, e, m, g)
          ELSE m = n /\ g = e /\ Sound(q, s, r, d, n, e)

\* ... and keep what was sound for their own.
LEMMA GrowsOwn ==
  ASSUME NEW q \in Seq(Packets), NEW f, NEW when \in BOOLEAN, NEW x,
         Grows(q, f, when, x), when => f \in Packets,
         NEW s \in Streams, NEW r, r.got \in Nat, NEW d, NEW n, NEW e, NEW m, NEW g,
         MayFollow(q, f, when, s, r, d, n, e, m, g)
  PROVE  Sound(x, s, r, d, m, g) /\ (Begun(q, s, r) => Begun(x, s, r))
<1>1. CASE ~when
  BY <1>1 DEF Grows, MayFollow
<1>2. CASE when
  BY <1>2, LongerOwn DEF Grows, MayFollow
<1> QED
  BY <1>1, <1>2

\* A frame written, if when, to a sequence that may have grown before.
LEMMA MaybeIsWritten ==
  ASSUME NEW q \in Seq(Packets), NEW f, NEW when \in BOOLEAN, when => f \in Packets
  PROVE  /\ q \o Maybe(f, when) \in Seq(Packets)
         /\ Grows(q, f, when, q \o Maybe(f, when))
         /\ Maybe(f, when) \in Seq(Packets)
<1> DEFINE m == Maybe(f, when)
<1>1. Grows(q, f, when, q \o m) /\ m \in Seq(Packets)
  BY MaybeGrows
<1> HIDE DEF m
<1>2. q \o m \in Seq(Packets)
  BY <1>1, ConcatProperties
<1> QED
  BY <1>1, <1>2 DEF m
-----------------------------------------------------------------------------
(* Frames that are read.                                                   *)

\* x is q without its first frame f.
Shorter(q, f, x) ==
  /\ q \in Seq(Packets) /\ q # <<>> /\ f = q[1] /\ f \in Packets
  /\ x \in Seq(Packets) /\ Len(q) = Len(x) + 1
  /\ \A i \in 1 .. Len(x) : x[i] = q[i + 1]
  /\ \A type \in Numbered : \A s \in Streams \cup {0} :
       Underway(q, type, s) = Count(f, type, s) + Underway(x, type, s)

\* Without its first frame a sequence is shorter by that.
LEMMA TailIsShorter ==
  ASSUME NEW q \in Seq(Packets), q # <<>>
  PROVE  Shorter(q, Head(q), Tail(q))
<1>1. /\ Head(q) \in Packets /\ Head(q) = q[1] /\ Tail(q) \in Seq(Packets)
      /\ Len(Tail(q)) = Len(q) - 1
      /\ \A i \in 1 .. Len(Tail(q)) : Tail(q)[i] = q[i + 1]
  BY HeadTailProperties
<1>2. Len(q) = Len(Tail(q)) + 1
  BY <1>1
<1>3. \A type \in Numbered : \A s \in Streams \cup {0} :
        Underway(q, type, s) = Count(Head(q), type, s) + Underway(Tail(q), type, s)
  BY UnderwayTail
<1> QED
  BY <1>1, <1>2, <1>3 DEF Shorter

\* Where no frame carries data there is none underway.
LEMMA NothingUnderway ==
  ASSUME NEW q \in Seq(Packets), NEW s,
         \A i \in 1 .. Len(q) : q[i].s = s => q[i].type # "DATA"
  PROVE  Underway(q, "DATA", s) = 0
<1> DEFINE c == Counts(q, "DATA", s)
<1>1. /\ c \in Seq(Int) /\ Len(c) = Len(q)
      /\ \A i \in 1 .. Len(q) : c[i] = Count(q[i], "DATA", s)
      /\ Underway(q, "DATA", s) = SumFunction(c)
  BY CountsType DEF Numbered
<1> HIDE DEF c
<1>2. DOMAIN c = 1 .. Len(c) /\ Len(c) \in Nat
  BY <1>1
<1>3. IsFiniteSet(DOMAIN c)
  BY <1>2, FS_Interval
<1>4. \A i \in DOMAIN c : c[i] = 0
  BY <1>1, <1>2 DEF Count
<1> QED
  BY <1>1, <1>3, <1>4, SumZero DEF SumFunction

\* What a frame for stream s makes of the record r of stream t, if it ends well.
Takes(f, t, r, d, e, x, p) ==
  \/ f.s # t /\ p = r
  \/ /\ f.s = t
     /\ Plain(p) /\ p.told # "nothing" /\ p.declared = d
     /\ p.got = r.got + Count(f, "DATA", t)
     /\ p.told = "finish" =>
          e /\ \A i \in 1 .. Len(x) : x[i].s = t => x[i].type = "RST_STREAM"

\* What was sound for stream t stays so when the first frame is read.
LEMMA ShorterSound ==
  ASSUME NEW q, NEW f, NEW x, Shorter(q, f, x), NEW s \in Streams,
         NEW r, NEW d, NEW n, NEW e, Sound(q, s, r, d, n, e),
         NEW p, Takes(f, s, r, d, e, x, p),
         NEW new, NEW o, Started(q, s, r, new, o), r.got \in Nat, Count(f, "DATA", s) \in Nat
  PROVE  Sound(x, s, p, d, n, e) /\ Started(x, s, p, new, o)
<1>1. /\ q \in Seq(Packets) /\ x \in Seq(Packets)
      /\ Len(x) \in Nat /\ Len(q) = Len(x) + 1 /\ q[1] = f
      /\ \A i \in 1 .. Len(x) : x[i] = q[i + 1] /\ i + 1 \in 1 .. Len(q)
  BY DEF Shorter
<1>2. Underway(x, "DATA", s) \in Nat
  BY <1>1, CountsType DEF Numbered
<1>3. Underway(q, "DATA", s) = Count(f, "DATA", s) + Underway(x, "DATA", s)
  BY DEF Shorter, Numbered
<1>4. n = p.got + Underway(x, "DATA", s)
  <2>1. n = r.got + Underway(q, "DATA", s)
    BY DEF Sound
  <2>2. p.got = r.got + Count(f, "DATA", s)
    BY DEF Takes, Count
  <2> QED
    BY <1>2, <1>3, <2>1, <2>2
<1>5. ASSUME NEW i \in 1 .. Len(x), f.s # s, HeadersBy(q, s, i + 1)
      PROVE  HeadersBy(x, s, i)
  <2>1. PICK j \in 1 .. i + 1 : q[j].s = s /\ q[j].type = "HEADERS"
    BY <1>5 DEF HeadersBy
  <2>2. j # 1
    BY <1>1, <1>5, <2>1
  <2>3. j - 1 \in 1 .. i /\ j - 1 \in 1 .. Len(x) /\ (j - 1) + 1 = j
    BY <1>1, <2>2
  <2>4. x[j - 1] = q[j]
    BY <1>1, <2>3
  <2> QED
    BY <2>1, <2>3, <2>4 DEF HeadersBy
<1>6. ASSUME NEW i \in 1 .. Len(x), x[i].s = s
      PROVE  Expected(x, i, s, p, d, e)
  <2>1. x[i] = q[i + 1] /\ i + 1 \in 1 .. Len(q)
    BY <1>1
  <2>2. Expected(q, i + 1, s, r, d, e)
    BY <1>6, <2>1 DEF Sound
  <2>3. \A j \in 1 .. i - 1 : x[j] = q[j + 1] /\ j + 1 \in 1 .. (i + 1) - 1
    <3> SUFFICES ASSUME NEW j \in 1 .. i - 1
                 PROVE  x[j] = q[j + 1] /\ j + 1 \in 1 .. (i + 1) - 1
      OBVIOUS
    <3>1. j \in 1 .. Len(x) /\ j + 1 \in 1 .. (i + 1) - 1
      BY <1>1
    <3> QED
      BY <1>1, <3>1
  <2>4. \A j \in i + 1 .. Len(x) : x[j] = q[j + 1] /\ j + 1 \in (i + 1) + 1 .. Len(q)
    <3> SUFFICES ASSUME NEW j \in i + 1 .. Len(x)
                 PROVE  x[j] = q[j + 1] /\ j + 1 \in (i + 1) + 1 .. Len(q)
      OBVIOUS
    <3>1. j \in 1 .. Len(x) /\ j + 1 \in (i + 1) + 1 .. Len(q)
      BY <1>1
    <3> QED
      BY <1>1, <3>1
  <2>5. x[i].type = "END" =>
          e /\ \A j \in i + 1 .. Len(x) : x[j].s = s => x[j].type = "RST_STREAM"
    BY <2>1, <2>2, <2>4 DEF Expected
  <2>6. CASE f.s # s
    <3>1. p = r
      BY <2>6 DEF Takes
    <3>2. x[i].type = "HEADERS" =>
            r.told = "nothing" /\ x[i].n = d /\ \A j \in 1 .. i - 1 : x[j].s # s
      BY <2>1, <2>2, <2>3 DEF Expected
    <3>3. r.told = "nothing" => HeadersBy(x, s, i)
      BY <1>5, <2>2, <2>6 DEF Expected
    <3>4. r.told = "finish" => x[i].type = "RST_STREAM"
      BY <2>1, <2>2 DEF Expected
    <3> QED
      BY <2>5, <3>1, <3>2, <3>3, <3>4 DEF Expected
  <2>7. CASE f.s = s
    <3>1. p.told # "nothing" /\ (p.told = "finish" => x[i].type = "RST_STREAM")
      BY <1>6, <2>7 DEF Takes
    <3>2. x[i].type # "HEADERS"
      <4>1. 1 \in 1 .. (i + 1) - 1
        BY <1>1
      <4> QED
        BY <1>1, <2>1, <2>2, <2>7, <4>1 DEF Expected
    <3> QED
      BY <2>5, <3>1, <3>2 DEF Expected
  <2> QED
    BY <2>6, <2>7
<1>7. Sound(x, s, p, d, n, e)
  <2>1. Plain(p) /\ (p.told # "nothing" => p.declared = d) /\ (p.told = "finish" => e)
    BY DEF Takes, Sound
  <2> QED
    BY <1>4, <1>6, <2>1 DEF Sound
<1>8. Started(x, s, p, new, o)
  <2>1. CASE f.s # s
    <3>1. p = r
      BY <2>1 DEF Takes
    <3>2. new => r.told = "nothing" /\ \A i \in 1 .. Len(x) : x[i].s # s
      BY <1>1 DEF Started
    <3>3. HeadersBy(q, s, Len(q)) => HeadersBy(x, s, Len(x))
      <4> SUFFICES ASSUME HeadersBy(q, s, Len(q)) PROVE HeadersBy(x, s, Len(x))
        OBVIOUS
      <4>1. Len(x) # 0
        <5>1. PICK j \in 1 .. Len(q) : q[j].s = s
          BY DEF HeadersBy
        <5> QED
          BY <1>1, <2>1, <5>1
      <4>2. Len(x) \in 1 .. Len(x)
        BY <1>1, <4>1
      <4> QED
        BY <1>1, <1>5, <2>1, <4>2
    <3> QED
      BY <3>1, <3>2, <3>3 DEF Started
  <2>2. CASE f.s = s
    <3>1. 1 \in 1 .. Len(q)
      BY <1>1
    <3>2. ~new
      BY <1>1, <2>2, <3>1 DEF Started
    <3> QED
      BY <2>2, <3>2 DEF Started, Takes
  <2> QED
    BY <2>1, <2>2
<1> QED
  BY <1>7, <1>8
=============================================================================

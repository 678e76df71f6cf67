----------------------------- MODULE Coding_proofs -----------------------------
(***************************************************************************)
(* Theorems about Coding, for every prefix-free code whose characters each *)
(* have a zero, all strings of its characters and all integers: an encoder *)
(* writes bytes, a decoder reads every string to where it says it ends,    *)
(* and a block is read as the fields it was made from.                     *)
(*                                                                         *)
(* First the decoder is shown to stay within the block, whatever the block *)
(* is (Decoding): the strings need no more.  Then what each operation of   *)
(* the encoder has appended is stated of the bytes alone: an integer, a    *)
(* string or a field stands between the p-th byte and the q-th (IntIn,     *)
(* StringIn, FieldIn), and stays there when more is written (Extends).  So *)
(* the invariant, IInv, is that fields that touch each other make up the   *)
(* block.  Last, a decoder at the p-th byte reads what stands there and    *)
(* comes to the q-th (ReadIntOf, ReadStringOf, ReadFieldOf), one field in  *)
(* each round of its loop.                                                 *)
(***************************************************************************)
EXTENDS Coding, Sums

LEMMA PowersOfTwo ==
  /\ 2 ^ 0 = 1 /\ 2 ^ 1 = 2 /\ 2 ^ 2 = 4 /\ 2 ^ 3 = 8 /\ 2 ^ 4 = 16
  /\ 2 ^ 5 = 32 /\ 2 ^ 6 = 64 /\ 2 ^ 7 = 128 /\ 2 ^ 8 = 256
OBVIOUS

\* w is the weight of the bit b of a byte.
IsWeight(b, w) ==
  /\ w \in {128, 64, 32, 16, 8, 4, 2, 1}
  /\ b = 0 => w = 128
  /\ b = 1 => w = 64
  /\ b = 2 => w = 32
  /\ b = 3 => w = 16
  /\ b = 4 => w = 8
  /\ b = 5 => w = 4
  /\ b = 6 => w = 2
  /\ b = 7 => w = 1

LEMMA Weights ==
  ASSUME NEW b \in 0 .. 7
  PROVE  IsWeight(b, 2 ^ (7 - b))
<1> DEFINE c == 7 - b
<1>1. /\ c \in 0 .. 7
      /\ b = 0 => c = 7
      /\ b = 1 => c = 6
      /\ b = 2 => c = 5
      /\ b = 3 => c = 4
      /\ b = 4 => c = 3
      /\ b = 5 => c = 2
      /\ b = 6 => c = 1
      /\ b = 7 => c = 0
      /\ b = 0 \/ b = 1 \/ b = 2 \/ b = 3 \/ b = 4 \/ b = 5 \/ b = 6 \/ b = 7
  OBVIOUS
<1> HIDE DEF c
<1>2. /\ c = 0 => 2 ^ c = 1
      /\ c = 1 => 2 ^ c = 2
      /\ c = 2 => 2 ^ c = 4
      /\ c = 3 => 2 ^ c = 8
      /\ c = 4 => 2 ^ c = 16
      /\ c = 5 => 2 ^ c = 32
      /\ c = 6 => 2 ^ c = 64
      /\ c = 7 => 2 ^ c = 128
  BY PowersOfTwo, Zenon
<1>3. /\ 2 ^ c \in {128, 64, 32, 16, 8, 4, 2, 1}
      /\ b = 0 => 2 ^ c = 128
      /\ b = 1 => 2 ^ c = 64
      /\ b = 2 => 2 ^ c = 32
      /\ b = 3 => 2 ^ c = 16
      /\ b = 4 => 2 ^ c = 8
      /\ b = 5 => 2 ^ c = 4
      /\ b = 6 => 2 ^ c = 2
      /\ b = 7 => 2 ^ c = 1
  BY <1>1, <1>2
<1>4. IsWeight(b, 2 ^ c)
  BY <1>3 DEF IsWeight
<1> QED
  BY <1>4 DEF c

\* d is at bit b of byte p of the bytes D.
IsDec(d, D, p, b, v, ok) ==
  /\ DOMAIN d = {"data", "pos", "bit", "val", "ok"}
  /\ d.data = D /\ d.pos = p /\ d.bit = b /\ d.val = v /\ d.ok = ok

LEMMA SkipDec ==
  ASSUME NEW D, NEW p \in Nat, NEW b \in 0 .. 7, NEW v, NEW ok, NEW n \in Nat, NEW x, NEW d,
         IsDec(d, D, p, b, v, ok)
  PROVE  IsDec([Skip(d, n) EXCEPT !.val = x], D, (8 * p + b + n) \div 8, (8 * p + b + n) % 8, x, ok)
BY DEF Skip, IsDec, At

LEMMA FailDec ==
  ASSUME NEW D, NEW p, NEW b, NEW v, NEW ok, NEW d, IsDec(d, D, p, b, v, ok)
  PROVE  IsDec(Fail(d), D, p, b, v, FALSE)
BY DEF Fail, IsDec

LEMMA Eights ==
  ASSUME NEW p \in Nat, NEW b \in 0 .. 7
  PROVE  /\ (8 * p + b) \div 8 = p /\ (8 * p + b) % 8 = b
         /\ (8 * p + b + 1) \div 8 = (IF b = 7 THEN p + 1 ELSE p)
         /\ (8 * p + b + 1) % 8 = (IF b = 7 THEN 0 ELSE b + 1)
OBVIOUS

LEMMA BitIs ==
  ASSUME NEW D \in Seq(0 .. 255), NEW p \in Nat, p < Len(D), NEW b \in 0 .. 7
  PROVE  /\ Bit(D, 8 * p + b) \in {0, 1}
         /\ Bit(D, 8 * p + b) = (D[p + 1] \div 2 ^ (7 - b)) % 2
<1> DEFINE x == D[p + 1]
           w == 2 ^ (7 - b)
<1>1. Bit(D, 8 * p + b) = (x \div w) % 2
  BY Eights DEF Bit
<1>2. x \in 0 .. 255
  <2>1. p + 1 \in 1 .. Len(D)
    OBVIOUS
  <2> QED
    BY <2>1, ElementOfSeq
<1>3. w \in {128, 64, 32, 16, 8, 4, 2, 1}
  BY Weights DEF IsWeight
<1> HIDE DEF x, w
<1>4. (x \div w) % 2 \in {0, 1}
  BY <1>2, <1>3
<1> USE DEF x, w
<1> QED
  BY <1>1, <1>4

LEMMA ReadBitDec ==
  ASSUME NEW D \in Seq(0 .. 255), NEW p \in Nat, NEW b \in 0 .. 7, NEW v, NEW d,
         IsDec(d, D, p, b, v, TRUE)
  PROVE  LET x == Bit(D, 8 * p + b)
             r == ReadBit(d)
         IN  /\ p >= Len(D) => IsDec(r, D, p, b, v, FALSE)
             /\ p < Len(D) /\ b = 7 => IsDec(r, D, p + 1, 0, x, TRUE)
             /\ p < Len(D) /\ b < 7 => IsDec(r, D, p, b + 1, x, TRUE)
<1> DEFINE x == Bit(D, 8 * p + b)
           q == (8 * p + b + 1) \div 8
           c == (8 * p + b + 1) % 8
           s == [Skip(d, 1) EXCEPT !.val = x]
<1>1. d.data = D /\ d.pos = p /\ d.bit = b /\ d.ok = TRUE /\ At(d) = 8 * p + b
  BY DEF IsDec, At
<1>2. q = (IF b = 7 THEN p + 1 ELSE p) /\ c = (IF b = 7 THEN 0 ELSE b + 1)
  BY Eights
<1>3. IsDec(Fail(d), D, p, b, v, FALSE)
  BY FailDec
<1>4. IsDec(s, D, q, c, x, TRUE)
  BY SkipDec
<1>5. ReadBit(d) = IF p >= Len(D) THEN Fail(d) ELSE s
  BY <1>1 DEF ReadBit, Eod
<1>6. p >= Len(D) => IsDec(ReadBit(d), D, p, b, v, FALSE)
  BY <1>3, <1>5
<1> HIDE DEF x, s, q, c
<1>7. p < Len(D) => ReadBit(d) = s
  BY <1>5
<1>8. p < Len(D) /\ b = 7 => IsDec(ReadBit(d), D, p + 1, 0, x, TRUE)
  BY <1>2, <1>4, <1>7
<1>9. p < Len(D) /\ b < 7 => IsDec(ReadBit(d), D, p, b + 1, x, TRUE)
  <2> SUFFICES ASSUME p < Len(D), b < 7
               PROVE  IsDec(ReadBit(d), D, p, b + 1, x, TRUE)
    OBVIOUS
  <2>1. q = p /\ c = b + 1
    BY <1>2
  <2> QED
    BY <1>4, <1>7, <2>1
<1> USE DEF x
<1> QED
  BY <1>6, <1>8, <1>9
-----------------------------------------------------------------------------
\* The bytes of an integer in sevens, and those of what is left of it after each byte.
IsSevens(f, i) ==
  \A k \in 0 .. i : f[k] = IF k < 128 THEN <<k>> ELSE <<(k % 128) + 128>> \o f[k \div 128]

LEMMA SevensRun ==
  ASSUME NEW i \in Nat
  PROVE  \E f : IsSevens(f, i) /\ Sevens(i) = f[i]
<1> DEFINE v(f, k) == IF k < 128 THEN <<k>> ELSE <<(k % 128) + 128>> \o f[k \div 128]
           Is(f, m) == f = [k \in 0 .. m |-> v(f, k)]
           S == {m \in Nat : \E f : Is(f, m)}
<1>1. 0 \in S
  <2>1. Is([k \in 0 .. 0 |-> <<k>>], 0)
    OBVIOUS
  <2> QED
    BY <2>1
<1>2. ASSUME NEW m \in 1 .. i, m - 1 \in S PROVE m \in S
  <2>1. PICK f : Is(f, m - 1)
    BY <1>2
  <2> DEFINE g == [k \in 0 .. m |-> IF k < m THEN f[k] ELSE v(f, k)]
  <2>2. ASSUME NEW k \in 0 .. m PROVE g[k] = v(g, k)
    <3>1. k >= 128 => k \div 128 \in 0 .. m - 1
      OBVIOUS
    <3>2. v(g, k) = v(f, k)
      BY <3>1
    <3>3. k < m => f[k] = v(f, k)
      <4>1. k < m => k \in 0 .. m - 1
        OBVIOUS
      <4> QED
        BY <2>1, <4>1
    <3> QED
      BY <3>2, <3>3
  <2>3. Is(g, m)
    <3> HIDE DEF v
    <3>1. g = [k \in 0 .. m |-> g[k]]
      OBVIOUS
    <3> QED
      BY <2>2, <3>1
  <2> HIDE DEF g, Is
  <2>4. \E h : Is(h, m)
    BY <2>3
  <2> QED
    BY <2>4
<1>3. i \in S
  <2> HIDE DEF S
  <2> QED
    BY <1>1, <1>2, CountUp
<1> DEFINE h == CHOOSE f : Is(f, i)
<1>4. Is(h, i)
  BY <1>3
<1>5. Sevens(i) = h[i]
  BY DEF Sevens
<1>6. IsSevens(h, i)
  BY <1>4 DEF IsSevens
<1> QED
  BY <1>5, <1>6

LEMMA LastOfSevens ==
  ASSUME NEW i \in Nat, NEW f, IsSevens(f, i), NEW k \in 0 .. i, k < 128
  PROVE  f[k] = <<k>>
<1>1. f[k] = IF k < 128 THEN <<k>> ELSE <<(k % 128) + 128>> \o f[k \div 128]
  BY DEF IsSevens
<1> QED
  BY <1>1, Zenon

IsMore(f, k) == f[k] = <<(k % 128) + 128>> \o f[k \div 128]

LEMMA MoreOfSevens ==
  ASSUME NEW i \in Nat, NEW f, IsSevens(f, i), NEW k \in 0 .. i, k >= 128
  PROVE  IsMore(f, k)
<1>1. f[k] = IF k < 128 THEN <<k>> ELSE <<(k % 128) + 128>> \o f[k \div 128]
  BY DEF IsSevens
<1>2. ~(k < 128)
  OBVIOUS
<1> QED
  BY <1>1, <1>2, Zenon DEF IsMore

\* They are bytes, and at least one.
LEMMA SevensAreBytes ==
  ASSUME NEW i \in Nat, NEW f, IsSevens(f, i), NEW k \in 0 .. i
  PROVE  f[k] \in Seq(0 .. 255) /\ Len(f[k]) \in Nat /\ Len(f[k]) >= 1
<1> DEFINE Typed(j) == f[j] \in Seq(0 .. 255) /\ Len(f[j]) >= 1
           S == {m \in Nat : \A j \in 0 .. m : j <= i => Typed(j)}
<1>1. 0 \in S
  <2>0. 0 \in 0 .. i /\ 0 \in 0 .. 255 /\ 0 < 128
    OBVIOUS
  <2>1. f[0] = <<0>>
    BY <2>0, LastOfSevens, Zenon
  <2>2. Typed(0)
    BY <2>0, <2>1
  <2> QED
    BY <2>2
<1>2. ASSUME NEW m \in 1 .. i, m - 1 \in S PROVE m \in S
  <2>1. \A j \in 0 .. m - 1 : Typed(j)
    BY <1>2
  <2> m \in 0 .. i
    OBVIOUS
  <2>2. Typed(m)
    <3>1. CASE m < 128
      <4>1. f[m] = <<m>>
        BY <3>1, LastOfSevens, Zenon
      <4>2. m \in 0 .. 255
        BY <3>1
      <4> QED
        BY <4>1, <4>2
    <3>2. CASE m >= 128
      <4>0. IsMore(f, m)
        BY <3>2, MoreOfSevens
      <4> DEFINE r == m \div 128
                 b == (m % 128) + 128
      <4>1. r \in 0 .. m - 1 /\ b \in 0 .. 255
        BY <3>2
      <4>2. f[m] = <<b>> \o f[r]
        BY <4>0 DEF IsMore
      <4>3. Typed(r)
        BY <2>1, <4>1
      <4> HIDE DEF r, b
      <4>4. <<b>> \in Seq(0 .. 255) /\ Len(<<b>>) = 1
        BY <4>1
      <4>5. <<b>> \o f[r] \in Seq(0 .. 255) /\ Len(<<b>> \o f[r]) = 1 + Len(f[r])
        BY <4>3, <4>4, ConcatProperties
      <4>6. Len(f[r]) \in Nat
        BY <4>3
      <4> QED
        BY <4>2, <4>3, <4>5, <4>6
    <3> QED
      BY <3>1, <3>2
  <2> QED
    BY <2>1, <2>2
<1>3. k \in S
  <2> HIDE DEF S
  <2>1. \A j \in 0 .. i : j \in S
    BY <1>1, <1>2, CountUp
  <2> QED
    BY <2>1
<1>4. Typed(k)
  BY <1>3
<1> QED
  BY <1>4

\* The states of the loop of ReadSevens.
IsReadSevens(s, d, n) ==
  /\ s[0] = [d |-> d, weight |-> 1, more |-> TRUE]
  /\ \A r \in 1 .. n :
       s[r] = IF s[r - 1].d.ok /\ s[r - 1].more THEN ReadSeven(s[r - 1]) ELSE s[r - 1]

LEMMA ReadSevensRun ==
  ASSUME NEW d, NEW n \in Nat, n = Len(d.data) - d.pos + 1
  PROVE  \E s : IsReadSevens(s, d, n) /\ ReadSevens(d) = s[n].d
<1> DEFINE start == [d |-> d, weight |-> 1, more |-> TRUE]
           round(x) == IF x.d.ok /\ x.more THEN ReadSeven(x) ELSE x
           Is(f, m) == f = [r \in 0 .. m |-> IF r = 0 THEN start ELSE round(f[r - 1])]
           S == {m \in Nat : \E f : Is(f, m)}
<1> HIDE DEF start
<1>1. 0 \in S
  <2>1. Is([r \in 0 .. 0 |-> start], 0)
    OBVIOUS
  <2> QED
    BY <2>1
<1>2. ASSUME NEW m \in 1 .. n, m - 1 \in S PROVE m \in S
  <2>1. PICK f : Is(f, m - 1)
    BY <1>2
  <2> HIDE DEF round
  <2> DEFINE g == [r \in 0 .. m |-> IF r < m THEN f[r] ELSE round(f[r - 1])]
  <2>2. ASSUME NEW r \in 0 .. m PROVE g[r] = IF r = 0 THEN start ELSE round(g[r - 1])
    <3>1. CASE r < m
      <4>1. r \in 0 .. m - 1 /\ (r # 0 => r - 1 \in 0 .. m - 1)
        BY <3>1
      <4> QED
        BY <2>1, <3>1, <4>1
    <3>2. CASE r = m
      <4>1. r # 0 /\ r - 1 \in 0 .. m /\ r - 1 < m
        BY <3>2
      <4> QED
        BY <3>2, <4>1
    <3> QED
      BY <3>1, <3>2
  <2>3. Is(g, m)
    <3>1. g = [r \in 0 .. m |-> g[r]]
      OBVIOUS
    <3> QED
      BY <2>2, <3>1
  <2> HIDE DEF g, Is
  <2>4. \E h : Is(h, m)
    BY <2>3
  <2> QED
    BY <2>4
<1>3. n \in S
  <2> HIDE DEF S
  <2>1. \A m \in 0 .. n : m \in S
    BY <1>1, <1>2, CountUp
  <2> QED
    BY <2>1
<1> DEFINE h == CHOOSE f : Is(f, n)
<1>4. Is(h, n)
  BY <1>3
<1>5. ReadSevens(d) = h[n].d
  BY DEF ReadSevens, While, Loop, start
<1>6. h[0] = start /\ \A r \in 1 .. n : h[r] = round(h[r - 1])
  <2> HIDE DEF round
  <2>1. 0 \in 0 .. n /\ \A r \in 1 .. n : r \in 0 .. n /\ r # 0
    OBVIOUS
  <2> QED
    BY <1>4, <2>1
<1>7. IsReadSevens(h, d, n)
  BY <1>6 DEF IsReadSevens, start
<1> QED
  BY <1>5, <1>7

\* A state of that loop, with all of its parts.
IsReadingSevens(s, D, p, v, ok, w, more) ==
  /\ DOMAIN s = {"d", "weight", "more"}
  /\ IsDec(s.d, D, p, 0, v, ok) /\ s.weight = w /\ s.more = more

LEMMA ReadSevenIs ==
  ASSUME NEW D \in Seq(0 .. 255), NEW p \in Nat, NEW v \in Nat, NEW w \in Nat, NEW more, NEW s,
         IsReadingSevens(s, D, p, v, TRUE, w, more)
  PROVE  /\ p >= Len(D) => IsReadingSevens(ReadSeven(s), D, p, v, FALSE, w, more)
         /\ p < Len(D) =>
              LET b == D[p + 1]
              IN  IsReadingSevens(ReadSeven(s), D, p + 1, v + (b % 128) * w, TRUE, w * 128, b >= 128)
<1> DEFINE b == D[p + 1]
           u == v + (b % 128) * w
           f == [s EXCEPT !.d = Fail(@)]
           e == [s.d EXCEPT !.val = u, !.pos = p + 1]
           g == [d |-> e, weight |-> w * 128, more |-> b >= 128]
<1>1. s.d.data = D /\ s.d.pos = p /\ s.d.val = v /\ s.weight = w
  BY DEF IsReadingSevens, IsDec
<1>2. IsReadingSevens(f, D, p, v, FALSE, w, more)
  <2>1. IsDec(Fail(s.d), D, p, 0, v, FALSE)
    BY FailDec DEF IsReadingSevens
  <2> QED
    BY <2>1 DEF IsReadingSevens
<1>3. IsReadingSevens(g, D, p + 1, u, TRUE, w * 128, b >= 128)
  <2> HIDE DEF b, u
  <2>1. IsDec(e, D, p + 1, 0, u, TRUE)
    BY DEF IsReadingSevens, IsDec
  <2> HIDE DEF e
  <2> QED
    BY <2>1 DEF IsReadingSevens
<1>4. ReadSeven(s) = IF p >= Len(D) THEN f ELSE g
  BY <1>1 DEF ReadSeven, Eod
<1> HIDE DEF f, g, u
<1>5. p >= Len(D) => ReadSeven(s) = f
  BY <1>4
<1>6. p < Len(D) => ReadSeven(s) = g
  BY <1>4
<1>7. p < Len(D) => IsReadingSevens(ReadSeven(s), D, p + 1, u, TRUE, w * 128, b >= 128)
  BY <1>3, <1>6
<1>8. p >= Len(D) => IsReadingSevens(ReadSeven(s), D, p, v, FALSE, w, more)
  BY <1>2, <1>5
<1> USE DEF u
<1> QED
  BY <1>7, <1>8

\* Whatever the bytes are, a number is read from whole bytes, or all fails.
LEMMA ReadSevensType ==
  ASSUME NEW D \in Seq(0 .. 255), NEW p \in Nat, p <= Len(D), NEW v \in Nat, NEW d,
         IsDec(d, D, p, 0, v, TRUE)
  PROVE  \E q \in Nat, u \in Nat, ok \in BOOLEAN :
           IsDec(ReadSevens(d), D, q, 0, u, ok) /\ q <= Len(D)
<1> DEFINE n == Len(D) - p + 1
<1>1. n \in Nat /\ n = Len(d.data) - d.pos + 1
  BY DEF IsDec
<1> HIDE DEF n
<1>2. PICK s : IsReadSevens(s, d, n) /\ ReadSevens(d) = s[n].d
  BY <1>1, ReadSevensRun
<1> DEFINE Typed(x) == \E q \in Nat, u \in Nat, ok \in BOOLEAN, w \in Nat, more \in BOOLEAN :
                         IsReadingSevens(x, D, q, u, ok, w, more) /\ q <= Len(D)
           S == {r \in Nat : Typed(s[r])}
<1>3. 0 \in S
  <2>1. s[0] = [d |-> d, weight |-> 1, more |-> TRUE]
    BY <1>2 DEF IsReadSevens
  <2>2. DOMAIN s[0] = {"d", "weight", "more"} /\ s[0].d = d /\ s[0].weight = 1 /\ s[0].more = TRUE
    BY <2>1
  <2>3. IsReadingSevens(s[0], D, p, v, TRUE, 1, TRUE)
    BY <2>2 DEF IsReadingSevens
  <2> QED
    BY <2>3
<1>4. ASSUME NEW r \in 1 .. n, r - 1 \in S PROVE r \in S
  <2> DEFINE x == s[r - 1]
  <2>1. PICK q \in Nat, u \in Nat, ok \in BOOLEAN, w \in Nat, more \in BOOLEAN :
          IsReadingSevens(x, D, q, u, ok, w, more) /\ q <= Len(D)
    BY <1>4
  <2>2. s[r] = IF x.d.ok /\ x.more THEN ReadSeven(x) ELSE x
    BY <1>2 DEF IsReadSevens
  <2>3. x.d.ok = ok
    BY <2>1 DEF IsReadingSevens, IsDec
  <2> HIDE DEF x
  <2>4. Typed(x)
    BY <2>1
  <2>5. ASSUME ok = TRUE PROVE Typed(ReadSeven(x))
    <3>1. CASE q = Len(D)
      <4>1. IsReadingSevens(ReadSeven(x), D, q, u, FALSE, w, more)
        BY <2>1, <2>5, <3>1, ReadSevenIs
      <4> QED
        BY <2>1, <4>1
    <3>2. CASE q < Len(D)
      <4> DEFINE b == D[q + 1]
                 t == u + (b % 128) * w
                 y == w * 128
                 m == b >= 128
      <4>1. q + 1 \in 1 .. Len(D) /\ q + 1 \in Nat /\ q + 1 <= Len(D)
        BY <3>2
      <4>2. b \in Nat
        <5>1. b \in 0 .. 255
          BY <4>1, ElementOfSeq
        <5> HIDE DEF b
        <5> QED
          BY <5>1
      <4>3. IsReadingSevens(ReadSeven(x), D, q + 1, t, TRUE, y, m)
        BY <2>1, <2>5, <3>2, ReadSevenIs
      <4>4. t \in Nat /\ y \in Nat /\ m \in BOOLEAN
        <5> HIDE DEF b
        <5>1. b % 128 \in Nat
          BY <4>2
        <5> QED
          BY <5>1
      <4> HIDE DEF b, t, y, m
      <4> QED
        BY <4>1, <4>3, <4>4
    <3> QED
      BY <2>1, <3>1, <3>2
  <2>6. Typed(s[r])
    <3> HIDE DEF Typed
    <3>1. s[r] = x \/ (ok = TRUE /\ s[r] = ReadSeven(x))
      BY <2>2, <2>3
    <3> QED
      BY <2>4, <2>5, <3>1
  <2> QED
    BY <2>6
<1>5. n \in S
  <2> HIDE DEF S
  <2>1. \A m \in 0 .. n : m \in S
    BY <1>1, <1>3, <1>4, CountUp
  <2> QED
    BY <1>1, <2>1
<1>6. PICK q \in Nat, u \in Nat, ok \in BOOLEAN, w \in Nat, more \in BOOLEAN :
        IsReadingSevens(s[n], D, q, u, ok, w, more) /\ q <= Len(D)
  BY <1>5
<1> QED
  BY <1>2, <1>6 DEF IsReadingSevens

\* The bytes xs stand in D after the first p.
Holds(D, p, xs) ==
  p + Len(xs) <= Len(D) /\ \A j \in 1 .. Len(xs) : D[p + j] = xs[j]

HasRest(D, p, x, xs) ==
  /\ p < Len(D) /\ D[p + 1] = x
  /\ Holds(D, p + 1, xs)
  /\ Len(<<x>> \o xs) = 1 + Len(xs)

LEMMA HoldsRest ==
  ASSUME NEW D \in Seq(0 .. 255), NEW p \in Nat, NEW x \in 0 .. 255, NEW xs \in Seq(0 .. 255),
         Holds(D, p, <<x>> \o xs)
  PROVE  HasRest(D, p, x, xs)
<1> DEFINE ys == <<x>> \o xs
<1>1. /\ Len(ys) = 1 + Len(xs)
      /\ Len(xs) \in Nat
      /\ ys[1] = x
      /\ \A j \in 1 .. Len(xs) : ys[j + 1] = xs[j]
  OBVIOUS
<1>2. p + Len(ys) <= Len(D) /\ \A j \in 1 .. Len(ys) : D[p + j] = ys[j]
  BY DEF Holds
<1> HIDE DEF ys
<1>3. 1 \in 1 .. Len(ys) /\ \A j \in 1 .. Len(xs) : j + 1 \in 1 .. Len(ys) /\ (p + 1) + j = p + (j + 1)
  BY <1>1
<1>4. D[p + 1] = x
  BY <1>1, <1>2, <1>3
<1>5. \A j \in 1 .. Len(xs) : D[(p + 1) + j] = xs[j]
  BY <1>1, <1>2, <1>3
<1>6. p < Len(D) /\ (p + 1) + Len(xs) <= Len(D)
  BY <1>1, <1>2
<1> USE DEF ys
<1> QED
  BY <1>1, <1>4, <1>5, <1>6 DEF Holds, HasRest

\* What Sevens wrote is read: adds what is left to be read up to the integer.
LEMMA ReadSevensOfSevens ==
  ASSUME NEW D \in Seq(0 .. 255), NEW p \in Nat, NEW v \in Nat, NEW i \in Nat, NEW d,
         IsDec(d, D, p, 0, v, TRUE), Holds(D, p, Sevens(i))
  PROVE  IsDec(ReadSevens(d), D, p + Len(Sevens(i)), 0, v + i, TRUE)
<1> DEFINE n == Len(D) - p + 1
<1>0. PICK f : IsSevens(f, i) /\ Sevens(i) = f[i]
  BY SevensRun
<1>1. \A k \in 0 .. i : f[k] \in Seq(0 .. 255) /\ Len(f[k]) \in Nat /\ Len(f[k]) >= 1
  BY <1>0, SevensAreBytes
<1> DEFINE end == p + Len(f[i])
<1>2. i \in 0 .. i /\ end \in Nat /\ end <= Len(D)
  BY <1>0, <1>1 DEF Holds
<1>3. n \in Nat /\ n = Len(d.data) - d.pos + 1
  BY <1>1, <1>2 DEF IsDec
<1>4. PICK s : IsReadSevens(s, d, n) /\ ReadSevens(d) = s[n].d
  BY <1>3, ReadSevensRun
<1> HIDE DEF n
<1> DEFINE Reading(r, w, k) ==
             /\ IsReadingSevens(s[r], D, p + r, v + i - w * k, TRUE, w, TRUE)
             /\ v + i - w * k \in Nat
             /\ Holds(D, p + r, f[k]) /\ p + r + Len(f[k]) = end
           Read(r) == \E w \in Nat : IsReadingSevens(s[r], D, end, v + i, TRUE, w, FALSE)
           S == {r \in Nat : Read(r) \/ \E w \in Nat, k \in 0 .. i : Reading(r, w, k)}
<1>5. 0 \in S
  <2>1. s[0] = [d |-> d, weight |-> 1, more |-> TRUE]
    BY <1>4 DEF IsReadSevens
  <2>2. DOMAIN s[0] = {"d", "weight", "more"} /\ s[0].d = d /\ s[0].weight = 1 /\ s[0].more = TRUE
    BY <2>1
  <2>3. IsReadingSevens(s[0], D, p, v, TRUE, 1, TRUE)
    BY <2>2 DEF IsReadingSevens
  <2>4. v + i - 1 * i = v /\ p + 0 = p /\ 1 \in Nat
    OBVIOUS
  <2>5. Reading(0, 1, i)
    BY <1>0, <1>2, <2>3, <2>4
  <2> QED
    BY <1>2, <2>4, <2>5
<1>6. ASSUME NEW r \in 1 .. n, r - 1 \in S PROVE r \in S
  <2> DEFINE x == s[r - 1]
  <2>1. s[r] = IF x.d.ok /\ x.more THEN ReadSeven(x) ELSE x
    BY <1>4 DEF IsReadSevens
  <2>4. /\ Read(r) => r \in S
        /\ \A w \in Nat, k \in 0 .. i : Reading(r, w, k) => r \in S
    <3> HIDE DEF Read, Reading
    <3> QED
      OBVIOUS
  <2>2. CASE Read(r - 1)
    <3>1. x.more = FALSE
      BY <2>2 DEF IsReadingSevens
    <3>2. s[r] = x
      BY <2>1, <3>1
    <3>3. Read(r)
      BY <2>2, <3>2
    <3> HIDE DEF S, Read
    <3> QED
      BY <2>4, <3>3
  <2>3. CASE \E w \in Nat, k \in 0 .. i : Reading(r - 1, w, k)
    <3> DEFINE q == p + (r - 1)
    <3>1. PICK w \in Nat, k \in 0 .. i : Reading(r - 1, w, k)
      BY <2>3
    <3> DEFINE u == v + i - w * k
    <3>2. IsReadingSevens(x, D, q, u, TRUE, w, TRUE) /\ u \in Nat /\ q \in Nat
      <4>1. IsReadingSevens(x, D, q, u, TRUE, w, TRUE)
        BY <3>1, Zenon
      <4>2. u \in Nat
        BY <3>1, Zenon
      <4>3. q \in Nat
        OBVIOUS
      <4> QED
        BY <4>1, <4>2, <4>3
    <3>6. /\ f[k] \in Seq(0 .. 255) /\ Len(f[k]) \in Nat
          /\ Holds(D, q, f[k]) /\ q + Len(f[k]) = end
      BY <1>1, <3>1
    <3>3. s[r] = ReadSeven(x)
      BY <2>1, <3>2 DEF IsReadingSevens, IsDec
    <3>4. CASE k < 128
      <4>1. f[k] = <<k>>
        BY <1>0, <3>4, LastOfSevens, Zenon
      <4>2. q < Len(D) /\ D[q + 1] = k /\ q + 1 = end
        <5>1. Len(f[k]) = 1 /\ f[k][1] = k
          BY <4>1
        <5>2. q + 1 <= Len(D) /\ D[q + 1] = f[k][1]
          BY <3>6, <5>1 DEF Holds
        <5> HIDE DEF q, end
        <5> QED
          BY <1>2, <3>2, <3>6, <5>1, <5>2
      <4>3. k % 128 = k /\ (k >= 128) = FALSE
        BY <3>4
      <4>4. u + k * w = v + i /\ w * 128 \in Nat
        OBVIOUS
      <4>5. IsReadingSevens(ReadSeven(x), D, q + 1, u + (D[q + 1] % 128) * w, TRUE, w * 128, D[q + 1] >= 128)
        BY <3>2, <4>2, ReadSevenIs
      <4>6. IsReadingSevens(s[r], D, end, v + i, TRUE, w * 128, FALSE)
        BY <3>3, <4>2, <4>3, <4>4, <4>5
      <4>7. Read(r)
        BY <4>4, <4>6
      <4> HIDE DEF S, Read
      <4> QED
        BY <2>4, <4>7
    <3>5. CASE k >= 128
      <4>0. IsMore(f, k)
        BY <1>0, <3>5, MoreOfSevens
      <4> DEFINE b == (k % 128) + 128
                 m == k \div 128
      <4>1. f[k] = <<b>> \o f[m]
        BY <4>0 DEF IsMore
      <4>2. b \in 0 .. 255 /\ m \in 0 .. i /\ b % 128 = k % 128 /\ b >= 128 /\ k = 128 * m + (k % 128)
        BY <3>5
      <4>3. Holds(D, q, <<b>> \o f[m]) /\ f[m] \in Seq(0 .. 255)
        BY <1>1, <3>1, <4>1, <4>2
      <4>4. q < Len(D) /\ D[q + 1] = b /\ Holds(D, q + 1, f[m]) /\ Len(f[k]) = 1 + Len(f[m])
        <5> HIDE DEF b, m, q, u
        <5>1. q \in Nat /\ b \in 0 .. 255
          BY <3>2, <4>2
        <5>2. HasRest(D, q, b, f[m])
          BY <4>3, <5>1, HoldsRest
        <5> QED
          BY <4>1, <5>2 DEF HasRest
      <4>5. IsReadingSevens(ReadSeven(x), D, q + 1, u + (D[q + 1] % 128) * w, TRUE, w * 128, D[q + 1] >= 128)
        BY <3>2, <4>4, ReadSevenIs
      <4> DEFINE y == w * 128
                 c == k % 128
      <4>6. y \in Nat /\ u + c * w = v + i - y * m /\ u + c * w \in Nat
        <5>1. c \in Nat /\ m \in Nat /\ k = 128 * m + c /\ u = v + i - w * k
          BY <4>2
        <5> HIDE DEF c, m, u
        <5>2. w * k = y * m + c * w
          BY <5>1
        <5> QED
          BY <3>2, <5>1, <5>2
      <4>7. IsReadingSevens(s[r], D, q + 1, v + i - y * m, TRUE, y, TRUE)
        <5> HIDE DEF b, m, u
        <5>1. D[q + 1] % 128 = c /\ (D[q + 1] >= 128) = TRUE
          BY <4>2, <4>4
        <5> QED
          BY <3>3, <4>5, <4>6, <5>1
      <4>8. q + 1 = p + r /\ p + r + Len(f[m]) = end
        <5>1. q + 1 = p + r /\ p + r \in Nat
          BY <1>3
        <5> HIDE DEF q, end, m, u
        <5>2. Len(f[m]) \in Nat
          BY <1>1, <4>2
        <5>3. q + (1 + Len(f[m])) = end
          BY <3>6, <4>4
        <5> DEFINE l == Len(f[m])
                   t == p + r
        <5>4. q \in Nat
          BY <3>2
        <5>5. q + 1 = t /\ t \in Nat /\ l \in Nat /\ q + (1 + l) = end
          BY <5>1, <5>2, <5>3
        <5> HIDE DEF l, t
        <5>6. q + 1 = t /\ t + l = end
          BY <5>4, <5>5
        <5> USE DEF l, t
        <5> QED
          BY <5>6
      <4>9. Reading(r, y, m)
        BY <4>4, <4>6, <4>7, <4>8
      <4> HIDE DEF S, Read, Reading, y, m
      <4> QED
        BY <2>4, <4>2, <4>6, <4>9
    <3>7. k < 128 \/ k >= 128
      OBVIOUS
    <3> HIDE DEF S
    <3> QED
      BY <3>4, <3>5, <3>7
  <2> QED
    BY <1>6, <2>2, <2>3
<1>7. n \in S
  <2> HIDE DEF S
  <2>1. \A m \in 0 .. n : m \in S
    BY <1>3, <1>5, <1>6, CountUp
  <2> QED
    BY <1>3, <2>1
<1>8. ASSUME NEW w \in Nat, NEW k \in 0 .. i, Reading(n, w, k) PROVE FALSE
  <2>1. p + n + Len(f[k]) = end /\ Len(f[k]) \in Nat /\ Len(f[k]) >= 1
    BY <1>1, <1>8
  <2>2. p + n = Len(D) + 1
    BY DEF n
  <2> HIDE DEF end
  <2> QED
    BY <1>2, <2>1, <2>2
<1>9. Read(n)
  BY <1>7, <1>8
<1> QED
  BY <1>0, <1>4, <1>9 DEF IsReadingSevens
-----------------------------------------------------------------------------
(* Integers.                                                               *)

\* The values that 8 - b bits have room for.
LEMMA Rooms ==
  ASSUME NEW b \in 0 .. 7
  PROVE  /\ 2 ^ (8 - b) \in {256, 128, 64, 32, 16, 8, 4, 2, 1}
         /\ b = 1 => 2 ^ (8 - b) = 128
         /\ b = 2 => 2 ^ (8 - b) = 64
         /\ b = 3 => 2 ^ (8 - b) = 32
         /\ b = 4 => 2 ^ (8 - b) = 16
<1>1. CASE b = 0
  <2>1. 8 - b = 8
    BY <1>1
  <2>2. 2 ^ (8 - b) = 256
    BY <2>1, PowersOfTwo
  <2> QED
    BY <1>1, <2>2
<1>2. CASE b # 0
  <2> DEFINE a == b - 1
  <2>1. a \in 0 .. 7 /\ 7 - a = 8 - b /\ a + 1 = b
    BY <1>2
  <2> DEFINE w == 2 ^ (7 - a)
  <2>2. w = 2 ^ (8 - b)
    BY <2>1
  <2> HIDE DEF a
  <2>3. /\ w \in {128, 64, 32, 16, 8, 4, 2, 1}
        /\ a = 0 => w = 128
        /\ a = 1 => w = 64
        /\ a = 2 => w = 32
        /\ a = 3 => w = 16
    <3>1. IsWeight(a, w)
      BY <2>1, Weights
    <3> HIDE DEF w
    <3> QED
      BY <3>1 DEF IsWeight
  <2> HIDE DEF w
  <2>4. /\ w \in {256, 128, 64, 32, 16, 8, 4, 2, 1}
        /\ b = 1 => w = 128
        /\ b = 2 => w = 64
        /\ b = 3 => w = 32
        /\ b = 4 => w = 16
    BY <2>1, <2>3
  <2> QED
    BY <2>2, <2>4
<1> QED
  BY <1>1, <1>2

\* What is left of a byte of which b bits are taken, and the decoder after it.
Prefix(D, p, b) == D[p + 1] % 2 ^ (8 - b)

AfterPrefix(d) ==
  [d EXCEPT !.val = Prefix(d.data, d.pos, d.bit), !.bit = 0, !.pos = d.pos + 1]

LEMMA PrefixIs ==
  ASSUME NEW D \in Seq(0 .. 255), NEW p \in Nat, p < Len(D), NEW b \in 0 .. 7
  PROVE  Prefix(D, p, b) \in Nat
<1> DEFINE w == 2 ^ (8 - b)
           x == D[p + 1]
<1>1. w \in {256, 128, 64, 32, 16, 8, 4, 2, 1}
  BY Rooms
<1>2. x \in 0 .. 255
  <2>1. p + 1 \in 1 .. Len(D)
    OBVIOUS
  <2> QED
    BY <2>1, ElementOfSeq
<1> HIDE DEF w, x
<1>3. /\ x % 256 \in Nat /\ x % 128 \in Nat /\ x % 64 \in Nat /\ x % 32 \in Nat
      /\ x % 16 \in Nat /\ x % 8 \in Nat /\ x % 4 \in Nat /\ x % 2 \in Nat /\ x % 1 \in Nat
  BY <1>2
<1>4. x % w \in Nat
  BY <1>1, <1>3, Zenon
<1> USE DEF w, x
<1> QED
  BY <1>4 DEF Prefix

LEMMA ReadIntIs ==
  ASSUME NEW D \in Seq(0 .. 255), NEW p \in Nat, NEW b \in 0 .. 7, NEW v, NEW d,
         IsDec(d, D, p, b, v, TRUE)
  PROVE  /\ p >= Len(D) => IsDec(ReadInt(d), D, p, b, v, FALSE)
         /\ p < Len(D) =>
              /\ IsDec(AfterPrefix(d), D, p + 1, 0, Prefix(D, p, b), TRUE)
              /\ ReadInt(d) = IF Prefix(D, p, b) < 2 ^ (8 - b) - 1
                              THEN AfterPrefix(d) ELSE ReadSevens(AfterPrefix(d))
<1> DEFINE i == Prefix(D, p, b)
           first == AfterPrefix(d)
           f == IF i < 2 ^ (8 - b) - 1 THEN first ELSE ReadSevens(first)
<1>1. d.data = D /\ d.pos = p /\ d.bit = b /\ d.ok = TRUE
  BY DEF IsDec
<1>2. ReadInt(d) = IF p >= Len(D) THEN Fail(d) ELSE f
  BY <1>1 DEF ReadInt, Eod, Prefix, AfterPrefix
<1>3. IsDec(Fail(d), D, p, b, v, FALSE)
  BY FailDec
<1>4. IsDec(first, D, p + 1, 0, i, TRUE)
  <2>1. first = [d EXCEPT !.val = i, !.bit = 0, !.pos = p + 1]
    BY <1>1 DEF AfterPrefix
  <2> HIDE DEF i, first
  <2> QED
    BY <2>1 DEF IsDec
<1> HIDE DEF f, first
<1>5. p < Len(D) => ReadInt(d) = f
  BY <1>2
<1>6. p >= Len(D) => ReadInt(d) = Fail(d)
  BY <1>2
<1> USE DEF f, first
<1> QED
  BY <1>3, <1>4, <1>5, <1>6

\* A decoder of D in any state; the bits it has yet to read.
Decoding(d, D) ==
  /\ DOMAIN d = {"data", "pos", "bit", "val", "ok"}
  /\ d.data = D /\ d.pos \in Nat /\ d.bit \in 0 .. 7 /\ d.ok \in BOOLEAN
  /\ d.pos < Len(D) \/ (d.pos = Len(D) /\ d.bit = 0)

LEMMA DecodingIsDec ==
  ASSUME NEW D, NEW d, Decoding(d, D)
  PROVE  IsDec(d, D, d.pos, d.bit, d.val, d.ok)
BY DEF Decoding, IsDec

\* An integer ends with its byte, or all fails, whatever the bytes are.
LEMMA ReadIntType ==
  ASSUME NEW D \in Seq(0 .. 255), NEW d, Decoding(d, D)
  PROVE  /\ Decoding(ReadInt(d), D)
         /\ ReadInt(d).ok => ReadInt(d).bit = 0 /\ ReadInt(d).val \in Nat
<1> DEFINE p == d.pos
           b == d.bit
           v == d.val
           i == Prefix(D, p, b)
<1>0. Len(D) \in Nat /\ p \in Nat /\ p <= Len(D) /\ b \in 0 .. 7 /\ IsDec(d, D, p, b, v, d.ok)
  BY DecodingIsDec DEF Decoding
<1>1. CASE d.ok = FALSE
  <2>1. ReadInt(d) = Fail(d)
    BY <1>1 DEF ReadInt
  <2> QED
    BY <2>1 DEF Fail, Decoding
<1>2. CASE d.ok = TRUE /\ p >= Len(D)
  <2>1. IsDec(ReadInt(d), D, p, b, v, FALSE)
    BY <1>0, <1>2, ReadIntIs
  <2> QED
    BY <1>0, <2>1 DEF IsDec, Decoding
<1>3. CASE d.ok = TRUE /\ p < Len(D)
  <2> DEFINE first == AfterPrefix(d)
  <2>0. i \in Nat
    BY <1>0, <1>3, PrefixIs
  <2> HIDE DEF i
  <2>1. /\ IsDec(first, D, p + 1, 0, i, TRUE)
        /\ ReadInt(d) = IF i < 2 ^ (8 - b) - 1 THEN first ELSE ReadSevens(first)
    BY <1>0, <1>3, ReadIntIs DEF i
  <2>2. p + 1 \in Nat /\ p + 1 <= Len(D) /\ 0 \in 0 .. 7
    BY <1>0, <1>3
  <2> DEFINE s == ReadSevens(first)
  <2>3. PICK q \in Nat, u \in Nat, good \in BOOLEAN : IsDec(s, D, q, 0, u, good) /\ q <= Len(D)
    BY <2>0, <2>1, <2>2, ReadSevensType
  <2>4. Decoding(s, D) /\ s.bit = 0 /\ s.val \in Nat
    <3> HIDE DEF s
    <3> QED
      BY <1>0, <2>2, <2>3 DEF IsDec, Decoding
  <2>5. Decoding(first, D) /\ first.bit = 0 /\ first.val \in Nat
    <3> DEFINE next == p + 1
    <3>0. IsDec(first, D, next, 0, i, TRUE)
      BY <2>1, Zenon
    <3>1. next \in Nat /\ next <= Len(D)
      BY <2>2
    <3> HIDE DEF first, next
    <3>2. next < Len(D) \/ next = Len(D)
      BY <1>0, <3>1
    <3> QED
      BY <2>0, <2>2, <3>0, <3>1, <3>2 DEF IsDec, Decoding
  <2>6. ReadInt(d) = first \/ ReadInt(d) = s
    <3> HIDE DEF first, s
    <3> QED
      BY <2>1 DEF s
  <2> HIDE DEF first, s
  <2> QED
    BY <2>4, <2>5, <2>6
<1> QED
  BY <1>0, <1>1, <1>2, <1>3 DEF Decoding

\* An integer stands between the p-th byte and the q-th, after the flags h and within
\* a prefix of which m is the largest value.
IntIn(D, p, q, h, m, i) ==
  /\ p < Len(D)
  /\ i < m => D[p + 1] = h + i /\ q = p + 1
  /\ i >= m => /\ D[p + 1] = h + m
               /\ Holds(D, p + 1, Sevens(i - m)) /\ q = p + 1 + Len(Sevens(i - m))

\* b flags with the value h in their byte, and the largest value of the other bits.
IsFlags(b, h, m) ==
  \/ b = 1 /\ h \in {0, 128} /\ m = 127
  \/ b = 2 /\ h = 64 /\ m = 63
  \/ b = 3 /\ h = 32 /\ m = 31
  \/ b = 4 /\ h \in {0, 16} /\ m = 15

LEMMA FlagsAre ==
  ASSUME NEW b, NEW h, NEW m, IsFlags(b, h, m)
  PROVE  /\ b \in 0 .. 7 /\ b >= 1 /\ m \in Nat /\ h \in Nat /\ h + m <= 255
         /\ 2 ^ (8 - b) - 1 = m
         /\ \A x \in 0 .. m : (h + x) % 2 ^ (8 - b) = x
<1> DEFINE w == 2 ^ (8 - b)
<1>1. CASE b = 1 /\ h \in {0, 128} /\ m = 127
  <2>1. w = 128 /\ b \in 0 .. 7
    BY <1>1, Rooms
  <2> HIDE DEF w
  <2>2. \A x \in 0 .. 127 : (0 + x) % 128 = x /\ (128 + x) % 128 = x
    OBVIOUS
  <2> QED
    BY <1>1, <2>1, <2>2
<1>2. CASE b = 2 /\ h = 64 /\ m = 63
  <2>1. w = 64 /\ b \in 0 .. 7
    BY <1>2, Rooms
  <2> HIDE DEF w
  <2> QED
    BY <1>2, <2>1
<1>3. CASE b = 3 /\ h = 32 /\ m = 31
  <2>1. w = 32 /\ b \in 0 .. 7
    BY <1>3, Rooms
  <2> HIDE DEF w
  <2> QED
    BY <1>3, <2>1
<1>4. CASE b = 4 /\ h \in {0, 16} /\ m = 15
  <2>1. w = 16 /\ b \in 0 .. 7
    BY <1>4, Rooms
  <2> HIDE DEF w
  <2>2. \A x \in 0 .. 15 : (0 + x) % 16 = x /\ (16 + x) % 16 = x
    OBVIOUS
  <2> QED
    BY <1>4, <2>1, <2>2
<1> QED
  BY <1>1, <1>2, <1>3, <1>4 DEF IsFlags

LEMMA ReadIntOf ==
  ASSUME NEW D \in Seq(0 .. 255), NEW p \in Nat, NEW b, NEW h, NEW m, IsFlags(b, h, m),
         NEW v, NEW d, IsDec(d, D, p, b, v, TRUE), NEW i \in Nat, NEW q, IntIn(D, p, q, h, m, i)
  PROVE  IsDec(ReadInt(d), D, q, 0, i, TRUE)
<1> DEFINE r == Prefix(D, p, b)
           first == AfterPrefix(d)
           w == 2 ^ (8 - b)
<1>1. /\ b \in 0 .. 7 /\ m \in Nat /\ h \in Nat /\ w - 1 = m
      /\ \A x \in 0 .. m : (h + x) % w = x
  BY FlagsAre
<1>2. p < Len(D)
  BY DEF IntIn
<1>3. /\ IsDec(first, D, p + 1, 0, r, TRUE)
      /\ ReadInt(d) = IF r < w - 1 THEN first ELSE ReadSevens(first)
  BY <1>1, <1>2, ReadIntIs
<1>4. ASSUME NEW x \in 0 .. m, D[p + 1] = h + x PROVE r = x
  BY <1>1, <1>4 DEF Prefix
<1> HIDE DEF r, first, w
<1>5. CASE i < m
  <2>1. r = i /\ q = p + 1
    BY <1>1, <1>4, <1>5 DEF IntIn
  <2> QED
    BY <1>1, <1>3, <1>5, <2>1
<1>6. CASE i >= m
  <2>1. r = m
    BY <1>1, <1>4, <1>6 DEF IntIn
  <2> DEFINE j == i - m
  <2>2. j \in Nat /\ m + j = i /\ p + 1 \in Nat
    BY <1>1, <1>6
  <2>3. Holds(D, p + 1, Sevens(j)) /\ q = p + 1 + Len(Sevens(j))
    BY <1>6 DEF IntIn
  <2> HIDE DEF j
  <2>4. ReadInt(d) = ReadSevens(first)
    BY <1>1, <1>3, <2>1
  <2>5. IsDec(ReadSevens(first), D, p + 1 + Len(Sevens(j)), 0, m + j, TRUE)
    BY <1>1, <1>3, <2>1, <2>2, <2>3, ReadSevensOfSevens
  <2> QED
    BY <2>2, <2>3, <2>4, <2>5
<1>7. i < m \/ i >= m
  BY <1>1
<1> QED
  BY <1>5, <1>6, <1>7
-----------------------------------------------------------------------------
(* Strings, of any bytes.                                                  *)

LEMMA BitPositions ==
  ASSUME NEW a \in Nat
  PROVE  /\ a \div 8 \in Nat /\ a % 8 \in 0 .. 7 /\ 8 * (a \div 8) + (a % 8) = a
         /\ \A m \in Nat : a <= 8 * m => a \div 8 < m \/ (a \div 8 = m /\ a % 8 = 0)
OBVIOUS

LEMMA AtType ==
  ASSUME NEW D \in Seq(0 .. 255), NEW d, Decoding(d, D)
  PROVE  At(d) \in Nat /\ 8 * d.pos <= At(d) /\ At(d) <= 8 * Len(D)
<1> DEFINE p == d.pos
           b == d.bit
<1>1. Len(D) \in Nat /\ p \in Nat /\ b \in 0 .. 7 /\ (p < Len(D) \/ (p = Len(D) /\ b = 0))
  BY DEF Decoding
<1> HIDE DEF p, b
<1>2. 8 * p + b \in Nat /\ 8 * p <= 8 * p + b /\ 8 * p + b <= 8 * Len(D)
  BY <1>1
<1> QED
  BY <1>2 DEF At, p, b

LEMMA ReadBitType ==
  ASSUME NEW D \in Seq(0 .. 255), NEW d, Decoding(d, D)
  PROVE  Decoding(ReadBit(d), D)
<1> DEFINE p == d.pos
           b == d.bit
           x == Bit(D, 8 * p + b)
           r == ReadBit(d)
<1>0. Len(D) \in Nat /\ p \in Nat /\ b \in 0 .. 7 /\ IsDec(d, D, p, b, d.val, d.ok)
      /\ (p < Len(D) \/ (p = Len(D) /\ b = 0)) /\ d.ok \in BOOLEAN
  BY DecodingIsDec DEF Decoding
<1>1. CASE d.ok = FALSE
  <2>1. r = Fail(d)
    BY <1>1 DEF ReadBit
  <2> QED
    BY <2>1 DEF Fail, Decoding
<1>2. CASE d.ok = TRUE
  <2>1. /\ p >= Len(D) => IsDec(r, D, p, b, d.val, FALSE)
        /\ p < Len(D) /\ b = 7 => IsDec(r, D, p + 1, 0, x, TRUE)
        /\ p < Len(D) /\ b < 7 => IsDec(r, D, p, b + 1, x, TRUE)
    <3> DEFINE v == d.val
    <3>1. IsDec(d, D, p, b, v, TRUE)
      BY <1>0, <1>2
    <3> HIDE DEF p, b, v
    <3>2. LET y == Bit(D, 8 * p + b)
              z == ReadBit(d)
          IN  /\ p >= Len(D) => IsDec(z, D, p, b, v, FALSE)
              /\ p < Len(D) /\ b = 7 => IsDec(z, D, p + 1, 0, y, TRUE)
              /\ p < Len(D) /\ b < 7 => IsDec(z, D, p, b + 1, y, TRUE)
      BY <1>0, <3>1, ReadBitDec
    <3> QED
      BY <3>2 DEF v
  <2> HIDE DEF p, b, x, r
  <2>2. CASE p >= Len(D)
    <3>1. Decoding(r, D)
      BY <1>0, <2>1, <2>2 DEF IsDec, Decoding
    <3> QED
      BY <3>1 DEF r
  <2>3. CASE p < Len(D) /\ b = 7
    <3> DEFINE q == p + 1
    <3>1. q \in Nat /\ (q < Len(D) \/ q = Len(D)) /\ 0 \in 0 .. 7
      BY <1>0, <2>3
    <3>2. IsDec(r, D, q, 0, x, TRUE)
      BY <2>1, <2>3
    <3> HIDE DEF q
    <3>3. Decoding(r, D)
      BY <3>1, <3>2 DEF IsDec, Decoding
    <3> QED
      BY <3>3 DEF r
  <2>4. CASE p < Len(D) /\ b < 7
    <3> DEFINE c == b + 1
    <3>1. c \in 0 .. 7
      BY <1>0, <2>4
    <3>2. IsDec(r, D, p, c, x, TRUE)
      BY <2>1, <2>4
    <3> HIDE DEF c
    <3>3. Decoding(r, D)
      BY <1>0, <2>4, <3>1, <3>2 DEF IsDec, Decoding
    <3> QED
      BY <3>3 DEF r
  <2>5. p >= Len(D) \/ (p < Len(D) /\ b = 7) \/ (p < Len(D) /\ b < 7)
    BY <1>0
  <2> QED
    BY <2>2, <2>3, <2>4, <2>5 DEF r
<1> QED
  BY <1>0, <1>1, <1>2

\* No character is written in no bits.
LEMMA Codes ==
  ASSUME NEW c \in DOMAIN Code
  PROVE  Code[c] \in Seq({0, 1}) /\ Len(Code[c]) \in Nat /\ Len(Code[c]) >= 1
<1>1. Code[c] \in Seq({0, 1}) /\ \E i \in 1 .. Len(Code[c]) : Code[c][i] = 0
  BY CodeAssumption
<1>2. Len(Code[c]) \in Nat
  BY <1>1
<1> QED
  BY <1>1, <1>2

\* r is after d, and not beyond the end of the string.
IsAfter(r, d, D, limit) ==
  /\ Decoding(r, D)
  /\ r.ok => /\ At(d) < At(r)
             /\ r.pos < limit \/ (r.pos = limit /\ r.bit = 0)

\* A character takes a bit at least and none beyond its string.
LEMMA ReadHuffmanCharType ==
  ASSUME NEW D \in Seq(0 .. 255), NEW d, Decoding(d, D), d.ok = TRUE,
         NEW limit \in Nat, d.pos < limit
  PROVE  IsAfter(ReadHuffmanChar(d, limit), d, D, limit)
<1> DEFINE end == IF limit < Len(D) THEN limit ELSE Len(D)
           leaf == Leaf(d, end)
           char == CHOOSE c \in leaf : TRUE
           r == ReadHuffmanChar(d, limit)
           a == At(d)
<1>0. /\ Len(D) \in Nat /\ d.data = D /\ d.pos \in Nat /\ d.bit \in 0 .. 7
      /\ a = 8 * d.pos + d.bit /\ a \in Nat /\ a < 8 * limit
  BY DEF Decoding, At
<1>1. r = IF leaf # {} THEN [Skip(d, Len(Code[char])) EXCEPT !.val = char]
          ELSE IF limit > Len(D) THEN Fail(d)
          ELSE [d EXCEPT !.pos = limit, !.bit = 0, !.val = None]
  BY <1>0 DEF ReadHuffmanChar
<1>2. CASE leaf # {}
  <2>1. char \in leaf
    BY <1>2
  <2>2. char \in DOMAIN Code /\ a + Len(Code[char]) <= 8 * end
    BY <2>1 DEF Leaf
  <2> DEFINE n == Len(Code[char])
             e == a + n
             q == e \div 8
             c == e % 8
  <2>3. n \in Nat /\ n >= 1
    BY <2>2, Codes
  <2>4. r = [Skip(d, n) EXCEPT !.val = char]
    BY <1>1, <1>2
  <2> HIDE DEF leaf, char, n, r
  <2>5. e \in Nat /\ end \in Nat /\ end <= Len(D) /\ end <= limit /\ e <= 8 * end /\ a < e
    BY <1>0, <2>2, <2>3 DEF n
  <2>6. /\ DOMAIN r = {"data", "pos", "bit", "val", "ok"}
        /\ r.data = D /\ r.pos = q /\ r.bit = c /\ r.ok = TRUE
    BY <1>0, <2>4 DEF Skip, Decoding
  <2> HIDE DEF a, e, end
  <2>7. q \in Nat /\ c \in 0 .. 7 /\ 8 * q + c = e /\ (q < end \/ (q = end /\ c = 0))
    BY <2>5, BitPositions
  <2> HIDE DEF q, c
  <2>11. q < Len(D) \/ (q = Len(D) /\ c = 0)
    BY <1>0, <2>5, <2>7
  <2>8. Decoding(r, D)
    BY <2>6, <2>7, <2>11 DEF Decoding
  <2>9. At(r) = e
    BY <2>6, <2>7 DEF At
  <2>10. r.pos < limit \/ (r.pos = limit /\ r.bit = 0)
    BY <1>0, <2>5, <2>6, <2>7
  <2> QED
    BY <2>5, <2>8, <2>9, <2>10 DEF r, a, IsAfter
<1>3. CASE leaf = {} /\ limit > Len(D)
  <2>1. r = Fail(d)
    BY <1>1, <1>3
  <2>2. r.ok = FALSE /\ Decoding(r, D)
    BY <2>1 DEF Fail, Decoding
  <2> QED
    BY <2>2 DEF IsAfter
<1>4. CASE leaf = {} /\ ~(limit > Len(D))
  <2>1. r = [d EXCEPT !.pos = limit, !.bit = 0, !.val = None]
    BY <1>1, <1>4
  <2> HIDE DEF r
  <2>2. r.pos = limit /\ r.bit = 0 /\ Decoding(r, D)
    BY <1>0, <1>4, <2>1 DEF Decoding
  <2>3. At(r) = 8 * limit
    BY <2>2 DEF At
  <2> QED
    BY <1>0, <2>2, <2>3 DEF r, IsAfter
<1> QED
  BY <1>2, <1>3, <1>4

\* A round of the loop of ReadHuffman, and the states of that loop.
AddChar(s, dest) ==
  LET r == ReadHuffmanChar(s.d, dest)
  IN  [d |-> r, chars |-> IF r.ok /\ r.val # None THEN Append(s.chars, r.val) ELSE s.chars]

IsReadHuffman(s, d, dest, n) ==
  /\ s[0] = [d |-> d, chars |-> <<>>]
  /\ \A r \in 1 .. n :
       s[r] = IF s[r - 1].d.ok /\ s[r - 1].d.pos < dest THEN AddChar(s[r - 1], dest)
              ELSE s[r - 1]

LEMMA ReadHuffmanRun ==
  ASSUME NEW d, NEW dest, NEW n \in Nat, n = 8 * (Len(d.data) - d.pos) + 1
  PROVE  \E s : /\ IsReadHuffman(s, d, dest, n)
                /\ ReadHuffman(d, dest) = [s[n].d EXCEPT !.val = s[n].chars]
<1> DEFINE start == [d |-> d, chars |-> <<>>]
           round(x) == IF x.d.ok /\ x.d.pos < dest THEN AddChar(x, dest) ELSE x
           Is(f, m) == f = [r \in 0 .. m |-> IF r = 0 THEN start ELSE round(f[r - 1])]
           S == {m \in Nat : \E f : Is(f, m)}
<1> HIDE DEF start
<1>1. 0 \in S
  <2>1. Is([r \in 0 .. 0 |-> start], 0)
    OBVIOUS
  <2> QED
    BY <2>1
<1>2. ASSUME NEW m \in 1 .. n, m - 1 \in S PROVE m \in S
  <2>1. PICK f : Is(f, m - 1)
    BY <1>2
  <2> HIDE DEF round
  <2> DEFINE g == [r \in 0 .. m |-> IF r < m THEN f[r] ELSE round(f[r - 1])]
  <2>2. ASSUME NEW r \in 0 .. m PROVE g[r] = IF r = 0 THEN start ELSE round(g[r - 1])
    <3>1. CASE r < m
      <4>1. r \in 0 .. m - 1 /\ (r # 0 => r - 1 \in 0 .. m - 1)
        BY <3>1
      <4> QED
        BY <2>1, <3>1, <4>1
    <3>2. CASE r = m
      <4>1. r # 0 /\ r - 1 \in 0 .. m /\ r - 1 < m
        BY <3>2
      <4> QED
        BY <3>2, <4>1
    <3> QED
      BY <3>1, <3>2
  <2>3. Is(g, m)
    <3>1. g = [r \in 0 .. m |-> g[r]]
      OBVIOUS
    <3> QED
      BY <2>2, <3>1
  <2> HIDE DEF g, Is
  <2>4. \E h : Is(h, m)
    BY <2>3
  <2> QED
    BY <2>4
<1>3. n \in S
  <2> HIDE DEF S
  <2>1. \A m \in 0 .. n : m \in S
    BY <1>1, <1>2, CountUp
  <2> QED
    BY <2>1
<1> DEFINE h == CHOOSE f : Is(f, n)
<1>4. Is(h, n)
  BY <1>3
<1>5. ReadHuffman(d, dest) = [h[n].d EXCEPT !.val = h[n].chars]
  BY DEF ReadHuffman, While, Loop, start, AddChar
<1>6. h[0] = start /\ \A r \in 1 .. n : h[r] = round(h[r - 1])
  <2> HIDE DEF round
  <2>1. 0 \in 0 .. n /\ \A r \in 1 .. n : r \in 0 .. n /\ r # 0
    OBVIOUS
  <2> QED
    BY <1>4, <2>1
<1>7. IsReadHuffman(h, d, dest, n)
  BY <1>6 DEF IsReadHuffman, start
<1> QED
  BY <1>5, <1>7

\* A Huffman-coded string ends with the byte that its length announces, or all fails.
LEMMA ReadHuffmanType ==
  ASSUME NEW D \in Seq(0 .. 255), NEW d, Decoding(d, D), d.bit = 0,
         NEW dest \in Nat, d.pos <= dest
  PROVE  LET r == ReadHuffman(d, dest)
         IN  Decoding(r, D) /\ (r.ok => r.pos = dest /\ r.bit = 0)
<1> DEFINE n == 8 * (Len(D) - d.pos) + 1
<1>0. /\ Len(D) \in Nat /\ d.data = D /\ d.pos \in Nat
      /\ d.pos < dest \/ d.pos = dest
      /\ d.pos <= Len(D)
  BY DEF Decoding
<1>1. n \in Nat /\ n = 8 * (Len(d.data) - d.pos) + 1
  BY <1>0
<1> HIDE DEF n
<1>2. PICK s : /\ IsReadHuffman(s, d, dest, n)
               /\ ReadHuffman(d, dest) = [s[n].d EXCEPT !.val = s[n].chars]
  BY <1>1, ReadHuffmanRun
<1> DEFINE Active(x) == x.d.ok /\ x.d.pos < dest
           Typed(x) == /\ Decoding(x.d, D)
                       /\ x.d.ok => x.d.pos < dest \/ (x.d.pos = dest /\ x.d.bit = 0)
           I(r) == Typed(s[r]) /\ (Active(s[r]) => At(s[r].d) >= At(d) + r)
           S == {r \in Nat : I(r)}
<1>3. 0 \in S
  <2>1. s[0] = [d |-> d, chars |-> <<>>]
    BY <1>2 DEF IsReadHuffman
  <2>2. s[0].d = d
    BY <2>1
  <2>3. At(d) \in Nat /\ At(d) >= At(d) + 0
    BY DEF At, Decoding
  <2>4. Typed(s[0])
    BY <1>0, <2>2
  <2>5. I(0)
    BY <2>2, <2>3, <2>4
  <2> QED
    BY <2>5
<1>4. ASSUME NEW r \in 1 .. n, r - 1 \in S PROVE r \in S
  <2>0. I(r) => r \in S
    <3> HIDE DEF I
    <3> QED
      OBVIOUS
  <2> DEFINE x == s[r - 1]
  <2>1. s[r] = IF Active(x) THEN AddChar(x, dest) ELSE x
    BY <1>2 DEF IsReadHuffman
  <2>2. I(r - 1)
    BY <1>4
  <2>3. CASE ~Active(x)
    <3>1. s[r] = x
      BY <2>1, <2>3
    <3>2. I(r)
      BY <2>2, <2>3, <3>1
    <3> HIDE DEF S, I
    <3> QED
      BY <2>0, <3>2
  <2>4. CASE Active(x)
    <3> DEFINE y == ReadHuffmanChar(x.d, dest)
    <3>1. Typed(x) /\ At(x.d) >= At(d) + (r - 1)
      BY <2>2, <2>4
    <3>2. x.d.ok = TRUE /\ Decoding(x.d, D) /\ x.d.pos < dest
      BY <2>4, <3>1 DEF Decoding
    <3>3. s[r].d = y
      BY <2>1, <2>4 DEF AddChar
    <3>4. /\ Decoding(y, D)
          /\ y.ok => /\ At(x.d) < At(y)
                     /\ y.pos < dest \/ (y.pos = dest /\ y.bit = 0)
      <4> DEFINE z == x.d
      <4>1. Decoding(z, D) /\ z.ok = TRUE /\ z.pos < dest
        BY <3>2
      <4> HIDE DEF z
      <4>2. IsAfter(ReadHuffmanChar(z, dest), z, D, dest)
        BY <4>1, ReadHuffmanCharType, Zenon
      <4> QED
        BY <4>2 DEF z, IsAfter
    <3>5. At(x.d) \in Nat /\ At(y) \in Nat /\ At(d) \in Nat
      BY <3>2, <3>4, AtType, Zenon
    <3> HIDE DEF x, y
    <3>6. y.ok => At(y) >= At(d) + r
      BY <3>1, <3>4, <3>5
    <3>7. I(r)
      BY <3>3, <3>4, <3>6
    <3> HIDE DEF S, I
    <3> QED
      BY <2>0, <3>7
  <2> QED
    BY <2>3, <2>4
<1>5. n \in S
  <2> HIDE DEF S
  <2>1. \A m \in 0 .. n : m \in S
    BY <1>1, <1>3, <1>4, CountUp
  <2> QED
    BY <1>1, <2>1
<1> DEFINE x == s[n]
<1>6. Typed(x) /\ (Active(x) => At(x.d) >= At(d) + n)
  BY <1>5
<1> HIDE DEF x
<1>7. ~Active(x)
  <2> SUFFICES ASSUME Active(x) PROVE FALSE
    OBVIOUS
  <2>1. At(x.d) >= 8 * d.pos + n
    <3>1. 8 * d.pos <= At(d) /\ At(d) \in Nat
      BY AtType
    <3> DEFINE k == At(d)
               l == At(x.d)
    <3>2. l \in Nat
      BY <1>6, AtType, Zenon
    <3>3. l >= k + n
      BY <1>6
    <3> HIDE DEF k, l
    <3>4. l >= 8 * d.pos + n
      BY <1>0, <1>1, <3>1, <3>2, <3>3 DEF k
    <3> QED
      BY <3>4 DEF l
  <2>2. At(x.d) <= 8 * Len(D) /\ At(x.d) \in Nat
    BY <1>6, AtType, Zenon
  <2>3. 8 * d.pos + n = 8 * Len(D) + 1
    BY <1>0 DEF n
  <2> QED
    BY <1>0, <2>1, <2>2, <2>3
<1>8. Decoding([x.d EXCEPT !.val = x.chars], D)
  BY <1>6 DEF Decoding
<1>9. x.d.ok => x.d.pos = dest /\ x.d.bit = 0
  BY <1>6, <1>7
<1> QED
  BY <1>2, <1>8, <1>9 DEF x, Decoding

LEMMA ReadStringType ==
  ASSUME NEW D \in Seq(0 .. 255), NEW d, Decoding(d, D)
  PROVE  LET sized == ReadInt(ReadBit(d))
             r == ReadString(d)
         IN  /\ Decoding(r, D)
             /\ r.ok => r.pos = sized.pos + sized.val /\ r.bit = 0
<1> DEFINE flag == ReadBit(d)
           sized == ReadInt(flag)
           dest == sized.pos + sized.val
           r == ReadString(d)
           huff == ReadHuffman(sized, dest)
           raw == [sized EXCEPT !.val = SubSeq(D, sized.pos + 1, dest), !.pos = dest]
<1>1. Decoding(flag, D)
  BY ReadBitType
<1> HIDE DEF flag
<1>2. Decoding(sized, D) /\ (sized.ok => sized.bit = 0 /\ sized.val \in Nat)
  BY <1>1, ReadIntType
<1>3. r = IF ~sized.ok THEN Fail(sized)
          ELSE IF flag.val = 1 THEN huff
          ELSE IF dest > Len(D) THEN Fail(sized)
          ELSE raw
  <2>1. d.data = D
    BY DEF Decoding
  <2> QED
    BY <2>1 DEF ReadString, flag
<1> HIDE DEF sized
<1>4. Decoding(Fail(sized), D) /\ Fail(sized).ok = FALSE
  BY <1>2 DEF Fail, Decoding
<1>5. ASSUME sized.ok
      PROVE  Decoding(huff, D) /\ (huff.ok => huff.pos = dest /\ huff.bit = 0)
  <2>1. dest \in Nat /\ sized.pos <= dest /\ sized.bit = 0
    BY <1>2, <1>5 DEF Decoding
  <2> HIDE DEF dest
  <2> QED
    BY <1>2, <2>1, ReadHuffmanType
<1>6. ASSUME sized.ok, ~(dest > Len(D))
      PROVE  Decoding(raw, D) /\ raw.pos = dest /\ raw.bit = 0
  <2>1. dest \in Nat /\ sized.bit = 0 /\ (dest < Len(D) \/ dest = Len(D))
    BY <1>2, <1>6 DEF Decoding
  <2> HIDE DEF dest
  <2> QED
    BY <1>2, <2>1 DEF Decoding
<1> HIDE DEF huff, raw, dest, r
<1>7. Decoding(r, D) /\ (r.ok => r.pos = dest /\ r.bit = 0)
  BY <1>3, <1>4, <1>5, <1>6
<1> QED
  BY <1>7 DEF r, dest, sized, flag
-----------------------------------------------------------------------------
(* What an encoder has written.                                            *)

\* e has written the bytes E, and b bits of the last of them.
IsEnc(e, E, b) == DOMAIN e = {"data", "bit"} /\ e.data = E /\ e.bit = b

LEMMA AppendIs ==
  ASSUME NEW S, NEW E \in Seq(S), NEW y \in S
  PROVE  /\ Append(E, y) \in Seq(S) /\ Len(Append(E, y)) = Len(E) + 1
         /\ Append(E, y)[Len(E) + 1] = y /\ \A j \in 1 .. Len(E) : Append(E, y)[j] = E[j]
BY AppendProperties

\* A byte of which b bits are written, and more of it.
LEMMA AddToLastIs ==
  ASSUME NEW E \in Seq(0 .. 255), NEW y \in Nat, NEW b, NEW n \in Nat, NEW e,
         IsEnc(e, Append(E, y), b)
  PROVE  IsEnc(AddToLast(e, n), Append(E, y + n), b)
<1> DEFINE X == Append(E, y)
           Y == [X EXCEPT ![Len(X)] = @ + n]
<1>0. E \in Seq(Nat) /\ y + n \in Nat
  <2>1. 0 .. 255 \subseteq Nat /\ y + n \in Nat
    OBVIOUS
  <2>2. E \in Seq(Nat)
    BY <2>1, SeqMonotonic, Zenon
  <2> QED
    BY <2>1, <2>2
<1>1. X \in Seq(Nat) /\ Len(X) = Len(E) + 1 /\ X[Len(E) + 1] = y /\ Len(E) \in Nat
      /\ \A j \in 1 .. Len(E) : X[j] = E[j]
  BY <1>0, AppendIs
<1>2. Append(E, y + n) \in Seq(Nat) /\ Len(Append(E, y + n)) = Len(E) + 1
      /\ Append(E, y + n)[Len(E) + 1] = y + n
      /\ \A j \in 1 .. Len(E) : Append(E, y + n)[j] = E[j]
  BY <1>0, AppendIs
<1> DEFINE Z == Append(E, y + n)
<1> HIDE DEF X, Z
<1>3. Y = Z
  <2>1. Y \in Seq(Nat) /\ Len(Y) = Len(E) + 1
    BY <1>1
  <2>2. ASSUME NEW j \in 1 .. Len(E) + 1 PROVE Y[j] = Z[j]
    <3>1. CASE j = Len(E) + 1
      BY <1>1, <1>2, <3>1 DEF Z
    <3>2. CASE j # Len(E) + 1
      <4>1. j \in 1 .. Len(E)
        BY <1>1, <3>2
      <4> QED
        BY <1>1, <1>2, <3>2, <4>1 DEF Z
    <3> QED
      BY <3>1, <3>2
  <2> HIDE DEF Y
  <2>3. Z \in Seq(Nat) /\ Len(Z) = Len(E) + 1
    BY <1>2 DEF Z
  <2> QED
    BY <2>1, <2>2, <2>3, SeqEqual
<1>4. AddToLast(e, n) = [e EXCEPT !.data = Y]
  BY DEF AddToLast, IsEnc, X
<1> HIDE DEF Y
<1>5. IsEnc([e EXCEPT !.data = Y], Z, b)
  BY <1>3 DEF IsEnc
<1> QED
  BY <1>4, <1>5 DEF Z

LEMMA BegunIs ==
  ASSUME NEW E, NEW e
  PROVE  /\ IsEnc(e, E, 8) => IsEnc(Begun(e), Append(E, 0), 0)
         /\ \A b \in 0 .. 7 : IsEnc(e, E, b) => Begun(e) = e
<1> DEFINE g == [data |-> Append(e.data, 0), bit |-> 0]
<1>1. Begun(e) = IF e.bit = 8 THEN g ELSE e
  BY DEF Begun
<1>2. IsEnc(e, E, 8) => IsEnc(g, Append(E, 0), 0)
  BY DEF IsEnc
<1> HIDE DEF g
<1>3. IsEnc(e, E, 8) => IsEnc(Begun(e), Append(E, 0), 0)
  BY <1>1, <1>2 DEF IsEnc
<1>4. ASSUME NEW b \in 0 .. 7, IsEnc(e, E, b) PROVE Begun(e) = e
  <2>1. e.bit = b /\ b # 8
    BY <1>4 DEF IsEnc
  <2> QED
    BY <1>1, <2>1
<1> QED
  BY <1>3, <1>4

LEMMA WriteBitOn ==
  ASSUME NEW E \in Seq(0 .. 255), NEW y \in Nat, NEW b \in 0 .. 7, NEW x \in {0, 1}, NEW e,
         IsEnc(Begun(e), Append(E, y), b)
  PROVE  IsEnc(WriteBit(e, x), Append(E, y + x * 2 ^ (7 - b)), b + 1)
<1> DEFINE g == Begun(e)
           n == x * 2 ^ (7 - b)
           a == AddToLast(g, n)
<1>1. n \in Nat
  <2> DEFINE w == 2 ^ (7 - b)
  <2>1. w \in Nat
    <3>1. w \in {128, 64, 32, 16, 8, 4, 2, 1}
      BY Weights DEF IsWeight
    <3> HIDE DEF w
    <3> QED
      BY <3>1
  <2> HIDE DEF w
  <2>2. x * w \in Nat
    BY <2>1
  <2> USE DEF w
  <2> QED
    BY <2>2
<1>2. WriteBit(e, x) = [a EXCEPT !.bit = g.bit + 1]
  <2>1. g.bit = b
    BY DEF IsEnc
  <2>2. a.bit = b
    BY DEF IsEnc, AddToLast
  <2> QED
    BY <2>1, <2>2 DEF WriteBit
<1>3. g.bit = b
  BY DEF IsEnc
<1> HIDE DEF n
<1>4. IsEnc(a, Append(E, y + n), b)
  BY <1>1, AddToLastIs
<1> HIDE DEF a, g
<1>5. IsEnc([a EXCEPT !.bit = b + 1], Append(E, y + n), b + 1)
  BY <1>4 DEF IsEnc
<1>6. IsEnc(WriteBit(e, x), Append(E, y + n), b + 1)
  BY <1>2, <1>3, <1>5
<1> QED
  BY <1>6 DEF n

\* A bit begins a byte, or is the next of one.
LEMMA FirstBit ==
  ASSUME NEW E \in Seq(0 .. 255), NEW x \in {0, 1}, NEW e, IsEnc(e, E, 8)
  PROVE  IsEnc(WriteBit(e, x), Append(E, 128 * x), 1)
<1>1. IsEnc(Begun(e), Append(E, 0), 0) /\ 0 \in 0 .. 7 /\ 0 \in Nat
  BY BegunIs
<1>2. IsEnc(WriteBit(e, x), Append(E, 0 + x * 2 ^ (7 - 0)), 0 + 1)
  BY <1>1, WriteBitOn
<1>3. 0 + x * 2 ^ (7 - 0) = 128 * x /\ 0 + 1 = 1
  <2>1. 7 - 0 = 7
    OBVIOUS
  <2> QED
    BY <2>1, PowersOfTwo
<1> QED
  BY <1>2, <1>3

LEMMA NextBit ==
  ASSUME NEW E \in Seq(0 .. 255), NEW y \in Nat, NEW b \in 1 .. 7, NEW x \in {0, 1}, NEW e,
         IsEnc(e, Append(E, y), b)
  PROVE  IsEnc(WriteBit(e, x), Append(E, y + x * 2 ^ (7 - b)), b + 1)
<1>1. b \in 0 .. 7
  OBVIOUS
<1>2. Begun(e) = e
  BY <1>1, BegunIs
<1> QED
  BY <1>1, <1>2, WriteBitOn

\* The encoders in which each of the bits is written.
IsWriteBits(w, e, bits) ==
  w[0] = e /\ \A i \in 1 .. Len(bits) : w[i] = WriteBit(w[i - 1], bits[i])

LEMMA WriteBitsRun ==
  ASSUME NEW e, NEW bits, Len(bits) \in Nat
  PROVE  \E w : IsWriteBits(w, e, bits) /\ WriteBits(e, bits) = w[Len(bits)]
<1> DEFINE n == Len(bits)
           round(x, i) == WriteBit(x, bits[i])
           Is(f, m) == f = [r \in 0 .. m |-> IF r = 0 THEN e ELSE round(f[r - 1], r)]
           S == {m \in Nat : \E f : Is(f, m)}
<1> HIDE DEF n
<1>0. n \in Nat
  BY DEF n
<1>1. 0 \in S
  <2>1. Is([r \in 0 .. 0 |-> e], 0)
    OBVIOUS
  <2> QED
    BY <2>1
<1>2. ASSUME NEW m \in 1 .. n, m - 1 \in S PROVE m \in S
  <2>1. PICK f : Is(f, m - 1)
    BY <1>2
  <2> HIDE DEF round
  <2> DEFINE g == [r \in 0 .. m |-> IF r < m THEN f[r] ELSE round(f[r - 1], r)]
  <2>2. ASSUME NEW r \in 0 .. m PROVE g[r] = IF r = 0 THEN e ELSE round(g[r - 1], r)
    <3>1. CASE r < m
      <4>1. r \in 0 .. m - 1 /\ (r # 0 => r - 1 \in 0 .. m - 1)
        BY <3>1
      <4> QED
        BY <2>1, <3>1, <4>1
    <3>2. CASE r = m
      <4>1. r # 0 /\ r - 1 \in 0 .. m /\ r - 1 < m
        BY <3>2
      <4> QED
        BY <3>2, <4>1
    <3> QED
      BY <3>1, <3>2
  <2>3. Is(g, m)
    <3>1. g = [r \in 0 .. m |-> g[r]]
      OBVIOUS
    <3> QED
      BY <2>2, <3>1
  <2> HIDE DEF g, Is
  <2>4. \E h : Is(h, m)
    BY <2>3
  <2> QED
    BY <2>4
<1>3. n \in S
  <2> HIDE DEF S
  <2>1. \A m \in 0 .. n : m \in S
    BY <1>0, <1>1, <1>2, CountUp
  <2> QED
    BY <1>0, <2>1
<1> DEFINE h == CHOOSE f : Is(f, n)
<1>4. Is(h, n)
  BY <1>3
<1>5. WriteBits(e, bits) = h[n]
  BY DEF WriteBits, Loop, n
<1>6. h[0] = e /\ \A r \in 1 .. n : h[r] = round(h[r - 1], r)
  <2> HIDE DEF round
  <2>1. 0 \in 0 .. n /\ \A r \in 1 .. n : r \in 0 .. n /\ r # 0
    BY <1>0
  <2> QED
    BY <1>4, <2>1
<1>7. IsWriteBits(h, e, bits)
  BY <1>6 DEF IsWriteBits, n
<1> QED
  BY <1>5, <1>7 DEF n

LEMMA FlagBits ==
  ASSUME NEW E \in Seq(0 .. 255), NEW y \in Nat, NEW x \in {0, 1}, NEW e
  PROVE  /\ IsEnc(e, Append(E, y), 1) => IsEnc(WriteBit(e, x), Append(E, y + 64 * x), 2)
         /\ IsEnc(e, Append(E, y), 2) => IsEnc(WriteBit(e, x), Append(E, y + 32 * x), 3)
         /\ IsEnc(e, Append(E, y), 3) => IsEnc(WriteBit(e, x), Append(E, y + 16 * x), 4)
<1>1. /\ x * 2 ^ (7 - 1) = 64 * x /\ x * 2 ^ (7 - 2) = 32 * x /\ x * 2 ^ (7 - 3) = 16 * x
      /\ 1 \in 1 .. 7 /\ 2 \in 1 .. 7 /\ 3 \in 1 .. 7 /\ 1 + 1 = 2 /\ 2 + 1 = 3 /\ 3 + 1 = 4
  <2>1. 7 - 1 = 6 /\ 7 - 2 = 5 /\ 7 - 3 = 4
    OBVIOUS
  <2> QED
    BY <2>1, PowersOfTwo
<1>2. IsEnc(e, Append(E, y), 1) => IsEnc(WriteBit(e, x), Append(E, y + x * 2 ^ (7 - 1)), 1 + 1)
  BY <1>1, NextBit, Zenon
<1>3. IsEnc(e, Append(E, y), 2) => IsEnc(WriteBit(e, x), Append(E, y + x * 2 ^ (7 - 2)), 2 + 1)
  BY <1>1, NextBit, Zenon
<1>4. IsEnc(e, Append(E, y), 3) => IsEnc(WriteBit(e, x), Append(E, y + x * 2 ^ (7 - 3)), 3 + 1)
  BY <1>1, NextBit, Zenon
<1> QED
  BY <1>1, <1>2, <1>3, <1>4, Zenon

\* The flags of the operation op have b bits and the value h in their byte, and leave
\* room for values up to m.
HasFlags(op, b, h, m) ==
  \/ op = "indexed" /\ b = 1 /\ h = 128 /\ m = 127
  \/ op = "YES" /\ b = 2 /\ h = 64 /\ m = 63
  \/ op = "limit" /\ b = 3 /\ h = 32 /\ m = 31
  \/ op = "NEVER" /\ b = 4 /\ h = 16 /\ m = 15
  \/ op = "NO" /\ b = 4 /\ h = 0 /\ m = 15

LEMMA WriteFlags ==
  ASSUME NEW D \in Seq(0 .. 255), NEW f, NEW b, NEW h, NEW m, HasFlags(f.op, b, h, m),
         NEW e, IsEnc(e, D, 8)
  PROVE  IsEnc(WriteBits(e, Flags(f)), Append(D, h), b) /\ IsFlags(b, h, m)
<1>1. IsFlags(b, h, m)
  BY DEF HasFlags, IsFlags
<1> DEFINE bits == Flags(f)
<1>2. Len(bits) \in Nat
  BY DEF HasFlags, Flags
<1>3. PICK w : IsWriteBits(w, e, bits) /\ WriteBits(e, bits) = w[Len(bits)]
  BY <1>2, WriteBitsRun
<1>4. \A i \in 1 .. Len(bits) : w[i] = WriteBit(w[i - 1], bits[i])
  BY <1>3 DEF IsWriteBits
<1>5. w[0] = e
  BY <1>3 DEF IsWriteBits
<1> HIDE DEF bits
<1>6. CASE f.op = "indexed"
  <2>1. bits = <<1>> /\ b = 1 /\ h = 128
    BY <1>6 DEF bits, Flags, HasFlags
  <2>2. Len(bits) = 1 /\ bits[1] = 1
    BY <2>1
  <2>3. w[1] = WriteBit(w[0], 1)
    BY <1>4, <2>2
  <2>4. IsEnc(w[1], Append(D, 128 * 1), 1)
    BY <1>5, <2>3, FirstBit
  <2> QED
    BY <1>1, <1>3, <2>1, <2>2, <2>4 DEF bits
<1>7. CASE f.op = "YES"
  <2>1. bits = <<0, 1>> /\ b = 2 /\ h = 64
    BY <1>7 DEF bits, Flags, HasFlags
  <2>2. Len(bits) = 2 /\ bits[1] = 0 /\ bits[2] = 1
    BY <2>1
  <2>3. w[1] = WriteBit(w[0], 0) /\ w[2] = WriteBit(w[1], 1)
    BY <1>4, <2>2
  <2>4. IsEnc(w[1], Append(D, 0), 1)
    <3>1. IsEnc(w[1], Append(D, 128 * 0), 1)
      BY <1>5, <2>3, FirstBit
    <3> QED
      BY <3>1
  <2>5. IsEnc(w[2], Append(D, 0 + 64 * 1), 2)
    BY <2>3, <2>4, FlagBits
  <2> QED
    BY <1>1, <1>3, <2>1, <2>2, <2>5 DEF bits
<1>8. CASE f.op = "limit"
  <2>1. bits = <<0, 0, 1>> /\ b = 3 /\ h = 32
    BY <1>8 DEF bits, Flags, HasFlags
  <2>2. Len(bits) = 3 /\ bits[1] = 0 /\ bits[2] = 0 /\ bits[3] = 1
    BY <2>1
  <2>3. w[1] = WriteBit(w[0], 0) /\ w[2] = WriteBit(w[1], 0) /\ w[3] = WriteBit(w[2], 1)
    BY <1>4, <2>2
  <2>4. IsEnc(w[1], Append(D, 0), 1)
    <3>1. IsEnc(w[1], Append(D, 128 * 0), 1)
      BY <1>5, <2>3, FirstBit
    <3> QED
      BY <3>1
  <2>5. IsEnc(w[2], Append(D, 0), 2)
    <3>1. IsEnc(w[2], Append(D, 0 + 64 * 0), 2)
      BY <2>3, <2>4, FlagBits
    <3> QED
      BY <3>1
  <2>6. IsEnc(w[3], Append(D, 0 + 32 * 1), 3)
    BY <2>3, <2>5, FlagBits
  <2> QED
    BY <1>1, <1>3, <2>1, <2>2, <2>6 DEF bits
<1>9. CASE f.op \in {"NEVER", "NO"}
  <2> DEFINE x == IF f.op = "NEVER" THEN 1 ELSE 0
  <2>1. bits = <<0, 0, 0, x>> /\ b = 4 /\ h = 16 * x /\ x \in {0, 1}
    BY <1>9 DEF bits, Flags, HasFlags
  <2> HIDE DEF x
  <2>2. Len(bits) = 4 /\ bits[1] = 0 /\ bits[2] = 0 /\ bits[3] = 0 /\ bits[4] = x
    BY <2>1
  <2>3. /\ w[1] = WriteBit(w[0], 0) /\ w[2] = WriteBit(w[1], 0)
        /\ w[3] = WriteBit(w[2], 0) /\ w[4] = WriteBit(w[3], x)
    BY <1>4, <2>2
  <2>4. IsEnc(w[1], Append(D, 0), 1)
    <3>1. IsEnc(w[1], Append(D, 128 * 0), 1)
      BY <1>5, <2>3, FirstBit
    <3> QED
      BY <3>1
  <2>5. IsEnc(w[2], Append(D, 0), 2)
    <3>1. IsEnc(w[2], Append(D, 0 + 64 * 0), 2)
      BY <2>3, <2>4, FlagBits
    <3> QED
      BY <3>1
  <2>6. IsEnc(w[3], Append(D, 0), 3)
    <3>1. IsEnc(w[3], Append(D, 0 + 32 * 0), 3)
      BY <2>3, <2>5, FlagBits
    <3> QED
      BY <3>1
  <2>7. IsEnc(w[4], Append(D, 0 + 16 * x), 4)
    BY <2>1, <2>3, <2>6, FlagBits
  <2>8. 0 + 16 * x = h
    BY <2>1
  <2> QED
    BY <1>1, <1>3, <2>1, <2>2, <2>7, <2>8 DEF bits
<1> QED
  BY <1>6, <1>7, <1>8, <1>9 DEF HasFlags

\* E is D and what has been written after it.
Extends(E, D) == Len(D) <= Len(E) /\ \A j \in 1 .. Len(D) : E[j] = D[j]

LEMMA AppendExtends ==
  ASSUME NEW D \in Seq(0 .. 255), NEW y \in 0 .. 255
  PROVE  /\ Append(D, y) \in Seq(0 .. 255) /\ Len(Append(D, y)) = Len(D) + 1
         /\ Append(D, y)[Len(D) + 1] = y /\ Extends(Append(D, y), D)
<1> DEFINE E == Append(D, y)
<1>1. /\ E \in Seq(0 .. 255) /\ Len(E) = Len(D) + 1 /\ E[Len(D) + 1] = y
      /\ \A j \in 1 .. Len(D) : E[j] = D[j]
  BY AppendIs
<1>2. Len(D) \in Nat
  OBVIOUS
<1> HIDE DEF E
<1>3. Len(D) <= Len(E)
  BY <1>1, <1>2
<1> USE DEF E
<1> QED
  BY <1>1, <1>3 DEF Extends

LEMMA ConcatExtends ==
  ASSUME NEW D \in Seq(0 .. 255), NEW xs \in Seq(0 .. 255)
  PROVE  /\ D \o xs \in Seq(0 .. 255) /\ Len(D \o xs) = Len(D) + Len(xs)
         /\ Extends(D \o xs, D) /\ Holds(D \o xs, Len(D), xs)
<1> DEFINE E == D \o xs
<1>1. /\ E \in Seq(0 .. 255) /\ Len(E) = Len(D) + Len(xs)
      /\ Len(D) \in Nat /\ Len(xs) \in Nat
      /\ \A i \in 1 .. Len(D) + Len(xs) : E[i] = IF i <= Len(D) THEN D[i] ELSE xs[i - Len(D)]
  BY ConcatProperties
<1> HIDE DEF E
<1>2. Extends(E, D)
  BY <1>1 DEF Extends
<1>3. Holds(E, Len(D), xs)
  <2>1. ASSUME NEW j \in 1 .. Len(xs) PROVE E[Len(D) + j] = xs[j]
    <3>1. Len(D) + j \in 1 .. Len(D) + Len(xs) /\ ~(Len(D) + j <= Len(D)) /\ Len(D) + j - Len(D) = j
      BY <1>1
    <3> QED
      BY <1>1, <3>1
  <2> QED
    BY <1>1, <2>1 DEF Holds
<1> USE DEF E
<1> QED
  BY <1>1, <1>2, <1>3

LEMMA ExtendsTrans ==
  ASSUME NEW D \in Seq(0 .. 255), NEW E \in Seq(0 .. 255), NEW F \in Seq(0 .. 255),
         Extends(E, D), Extends(F, E)
  PROVE  Extends(F, D)
<1>1. Len(D) \in Nat /\ Len(E) \in Nat /\ Len(F) \in Nat
  OBVIOUS
<1>2. \A j \in 1 .. Len(D) : j \in 1 .. Len(E)
  BY <1>1 DEF Extends
<1> QED
  BY <1>1, <1>2 DEF Extends

LEMMA ExtendsHolds ==
  ASSUME NEW D \in Seq(0 .. 255), NEW E \in Seq(0 .. 255), Extends(E, D),
         NEW p \in Nat, NEW xs, Len(xs) \in Nat, Holds(D, p, xs)
  PROVE  Holds(E, p, xs)
<1>1. Len(D) \in Nat /\ Len(E) \in Nat
  OBVIOUS
<1>2. \A j \in 1 .. Len(xs) : p + j \in 1 .. Len(D)
  BY <1>1 DEF Holds
<1>3. p + Len(xs) <= Len(E)
  BY <1>1 DEF Extends, Holds
<1>4. \A j \in 1 .. Len(xs) : E[p + j] = xs[j]
  BY <1>2 DEF Extends, Holds
<1> QED
  BY <1>3, <1>4 DEF Holds

LEMMA SevensType ==
  ASSUME NEW i \in Nat
  PROVE  Sevens(i) \in Seq(0 .. 255) /\ Len(Sevens(i)) \in Nat /\ Len(Sevens(i)) >= 1
<1>1. PICK f : IsSevens(f, i) /\ Sevens(i) = f[i]
  BY SevensRun
<1>2. i \in 0 .. i
  OBVIOUS
<1> QED
  BY <1>1, <1>2, SevensAreBytes

LEMMA ExtendsIntIn ==
  ASSUME NEW D \in Seq(0 .. 255), NEW E \in Seq(0 .. 255), Extends(E, D),
         NEW p \in Nat, NEW q, NEW h, NEW m \in Nat, NEW i \in Nat, IntIn(D, p, q, h, m, i)
  PROVE  IntIn(E, p, q, h, m, i)
<1>1. Len(D) \in Nat /\ Len(E) \in Nat /\ p < Len(D)
  BY DEF IntIn
<1>2. p + 1 \in 1 .. Len(D) /\ p + 1 \in Nat
  BY <1>1
<1>3. p < Len(E) /\ E[p + 1] = D[p + 1]
  BY <1>1, <1>2 DEF Extends
<1>4. CASE i < m
  <2>1. ~(i >= m)
    BY <1>4
  <2> QED
    BY <1>3, <1>4, <2>1 DEF IntIn
<1>5. CASE i >= m
  <2> DEFINE xs == Sevens(i - m)
  <2>1. i - m \in Nat
    BY <1>5
  <2>2. Len(xs) \in Nat
    BY <2>1, SevensType, Zenon
  <2>3. /\ ~(i < m) /\ D[p + 1] = h + m /\ Holds(D, p + 1, xs) /\ q = p + 1 + Len(xs)
    BY <1>5 DEF IntIn
  <2> HIDE DEF xs
  <2>4. Holds(E, p + 1, xs)
    BY <1>2, <2>2, <2>3, ExtendsHolds
  <2> QED
    BY <1>3, <2>3, <2>4 DEF IntIn, xs
<1> QED
  BY <1>4, <1>5

\* WriteInt
LEMMA WriteIntOf ==
  ASSUME NEW D \in Seq(0 .. 255), NEW b, NEW h, NEW m, IsFlags(b, h, m),
         NEW e, IsEnc(e, Append(D, h), b), NEW i \in Nat
  PROVE  LET E == WriteInt(e, i).data
         IN  /\ IsEnc(WriteInt(e, i), E, 8) /\ E \in Seq(0 .. 255) /\ Extends(E, D)
             /\ IntIn(E, Len(D), Len(E), h, m, i)
<1>1. /\ b \in 0 .. 7 /\ m \in Nat /\ h \in Nat /\ h + m <= 255
      /\ 2 ^ (8 - b) - 1 = m
  BY FlagsAre
<1> DEFINE e1 == AddToLast(e, i)
           e2 == AddToLast(e, m)
           xs == Sevens(i - m)
           r1 == [e1 EXCEPT !.bit = 8]
           r2 == [data |-> e2.data \o xs, bit |-> 8]
           r == WriteInt(e, i)
<1>2. r = IF i < m THEN r1 ELSE r2
  <2>1. Begun(e) = e
    BY <1>1, BegunIs
  <2>2. e.bit = b
    BY DEF IsEnc
  <2> QED
    BY <1>1, <2>1, <2>2 DEF WriteInt
<1>0. Len(D) \in Nat
  OBVIOUS
<1>3. CASE i < m
  <2>1. IsEnc(e1, Append(D, h + i), b)
    BY <1>1, AddToLastIs
  <2> DEFINE E == Append(D, h + i)
  <2>2. r = r1
    BY <1>2, <1>3
  <2>3. h + i \in 0 .. 255
    BY <1>1, <1>3
  <2>4. E \in Seq(0 .. 255) /\ Len(E) = Len(D) + 1 /\ E[Len(D) + 1] = h + i /\ Extends(E, D)
    BY <2>3, AppendExtends
  <2> HIDE DEF e1, E, r
  <2>5. IsEnc(r, E, 8)
    BY <2>1, <2>2 DEF IsEnc, E
  <2>6. IntIn(E, Len(D), Len(E), h, m, i)
    BY <1>0, <1>1, <1>3, <2>4 DEF IntIn
  <2>7. r.data = E
    BY <2>5 DEF IsEnc
  <2> QED
    BY <2>4, <2>5, <2>6, <2>7 DEF r
<1>4. CASE i >= m
  <2> DEFINE F == Append(D, h + m)
             E == F \o xs
  <2>1. IsEnc(e2, F, b)
    BY <1>1, AddToLastIs
  <2>2. r = r2
    BY <1>1, <1>2, <1>4
  <2>3. h + m \in 0 .. 255 /\ i - m \in Nat
    BY <1>1, <1>4
  <2>4. F \in Seq(0 .. 255) /\ Len(F) = Len(D) + 1 /\ F[Len(D) + 1] = h + m /\ Extends(F, D)
    BY <2>3, AppendExtends
  <2>5. xs \in Seq(0 .. 255) /\ Len(xs) \in Nat
    BY <2>3, SevensType, Zenon
  <2> HIDE DEF e2, xs, F, r
  <2>6. /\ E \in Seq(0 .. 255) /\ Len(E) = Len(F) + Len(xs)
        /\ Extends(E, F) /\ Holds(E, Len(F), xs)
    BY <2>4, <2>5, ConcatExtends
  <2>7. IsEnc(r, E, 8)
    <3>1. e2.data = F
      BY <2>1 DEF IsEnc
    <3> QED
      BY <2>2, <3>1 DEF IsEnc
  <2> HIDE DEF E
  <2>8. Extends(E, D)
    BY <2>4, <2>6, ExtendsTrans
  <2>9. Len(D) < Len(E) /\ E[Len(D) + 1] = h + m
    <3>1. Len(D) + 1 \in 1 .. Len(F)
      BY <1>0, <2>4
    <3>2. E[Len(D) + 1] = F[Len(D) + 1]
      BY <2>6, <3>1 DEF Extends
    <3> QED
      BY <1>0, <2>4, <2>5, <2>6, <3>2
  <2>10. Holds(E, Len(D) + 1, xs) /\ Len(E) = Len(D) + 1 + Len(xs)
    BY <1>0, <2>4, <2>5, <2>6
  <2>11. ~(i < m)
    BY <1>1, <1>4
  <2>12. IntIn(E, Len(D), Len(E), h, m, i)
    BY <2>9, <2>10, <2>11 DEF IntIn, xs
  <2>13. r.data = E
    BY <2>7 DEF IsEnc
  <2> QED
    BY <2>6, <2>7, <2>8, <2>12, <2>13 DEF r
<1>5. i < m \/ i >= m
  BY <1>1
<1> QED
  BY <1>3, <1>4, <1>5
-----------------------------------------------------------------------------
(* The bits of an encoder.                                                 *)

LEMMA Doubles ==
  ASSUME NEW b \in 0 .. 7
  PROVE  2 ^ (8 - b) = 2 * 2 ^ (7 - b)
<1>1. CASE b = 0
  <2>1. 8 - b = 8
    BY <1>1
  <2>2. 2 ^ (8 - b) = 256
    BY <2>1, PowersOfTwo
  <2>3. 2 ^ (7 - b) = 128
    BY <1>1, Weights DEF IsWeight
  <2> QED
    BY <2>2, <2>3
<1>2. CASE b # 0
  <2> DEFINE a == b - 1
             w == 2 ^ (7 - a)
             v == 2 ^ (7 - b)
  <2>1. a \in 0 .. 7 /\ 7 - a = 8 - b /\ a + 1 = b
    BY <1>2
  <2>2. w = 2 ^ (8 - b)
    BY <2>1
  <2> HIDE DEF a
  <2>3. /\ b = 1 => v = 64
        /\ b = 2 => v = 32
        /\ b = 3 => v = 16
        /\ b = 4 => v = 8
        /\ b = 5 => v = 4
        /\ b = 6 => v = 2
        /\ b = 7 => v = 1
    <3>1. IsWeight(b, v)
      BY Weights
    <3> HIDE DEF v
    <3> QED
      BY <3>1 DEF IsWeight
  <2>4. /\ a = 0 => w = 128
        /\ a = 1 => w = 64
        /\ a = 2 => w = 32
        /\ a = 3 => w = 16
        /\ a = 4 => w = 8
        /\ a = 5 => w = 4
        /\ a = 6 => w = 2
    <3>1. IsWeight(a, w)
      BY <2>1, Weights
    <3> HIDE DEF w
    <3> QED
      BY <3>1 DEF IsWeight
  <2> HIDE DEF w, v
  <2>5. w = 2 * v
    BY <1>2, <2>1, <2>3, <2>4
  <2> USE DEF v
  <2> QED
    BY <2>2, <2>5
<1> QED
  BY <1>1, <1>2

\* z is y with one bit more, which is x and has the weight w.
IsOneMore(z, y, x, w) ==
  /\ z \in 0 .. 255
  /\ z % w = 0
  /\ (z \div w) % 2 = x
  /\ \A u \in {128, 64, 32, 16, 8, 4, 2} : u > w => z \div u = y \div u

\* Setting a bit after which there are only zeros changes none before it.
LEMMA SumsOfBits ==
  ASSUME NEW y \in 0 .. 255, NEW x \in {0, 1}, NEW w \in {128, 64, 32, 16, 8, 4, 2, 1},
         y % (2 * w) = 0, NEW z, z = y + x * w
  PROVE  IsOneMore(z, y, x, w)
<1>1. CASE w = 128
  BY <1>1 DEF IsOneMore
<1>2. CASE w = 64
  BY <1>2 DEF IsOneMore
<1>3. CASE w = 32
  BY <1>3 DEF IsOneMore
<1>4. CASE w = 16
  BY <1>4 DEF IsOneMore
<1>5. CASE w = 8
  BY <1>5 DEF IsOneMore
<1>6. CASE w = 4
  BY <1>6 DEF IsOneMore
<1>7. CASE w = 2
  BY <1>7 DEF IsOneMore
<1>8. CASE w = 1
  BY <1>8 DEF IsOneMore
<1> QED
  BY <1>1, <1>2, <1>3, <1>4, <1>5, <1>6, <1>7, <1>8

LEMMA WeightsFall ==
  ASSUME NEW b \in 0 .. 7, NEW c \in 0 .. 7, c < b
  PROVE  2 ^ (7 - c) \in {128, 64, 32, 16, 8, 4, 2} /\ 2 ^ (7 - c) > 2 ^ (7 - b)
<1> DEFINE u == 2 ^ (7 - c)
           w == 2 ^ (7 - b)
<1>1. /\ u \in {128, 64, 32, 16, 8, 4, 2, 1}
      /\ c = 0 => u = 128
      /\ c = 1 => u = 64
      /\ c = 2 => u = 32
      /\ c = 3 => u = 16
      /\ c = 4 => u = 8
      /\ c = 5 => u = 4
      /\ c = 6 => u = 2
  <2>1. IsWeight(c, u)
    BY Weights
  <2> HIDE DEF u
  <2> QED
    BY <2>1 DEF IsWeight
<1>2. /\ b = 1 => w = 64
      /\ b = 2 => w = 32
      /\ b = 3 => w = 16
      /\ b = 4 => w = 8
      /\ b = 5 => w = 4
      /\ b = 6 => w = 2
      /\ b = 7 => w = 1
  <2>1. IsWeight(b, w)
    BY Weights
  <2> HIDE DEF w
  <2> QED
    BY <2>1 DEF IsWeight
<1> HIDE DEF u, w
<1>3. u \in {128, 64, 32, 16, 8, 4, 2} /\ u > w
  BY <1>1, <1>2
<1> USE DEF u, w
<1> QED
  BY <1>3

LEMMA SameBit ==
  ASSUME NEW D \in Seq(0 .. 255), NEW E \in Seq(0 .. 255), NEW p \in Nat, NEW c \in 0 .. 7,
         p < Len(D), p < Len(E), D[p + 1] = E[p + 1]
  PROVE  Bit(D, 8 * p + c) = Bit(E, 8 * p + c)
<1>1. Bit(D, 8 * p + c) = (D[p + 1] \div 2 ^ (7 - c)) % 2
  BY BitIs
<1>2. Bit(E, 8 * p + c) = (E[p + 1] \div 2 ^ (7 - c)) % 2
  BY BitIs
<1> QED
  BY <1>1, <1>2

\* The bits of F and the byte z are those of F and b bits of y, and then x.
IsNextBit(F, y, b, x, z) ==
  /\ z \in 0 .. 255 /\ z % 2 ^ (7 - b) = 0
  /\ Bit(Append(F, z), 8 * Len(F) + b) = x
  /\ \A k \in 0 .. 8 * Len(F) + b - 1 : Bit(Append(F, z), k) = Bit(Append(F, y), k)

LEMMA BitOfSum ==
  ASSUME NEW F \in Seq(0 .. 255), NEW y \in 0 .. 255, NEW b \in 0 .. 7, y % 2 ^ (8 - b) = 0,
         NEW x \in {0, 1}, NEW z, z = y + x * 2 ^ (7 - b)
  PROVE  IsNextBit(F, y, b, x, z)
<1> DEFINE w == 2 ^ (7 - b)
           n == Len(F)
           Z == Append(F, z)
           Y == Append(F, y)
<1>1. w \in {128, 64, 32, 16, 8, 4, 2, 1}
  BY Weights DEF IsWeight
<1>2. y % (2 * w) = 0
  BY Doubles
<1>3. z = y + x * w
  OBVIOUS
<1> HIDE DEF w
<1>4. /\ z \in 0 .. 255 /\ z % w = 0 /\ (z \div w) % 2 = x
      /\ \A u \in {128, 64, 32, 16, 8, 4, 2} : u > w => z \div u = y \div u
  <2>1. IsOneMore(z, y, x, w)
    BY <1>1, <1>2, <1>3, SumsOfBits, Zenon
  <2> QED
    BY <2>1, Zenon DEF IsOneMore
<1>5. n \in Nat
  OBVIOUS
<1>6. Z \in Seq(0 .. 255) /\ Len(Z) = n + 1 /\ Z[n + 1] = z /\ \A j \in 1 .. n : Z[j] = F[j]
  BY <1>4, AppendIs
<1>7. Y \in Seq(0 .. 255) /\ Len(Y) = n + 1 /\ Y[n + 1] = y /\ \A j \in 1 .. n : Y[j] = F[j]
  BY AppendIs
<1> HIDE DEF Y, Z, n
<1>8. n < Len(Z) /\ n < Len(Y)
  BY <1>5, <1>6, <1>7
<1>9. Bit(Z, 8 * n + b) = x
  <2>1. Bit(Z, 8 * n + b) = (Z[n + 1] \div 2 ^ (7 - b)) % 2
    BY <1>5, <1>6, <1>8, BitIs
  <2> QED
    BY <1>4, <1>6, <2>1 DEF w
<1>10. ASSUME NEW k \in 0 .. 8 * n + b - 1 PROVE Bit(Z, k) = Bit(Y, k)
  <2> DEFINE p == k \div 8
             c == k % 8
  <2>1. p \in Nat /\ c \in 0 .. 7 /\ 8 * p + c = k /\ (p < n \/ (p = n /\ c < b))
    BY <1>5
  <2> HIDE DEF p, c
  <2>2. CASE p < n
    <3>1. p < Len(Z) /\ p < Len(Y) /\ p + 1 \in 1 .. n
      BY <1>5, <1>6, <1>7, <2>1, <2>2
    <3>2. Z[p + 1] = Y[p + 1]
      BY <1>6, <1>7, <3>1
    <3>3. Bit(Z, 8 * p + c) = Bit(Y, 8 * p + c)
      BY <1>6, <1>7, <2>1, <3>1, <3>2, SameBit
    <3> QED
      BY <2>1, <3>3
  <2>3. CASE p = n /\ c < b
    <3> DEFINE u == 2 ^ (7 - c)
    <3>1. u \in {128, 64, 32, 16, 8, 4, 2} /\ u > w
      BY <2>1, <2>3, WeightsFall DEF w
    <3>2. Bit(Z, 8 * n + c) = (Z[n + 1] \div u) % 2
      BY <1>5, <1>6, <1>8, <2>1, BitIs
    <3>3. Bit(Y, 8 * n + c) = (Y[n + 1] \div u) % 2
      BY <1>5, <1>7, <1>8, <2>1, BitIs
    <3> HIDE DEF u
    <3>4. z \div u = y \div u
      BY <1>4, <3>1
    <3> QED
      BY <1>6, <1>7, <2>1, <2>3, <3>2, <3>3, <3>4
  <2> QED
    BY <2>1, <2>2, <2>3
<1> USE DEF Y, Z, n, w
<1> QED
  BY <1>4, <1>9, <1>10 DEF IsNextBit

\* b bits are written after the bytes F, in a byte which is y.
Encoding(e, F, y, b) ==
  \/ b = 0 /\ y = 0 /\ IsEnc(e, F, 8)
  \/ b \in 1 .. 7 /\ y % 2 ^ (8 - b) = 0 /\ IsEnc(e, Append(F, y), b)

\* The bytes begin with the bits.
BitsAre(D, bits) == \A k \in 1 .. Len(bits) : Bit(D, k - 1) = bits[k]

\* e has written the bits.
HasBits(e, bits) ==
  /\ bits \in Seq({0, 1})
  /\ \E F \in Seq(0 .. 255), y \in 0 .. 255, b \in 0 .. 7 :
       Encoding(e, F, y, b) /\ 8 * Len(F) + b = Len(bits) /\ BitsAre(Append(F, y), bits)

LEMMA NoBits == HasBits(BitEncoder(<<>>), <<>>)
<1>1. <<>> \in Seq(0 .. 255) /\ <<>> \in Seq({0, 1}) /\ Len(<<>>) = 0 /\ 0 \in 0 .. 255 /\ 0 \in 0 .. 7
  OBVIOUS
<1>2. IsEnc(BitEncoder(<<>>), <<>>, 8)
  BY DEF BitEncoder, IsEnc
<1>3. Encoding(BitEncoder(<<>>), <<>>, 0, 0)
  BY <1>2 DEF Encoding
<1>4. BitsAre(Append(<<>>, 0), <<>>)
  BY DEF BitsAre
<1>5. 8 * Len(<<>>) + 0 = Len(<<>>)
  BY <1>1
<1> QED
  BY <1>1, <1>3, <1>4, <1>5 DEF HasBits

LEMMA EncodingBegun ==
  ASSUME NEW F \in Seq(0 .. 255), NEW y \in 0 .. 255, NEW b \in 0 .. 7, NEW e, Encoding(e, F, y, b)
  PROVE  y % 2 ^ (8 - b) = 0 /\ IsEnc(Begun(e), Append(F, y), b)
<1>1. CASE b = 0 /\ y = 0 /\ IsEnc(e, F, 8)
  <2>1. IsEnc(Begun(e), Append(F, 0), 0)
    BY <1>1, BegunIs
  <2>2. 2 ^ (8 - b) = 256
    <3>1. 8 - b = 8
      BY <1>1
    <3> QED
      BY <3>1, PowersOfTwo
  <2>3. y % 256 = 0
    BY <1>1
  <2> QED
    BY <1>1, <2>1, <2>2, <2>3
<1>2. CASE b \in 1 .. 7 /\ y % 2 ^ (8 - b) = 0 /\ IsEnc(e, Append(F, y), b)
  <2>1. Begun(e) = e
    BY <1>2, BegunIs
  <2> QED
    BY <1>2, <2>1
<1> QED
  BY <1>1, <1>2 DEF Encoding

LEMMA WriteBitBits ==
  ASSUME NEW e, NEW bits, HasBits(e, bits), NEW x \in {0, 1}
  PROVE  HasBits(WriteBit(e, x), Append(bits, x))
<1>1. PICK F \in Seq(0 .. 255), y \in 0 .. 255, b \in 0 .. 7 :
        Encoding(e, F, y, b) /\ 8 * Len(F) + b = Len(bits) /\ BitsAre(Append(F, y), bits)
  BY DEF HasBits
<1>2. y % 2 ^ (8 - b) = 0 /\ IsEnc(Begun(e), Append(F, y), b)
  BY <1>1, EncodingBegun
<1> DEFINE z == y + x * 2 ^ (7 - b)
           r == WriteBit(e, x)
           more == Append(bits, x)
           n == Len(F)
           G == Append(F, z)
<1>3. IsEnc(r, G, b + 1)
  <2>1. y \in Nat
    OBVIOUS
  <2> QED
    BY <1>2, <2>1, WriteBitOn, Zenon
<1>4. /\ z \in 0 .. 255 /\ z % 2 ^ (7 - b) = 0
      /\ Bit(G, 8 * n + b) = x
      /\ \A k \in 0 .. 8 * n + b - 1 : Bit(G, k) = Bit(Append(F, y), k)
  <2> HIDE DEF z
  <2>1. IsNextBit(F, y, b, x, z)
    BY <1>2, BitOfSum, Zenon DEF z
  <2> QED
    BY <2>1, Zenon DEF IsNextBit
<1> HIDE DEF z
<1>5. bits \in Seq({0, 1}) /\ n \in Nat /\ Len(bits) \in Nat
  BY DEF HasBits
<1>6. /\ more \in Seq({0, 1}) /\ Len(more) = Len(bits) + 1 /\ more[Len(bits) + 1] = x
      /\ \A k \in 1 .. Len(bits) : more[k] = bits[k]
  BY <1>5, AppendIs
<1>11. 8 * n + b = Len(bits) /\ Len(more) = Len(bits) + 1
  BY <1>1, <1>6
<1> HIDE DEF more, r
<1>7. BitsAre(G, more)
  <2>1. ASSUME NEW k \in 1 .. Len(bits) + 1 PROVE Bit(G, k - 1) = more[k]
    <3>1. CASE k = Len(bits) + 1
      <4>1. k - 1 = 8 * n + b
        BY <1>1, <1>5, <3>1
      <4> QED
        BY <1>4, <1>6, <3>1, <4>1
    <3>2. CASE k # Len(bits) + 1
      <4>1. k \in 1 .. Len(bits) /\ k - 1 \in 0 .. 8 * n + b - 1
        BY <1>1, <1>5, <3>2
      <4>2. Bit(Append(F, y), k - 1) = bits[k]
        BY <1>1, <4>1 DEF BitsAre
      <4> QED
        BY <1>4, <1>6, <4>1, <4>2
    <3> QED
      BY <3>1, <3>2
  <2> QED
    BY <1>6, <2>1 DEF BitsAre
<1>8. CASE b < 7
  <2> DEFINE c == b + 1
  <2>1. c \in 1 .. 7 /\ c \in 0 .. 7 /\ 7 - b = 8 - c /\ 8 * n + c = Len(more)
    <3> HIDE DEF n
    <3> QED
      BY <1>5, <1>8, <1>11
  <2>2. z % 2 ^ (8 - c) = 0
    BY <1>4, <2>1
  <2>3. IsEnc(r, G, c)
    BY <1>3
  <2> HIDE DEF c
  <2>4. Encoding(r, F, z, c)
    BY <2>1, <2>2, <2>3 DEF Encoding
  <2>5. HasBits(r, more)
    BY <1>4, <1>6, <1>7, <2>1, <2>4 DEF HasBits
  <2> QED
    BY <2>5 DEF r, more
<1>9. CASE b = 7
  <2>1. G \in Seq(0 .. 255) /\ Len(G) = n + 1
    BY <1>4, AppendIs
  <2> DEFINE H == Append(G, 0)
  <2>2. /\ H \in Seq(0 .. 255) /\ Len(H) = n + 2 /\ 0 \in 0 .. 255 /\ 0 \in 0 .. 7
        /\ \A j \in 1 .. n + 1 : H[j] = G[j]
    <3>1. 0 \in 0 .. 255 /\ 0 \in 0 .. 7
      OBVIOUS
    <3> HIDE DEF G
    <3>2. H \in Seq(0 .. 255) /\ Len(H) = Len(G) + 1 /\ \A j \in 1 .. Len(G) : H[j] = G[j]
      BY <2>1, <3>1, AppendIs
    <3> HIDE DEF H, n
    <3> QED
      BY <1>5, <2>1, <3>1, <3>2
  <2> HIDE DEF G, H
  <2>3. IsEnc(r, G, 8)
    <3>1. b + 1 = 8
      BY <1>9
    <3> QED
      BY <1>3, <3>1
  <2>4. Encoding(r, G, 0, 0)
    BY <2>3 DEF Encoding
  <2>5. 8 * Len(G) + 0 = Len(more)
    BY <1>1, <1>5, <1>6, <1>9, <2>1
  <2>6. BitsAre(H, more)
    <3>1. ASSUME NEW k \in 1 .. Len(more) PROVE Bit(H, k - 1) = more[k]
      <4> DEFINE p == (k - 1) \div 8
                 c == (k - 1) % 8
      <4>1. k - 1 \in Nat /\ k - 1 < 8 * (n + 1)
        BY <1>5, <2>1, <2>5
      <4>2. p \in Nat /\ c \in 0 .. 7 /\ 8 * p + c = k - 1 /\ p < n + 1
        <5> DEFINE j == k - 1
        <5>1. j \in Nat /\ j < 8 * (n + 1)
          BY <4>1
        <5> HIDE DEF j, n
        <5>2. j \div 8 \in Nat /\ j % 8 \in 0 .. 7 /\ 8 * (j \div 8) + (j % 8) = j /\ j \div 8 < n + 1
          BY <1>5, <5>1
        <5> USE DEF j
        <5> QED
          BY <5>2, Zenon
      <4> HIDE DEF p, c, n
      <4>3. p < Len(G) /\ p < Len(H) /\ p + 1 \in 1 .. n + 1
        BY <1>5, <2>1, <2>2, <4>2
      <4>4. Bit(H, 8 * p + c) = Bit(G, 8 * p + c)
        <5>1. H[p + 1] = G[p + 1]
          BY <2>2, <4>3
        <5> QED
          BY <2>1, <2>2, <4>2, <4>3, <5>1, SameBit
      <4> QED
        BY <1>7, <4>2, <4>4 DEF BitsAre
    <3> QED
      BY <3>1 DEF BitsAre
  <2>7. HasBits(r, more)
    BY <1>6, <2>1, <2>2, <2>4, <2>5, <2>6 DEF HasBits, H
  <2> QED
    BY <2>7 DEF r, more
<1>10. b < 7 \/ b = 7
  OBVIOUS
<1> QED
  BY <1>8, <1>9, <1>10

LEMMA AppendElement ==
  ASSUME NEW S, NEW s \in Seq(S), NEW i \in 1 .. Len(s)
  PROVE  /\ SubSeq(s, 1, i) = Append(SubSeq(s, 1, i - 1), s[i])
         /\ SubSeq(s, 1, i - 1) \in Seq(S) /\ SubSeq(s, 1, i) \in Seq(S)
         /\ Len(SubSeq(s, 1, i)) = i /\ Len(SubSeq(s, 1, i - 1)) = i - 1 /\ s[i] \in S
<1>1. \A j \in 1 .. Len(s) : s[j] \in S
  BY ElementOfSeq
<1>2. /\ SubSeq(s, 1, i) \in Seq(S) /\ Len(SubSeq(s, 1, i)) = i
      /\ \A j \in 1 .. i : SubSeq(s, 1, i)[j] = s[j]
  <2>1. \A j \in 1 .. i : s[j] \in S
    BY <1>1
  <2>2. i \in Int /\ 1 \in Int /\ 1 <= i /\ i - 1 + 1 = i /\ \A j \in 1 .. i : 1 + j - 1 = j
    OBVIOUS
  <2>3. /\ SubSeq(s, 1, i) \in Seq(S) /\ Len(SubSeq(s, 1, i)) = i - 1 + 1
        /\ \A j \in 1 .. i - 1 + 1 : SubSeq(s, 1, i)[j] = s[1 + j - 1]
    BY <2>1, <2>2, SubSeqProperties
  <2> QED
    BY <2>2, <2>3
<1>3. /\ SubSeq(s, 1, i - 1) \in Seq(S) /\ Len(SubSeq(s, 1, i - 1)) = i - 1
      /\ \A j \in 1 .. i - 1 : SubSeq(s, 1, i - 1)[j] = s[j]
  <2> DEFINE k == i - 1
  <2>1. \A j \in 1 .. k : s[j] \in S
    BY <1>1
  <2>2. k \in Int /\ 1 \in Int /\ k - 1 + 1 = k /\ (1 <= k \/ k = 0) /\ \A j \in 1 .. k : 1 + j - 1 = j
    OBVIOUS
  <2> HIDE DEF k
  <2>3. /\ SubSeq(s, 1, k) \in Seq(S) /\ Len(SubSeq(s, 1, k)) = (IF 1 <= k THEN k - 1 + 1 ELSE 0)
        /\ \A j \in 1 .. k - 1 + 1 : SubSeq(s, 1, k)[j] = s[1 + j - 1]
    BY <2>1, <2>2, SubSeqProperties
  <2>4. /\ SubSeq(s, 1, k) \in Seq(S) /\ Len(SubSeq(s, 1, k)) = k
        /\ \A j \in 1 .. k : SubSeq(s, 1, k)[j] = s[j]
    BY <2>2, <2>3
  <2> USE DEF k
  <2> QED
    BY <2>4
<1>4. s[i] \in S
  BY <1>1
<1> DEFINE t == SubSeq(s, 1, i - 1)
           u == Append(t, s[i])
           v == SubSeq(s, 1, i)
<1>5. /\ u \in Seq(S) /\ Len(u) = Len(t) + 1 /\ u[Len(t) + 1] = s[i]
      /\ \A j \in 1 .. Len(t) : u[j] = t[j]
  BY <1>3, <1>4, AppendIs
<1> HIDE DEF t, u, v
<1>6. v = u
  <2>1. Len(v) = i /\ Len(u) = i /\ Len(t) = i - 1
    BY <1>2, <1>3, <1>5 DEF t, v
  <2>2. ASSUME NEW j \in 1 .. i PROVE v[j] = u[j]
    <3>1. CASE j = i
      BY <1>2, <1>5, <2>1, <3>1 DEF v
    <3>2. CASE j # i
      <4>1. j \in 1 .. i - 1
        BY <3>2
      <4> QED
        BY <1>2, <1>3, <1>5, <2>1, <4>1 DEF v, t
    <3> QED
      BY <3>1, <3>2
  <2>3. u \in Seq(S) /\ v \in Seq(S)
    BY <1>2, <1>5 DEF v
  <2> QED
    BY <2>1, <2>2, <2>3, SeqEqual
<1> QED
  BY <1>2, <1>3, <1>4, <1>6 DEF t, u, v

AppendsIn(s, t, x) == Append(s \o t, x) = s \o Append(t, x)

LEMMA AppendConcat ==
  ASSUME NEW S, NEW s \in Seq(S), NEW t \in Seq(S), NEW x \in S
  PROVE  AppendsIn(s, t, x)
<1>1. <<x>> \in Seq(S) /\ s \o t \in Seq(S)
  BY ConcatProperties
<1>2. Append(s \o t, x) = (s \o t) \o <<x>>
  BY <1>1, AppendIsConcat
<1>3. Append(t, x) = t \o <<x>>
  BY AppendIsConcat
<1>4. (s \o t) \o <<x>> = s \o (t \o <<x>>)
  BY <1>1, ConcatAssociative
<1> QED
  BY <1>2, <1>3, <1>4 DEF AppendsIn

LEMMA WriteBitsBits ==
  ASSUME NEW e, NEW bits, HasBits(e, bits), NEW more \in Seq({0, 1})
  PROVE  HasBits(WriteBits(e, more), bits \o more)
<1> DEFINE n == Len(more)
<1>1. n \in Nat /\ bits \in Seq({0, 1})
  BY DEF HasBits
<1>2. PICK w : IsWriteBits(w, e, more) /\ WriteBits(e, more) = w[n]
  BY <1>1, WriteBitsRun
<1> DEFINE I(i) == HasBits(w[i], bits \o SubSeq(more, 1, i))
           S == {i \in Nat : I(i)}
<1>3. 0 \in S
  <2>1. SubSeq(more, 1, 0) = <<>>
    BY SubSeqEmpty
  <2>2. bits \o <<>> = bits
    BY <1>1, ConcatEmptySeq
  <2>3. w[0] = e
    BY <1>2 DEF IsWriteBits
  <2>4. I(0)
    BY <2>1, <2>2, <2>3
  <2> QED
    BY <2>4
<1>4. ASSUME NEW i \in 1 .. n, i - 1 \in S PROVE i \in S
  <2> DEFINE t == SubSeq(more, 1, i - 1)
             x == more[i]
  <2>1. SubSeq(more, 1, i) = Append(t, x) /\ t \in Seq({0, 1}) /\ x \in {0, 1}
    BY AppendElement
  <2>2. w[i] = WriteBit(w[i - 1], x)
    BY <1>2 DEF IsWriteBits
  <2>3. HasBits(w[i - 1], bits \o t)
    BY <1>4
  <2> HIDE DEF t, x
  <2>4. HasBits(w[i], Append(bits \o t, x))
    BY <2>1, <2>2, <2>3, WriteBitBits
  <2>5. Append(bits \o t, x) = bits \o Append(t, x)
    <3> DEFINE B == {0, 1}
    <3>1. bits \in Seq(B) /\ t \in Seq(B) /\ x \in B
      BY <1>1, <2>1
    <3> HIDE DEF B
    <3>2. AppendsIn(bits, t, x)
      BY <3>1, AppendConcat
    <3> QED
      BY <3>2 DEF AppendsIn
  <2>6. I(i)
    BY <2>1, <2>4, <2>5
  <2> HIDE DEF I
  <2> QED
    BY <2>6
<1>5. n \in S
  <2> HIDE DEF S
  <2>1. \A m \in 0 .. n : m \in S
    BY <1>1, <1>3, <1>4, CountUp
  <2> QED
    BY <1>1, <2>1
<1>6. I(n)
  BY <1>5
<1>7. SubSeq(more, 1, n) = more
  BY SubSeqFull
<1> QED
  BY <1>2, <1>6, <1>7
-----------------------------------------------------------------------------
(* Huffman codes.                                                          *)

\* The encoders in which each of the characters is written.
IsWriteCodes(w, s) ==
  w[0] = BitEncoder(<<>>) /\ \A i \in 1 .. Len(s) : w[i] = WriteBits(w[i - 1], Code[s[i]])

\* The ones that fill the last byte.
Padding(e) == [i \in 1 .. 8 - e.bit |-> 1]

LEMMA WriteCodesRun ==
  ASSUME NEW s, Len(s) \in Nat
  PROVE  \E w : IsWriteCodes(w, s) /\ Huffman(s) = WriteBits(w[Len(s)], Padding(w[Len(s)])).data
<1> DEFINE n == Len(s)
           e == BitEncoder(<<>>)
           round(x, i) == WriteBits(x, Code[s[i]])
           Is(f, m) == f = [r \in 0 .. m |-> IF r = 0 THEN e ELSE round(f[r - 1], r)]
           S == {m \in Nat : \E f : Is(f, m)}
<1> HIDE DEF n, e
<1>0. n \in Nat
  BY DEF n
<1>1. 0 \in S
  <2>1. Is([r \in 0 .. 0 |-> e], 0)
    OBVIOUS
  <2> QED
    BY <2>1
<1>2. ASSUME NEW m \in 1 .. n, m - 1 \in S PROVE m \in S
  <2>1. PICK f : Is(f, m - 1)
    BY <1>2
  <2> HIDE DEF round
  <2> DEFINE g == [r \in 0 .. m |-> IF r < m THEN f[r] ELSE round(f[r - 1], r)]
  <2>2. ASSUME NEW r \in 0 .. m PROVE g[r] = IF r = 0 THEN e ELSE round(g[r - 1], r)
    <3>1. CASE r < m
      <4>1. r \in 0 .. m - 1 /\ (r # 0 => r - 1 \in 0 .. m - 1)
        BY <3>1
      <4> QED
        BY <2>1, <3>1, <4>1
    <3>2. CASE r = m
      <4>1. r # 0 /\ r - 1 \in 0 .. m /\ r - 1 < m
        BY <3>2
      <4> QED
        BY <3>2, <4>1
    <3> QED
      BY <3>1, <3>2
  <2>3. Is(g, m)
    <3>1. g = [r \in 0 .. m |-> g[r]]
      OBVIOUS
    <3> QED
      BY <2>2, <3>1
  <2> HIDE DEF g, Is
  <2>4. \E h : Is(h, m)
    BY <2>3
  <2> QED
    BY <2>4
<1>3. n \in S
  <2> HIDE DEF S
  <2>1. \A m \in 0 .. n : m \in S
    BY <1>0, <1>1, <1>2, CountUp
  <2> QED
    BY <1>0, <2>1
<1> DEFINE h == CHOOSE f : Is(f, n)
<1>4. Is(h, n)
  BY <1>3
<1>5. Huffman(s) = WriteBits(h[n], Padding(h[n])).data
  BY DEF Huffman, Loop, n, e, Padding
<1>6. h[0] = e /\ \A r \in 1 .. n : h[r] = round(h[r - 1], r)
  <2> HIDE DEF round
  <2>1. 0 \in 0 .. n /\ \A r \in 1 .. n : r \in 0 .. n /\ r # 0
    BY <1>0
  <2> QED
    BY <1>4, <2>1
<1>7. IsWriteCodes(h, s)
  BY <1>6 DEF IsWriteCodes, n, e
<1> QED
  BY <1>5, <1>7 DEF n

\* The codes of the first n characters of s are the bits, and end at the cuts.
IsCoded(bits, s, cut, n) ==
  /\ cut \in [0 .. n -> Nat] /\ cut[0] = 0 /\ cut[n] = Len(bits)
  /\ \A i \in 1 .. n :
       /\ cut[i] = cut[i - 1] + Len(Code[s[i]])
       /\ \A j \in 1 .. Len(Code[s[i]]) : bits[cut[i - 1] + j] = Code[s[i]][j]

\* Cuts that do not fall are none after the last one.
LEMMA CutsRise ==
  ASSUME NEW n \in Nat, NEW cut \in [0 .. n -> Nat], \A i \in 1 .. n : cut[i - 1] <= cut[i],
         NEW i \in 0 .. n
  PROVE  cut[i] <= cut[n]
<1> DEFINE I(k) == k <= n => cut[n - k] <= cut[n]
           S == {k \in Nat : I(k)}
<1>1. 0 \in S
  <2>1. n - 0 = n /\ cut[n] \in Nat
    OBVIOUS
  <2>2. I(0)
    BY <2>1
  <2> QED
    BY <2>2
<1>2. ASSUME NEW k \in 1 .. n, k - 1 \in S PROVE k \in S
  <2> DEFINE j == n - (k - 1)
  <2>1. j \in 1 .. n /\ j - 1 = n - k /\ k - 1 <= n /\ j \in 0 .. n /\ j - 1 \in 0 .. n
    OBVIOUS
  <2>2. cut[j] <= cut[n]
    BY <1>2, <2>1
  <2> HIDE DEF j
  <2>3. cut[j - 1] <= cut[j] /\ cut[j] \in Nat /\ cut[j - 1] \in Nat /\ cut[n] \in Nat
    BY <2>1
  <2>4. cut[j - 1] <= cut[n]
    BY <2>2, <2>3
  <2>5. I(k)
    BY <2>1, <2>4
  <2> QED
    BY <2>5
<1>3. \A k \in 0 .. n : k \in S
  <2> HIDE DEF S
  <2> QED
    BY <1>1, <1>2, CountUp
<1>4. n - i \in 0 .. n /\ n - (n - i) = i /\ n - i <= n
  OBVIOUS
<1>5. I(n - i)
  BY <1>3, <1>4
<1> QED
  BY <1>4, <1>5

\* Those of codes do not.
LEMMA CodeCutsRise ==
  ASSUME NEW s \in Seq(DOMAIN Code), NEW n \in 0 .. Len(s), NEW bits,
         NEW cut, IsCoded(bits, s, cut, n), NEW i \in 0 .. n
  PROVE  cut[i] <= Len(bits)
<1>1. cut \in [0 .. n -> Nat] /\ cut[n] = Len(bits) /\ n \in Nat
  BY DEF IsCoded
<1>2. ASSUME NEW k \in 1 .. n PROVE cut[k - 1] <= cut[k]
  <2>1. k \in 1 .. Len(s) /\ k - 1 \in 0 .. n /\ k \in 0 .. n
    OBVIOUS
  <2>2. s[k] \in DOMAIN Code
    BY <2>1, ElementOfSeq
  <2> DEFINE l == Len(Code[s[k]])
  <2>3. cut[k] = cut[k - 1] + l
    BY DEF IsCoded
  <2>4. l \in Nat
    BY <2>2, Codes
  <2> HIDE DEF l
  <2>5. cut[k] \in Nat /\ cut[k - 1] \in Nat
    BY <1>1, <2>1
  <2> QED
    BY <2>3, <2>4, <2>5
<1> QED
  BY <1>1, <1>2, CutsRise

LEMMA MoreCoded ==
  ASSUME NEW s \in Seq(DOMAIN Code), NEW n \in 1 .. Len(s), NEW bits \in Seq({0, 1}),
         NEW cut, IsCoded(bits, s, cut, n - 1)
  PROVE  \E longer : IsCoded(bits \o Code[s[n]], s, longer, n)
<1> DEFINE code == Code[s[n]]
           more == bits \o code
           longer == [i \in 0 .. n |-> IF i < n THEN cut[i] ELSE Len(more)]
<1>1. code \in Seq({0, 1}) /\ Len(code) \in Nat
  <2>1. s[n] \in DOMAIN Code
    BY ElementOfSeq
  <2> QED
    BY <2>1, Codes
<1>2. /\ more \in Seq({0, 1}) /\ Len(more) = Len(bits) + Len(code) /\ Len(bits) \in Nat
      /\ \A i \in 1 .. Len(bits) + Len(code) :
           more[i] = IF i <= Len(bits) THEN bits[i] ELSE code[i - Len(bits)]
  <2> HIDE DEF code
  <2> QED
    BY <1>1, ConcatProperties
<1> HIDE DEF more
<1>3. cut \in [0 .. n - 1 -> Nat] /\ cut[0] = 0 /\ cut[n - 1] = Len(bits)
  BY DEF IsCoded
<1>4. ASSUME NEW i \in 1 .. n - 1
      PROVE  /\ cut[i] = cut[i - 1] + Len(Code[s[i]])
             /\ \A j \in 1 .. Len(Code[s[i]]) : bits[cut[i - 1] + j] = Code[s[i]][j]
  BY DEF IsCoded
<1>5. ASSUME NEW i \in 0 .. n - 1 PROVE cut[i] <= Len(bits)
  <2>1. n - 1 \in 0 .. Len(s)
    OBVIOUS
  <2> QED
    BY <2>1, CodeCutsRise
<1>6. longer \in [0 .. n -> Nat] /\ longer[0] = 0 /\ longer[n] = Len(more)
  BY <1>1, <1>2, <1>3
<1>7. ASSUME NEW i \in 1 .. n
      PROVE  /\ longer[i] = longer[i - 1] + Len(Code[s[i]])
             /\ \A j \in 1 .. Len(Code[s[i]]) : more[longer[i - 1] + j] = Code[s[i]][j]
  <2>1. CASE i = n
    <3>1. longer[i] = Len(more) /\ longer[i - 1] = Len(bits)
      BY <1>3, <2>1
    <3>2. ASSUME NEW j \in 1 .. Len(code) PROVE more[Len(bits) + j] = code[j]
      <4>1. Len(bits) + j \in 1 .. Len(bits) + Len(code) /\ ~(Len(bits) + j <= Len(bits))
            /\ Len(bits) + j - Len(bits) = j
        BY <1>1, <1>2
      <4> QED
        BY <1>2, <4>1
    <3> QED
      BY <1>2, <2>1, <3>1, <3>2
  <2>2. CASE i # n
    <3>1. i \in 1 .. n - 1 /\ i - 1 \in 0 .. n - 1 /\ i \in 0 .. n - 1
      BY <2>2
    <3> DEFINE c == Code[s[i]]
    <3>2. longer[i] = cut[i] /\ longer[i - 1] = cut[i - 1]
      BY <3>1
    <3>3. /\ cut[i] = cut[i - 1] + Len(c)
          /\ \A j \in 1 .. Len(c) : bits[cut[i - 1] + j] = c[j]
      BY <1>4, <3>1
    <3>4. cut[i] <= Len(bits) /\ cut[i - 1] \in Nat /\ cut[i] \in Nat
      BY <1>3, <1>5, <3>1
    <3>5. Len(c) \in Nat
      <4>1. i \in 1 .. Len(s)
        BY <3>1
      <4>2. s[i] \in DOMAIN Code
        BY <4>1, ElementOfSeq
      <4> QED
        BY <4>2, Codes
    <3> HIDE DEF c, longer
    <3>6. ASSUME NEW j \in 1 .. Len(c) PROVE more[cut[i - 1] + j] = c[j]
      <4> DEFINE k == cut[i - 1] + j
      <4>1. k \in 1 .. Len(bits) + Len(code) /\ k <= Len(bits)
        <5> DEFINE a == cut[i - 1]
                   z == cut[i]
                   l == Len(c)
                   m == Len(code)
        <5>1. a \in Nat /\ z \in Nat /\ l \in Nat /\ m \in Nat /\ Len(bits) \in Nat
              /\ z = a + l /\ z <= Len(bits) /\ j \in 1 .. l
          BY <1>1, <1>2, <3>3, <3>4, <3>5
        <5> HIDE DEF a, z, l, m
        <5>2. a + j \in 1 .. Len(bits) + m /\ a + j <= Len(bits)
          BY <5>1
        <5> USE DEF a, z, l, m
        <5> QED
          BY <5>2
      <4>2. bits[k] = c[j]
        BY <3>3
      <4> HIDE DEF k
      <4>3. more[k] = c[j]
        BY <1>2, <4>1, <4>2
      <4> QED
        BY <4>3 DEF k
    <3> QED
      BY <3>2, <3>3, <3>6 DEF c
  <2> QED
    BY <2>1, <2>2
<1> HIDE DEF longer
<1>8. IsCoded(more, s, longer, n)
  BY <1>6, <1>7 DEF IsCoded
<1> QED
  BY <1>8 DEF more

\* H are the bytes of the Huffman-coded string s: its codes, which end at the cuts, and less
\* than a byte of ones.
IsHuffman(H, s, cut) ==
  /\ H \in Seq(0 .. 255)
  /\ cut \in [0 .. Len(s) -> Nat] /\ cut[0] = 0
  /\ \A i \in 1 .. Len(s) :
       /\ cut[i] = cut[i - 1] + Len(Code[s[i]])
       /\ \A j \in 1 .. Len(Code[s[i]]) : Bit(H, cut[i - 1] + j - 1) = Code[s[i]][j]
  /\ cut[Len(s)] <= 8 * Len(H) /\ 8 * Len(H) < cut[Len(s)] + 8
  /\ \A k \in cut[Len(s)] .. 8 * Len(H) - 1 : Bit(H, k) = 1

LEMMA CodesOfHuffman ==
  ASSUME NEW s \in Seq(DOMAIN Code), NEW w, IsWriteCodes(w, s)
  PROVE  \E bits, cut :
           bits \in Seq({0, 1}) /\ HasBits(w[Len(s)], bits) /\ IsCoded(bits, s, cut, Len(s))
<1> DEFINE n == Len(s)
           I(i) == \E bits, cut : /\ bits \in Seq({0, 1})
                                  /\ HasBits(w[i], bits) /\ IsCoded(bits, s, cut, i)
           S == {i \in Nat : I(i)}
<1>1. n \in Nat
  OBVIOUS
<1>2. 0 \in S
  <2>1. HasBits(w[0], <<>>)
    BY NoBits DEF IsWriteCodes
  <2> DEFINE cut == [i \in 0 .. 0 |-> 0]
  <2>2. IsCoded(<<>>, s, cut, 0)
    BY DEF IsCoded
  <2>3. <<>> \in Seq({0, 1})
    OBVIOUS
  <2> HIDE DEF cut
  <2>4. I(0)
    BY <2>1, <2>2, <2>3
  <2> QED
    BY <2>4
<1>3. ASSUME NEW i \in 1 .. n, i - 1 \in S PROVE i \in S
  <2>1. PICK bits, cut :
          bits \in Seq({0, 1}) /\ HasBits(w[i - 1], bits) /\ IsCoded(bits, s, cut, i - 1)
    BY <1>3
  <2> DEFINE code == Code[s[i]]
             more == bits \o code
  <2>2. w[i] = WriteBits(w[i - 1], code)
    BY DEF IsWriteCodes
  <2>3. code \in Seq({0, 1})
    <3>1. s[i] \in DOMAIN Code
      BY ElementOfSeq
    <3> QED
      BY <3>1, Codes
  <2>4. PICK longer : IsCoded(more, s, longer, i)
    BY <2>1, MoreCoded
  <2> HIDE DEF code
  <2>5. HasBits(w[i], more)
    BY <2>1, <2>2, <2>3, WriteBitsBits
  <2>6. more \in Seq({0, 1})
    BY <2>5 DEF HasBits
  <2> HIDE DEF more
  <2>7. I(i)
    BY <2>4, <2>5, <2>6
  <2> HIDE DEF I
  <2> QED
    BY <2>7
<1>4. n \in S
  <2> HIDE DEF S, n
  <2>1. \A m \in 0 .. n : m \in S
    BY <1>1, <1>2, <1>3, CountUp
  <2> QED
    BY <1>1, <2>1
<1>5. I(n)
  BY <1>4
<1> QED
  BY <1>5

\* The padding completes the byte.
LEMMA PadBits ==
  ASSUME NEW e, NEW bits, HasBits(e, bits)
  PROVE  LET pad == Padding(e)
             H == WriteBits(e, pad).data
         IN  /\ H \in Seq(0 .. 255)
             /\ Len(bits) <= 8 * Len(H) /\ 8 * Len(H) < Len(bits) + 8
             /\ \A k \in 1 .. Len(bits) : Bit(H, k - 1) = bits[k]
             /\ \A k \in Len(bits) + 1 .. 8 * Len(H) : Bit(H, k - 1) = 1
<1> DEFINE pad == Padding(e)
           r == WriteBits(e, pad)
           H == r.data
           all == bits \o pad
           n == Len(bits)
           p == Len(pad)
<1>1. PICK F \in Seq(0 .. 255), y \in 0 .. 255, b \in 0 .. 7 :
        Encoding(e, F, y, b) /\ 8 * Len(F) + b = n
  BY DEF HasBits
<1>2. bits \in Seq({0, 1}) /\ n \in Nat /\ Len(F) \in Nat
  BY DEF HasBits
<1>3. (b = 0 /\ e.bit = 8) \/ (b \in 1 .. 7 /\ e.bit = b)
  BY <1>1 DEF Encoding, IsEnc
<1>4. /\ pad \in Seq({0, 1}) /\ p \in 0 .. 7 /\ \A k \in 1 .. p : pad[k] = 1
      /\ (b = 0 /\ p = 0) \/ p = 8 - b
  <2>1. CASE b = 0 /\ e.bit = 8
    <3>1. pad = [i \in 1 .. 0 |-> 1]
      BY <2>1 DEF Padding
    <3>2. pad \in [1 .. 0 -> {0, 1}]
      BY <3>1
    <3>3. pad \in Seq({0, 1}) /\ p = 0
      BY <3>1, <3>2
    <3> QED
      BY <2>1, <3>3
  <2>2. CASE b \in 1 .. 7 /\ e.bit = b
    <3> DEFINE m == 8 - b
    <3>1. m \in 1 .. 7 /\ pad = [i \in 1 .. m |-> 1]
      BY <2>2 DEF Padding
    <3> HIDE DEF m, pad
    <3>2. pad \in Seq({0, 1}) /\ p = m /\ \A k \in 1 .. m : pad[k] = 1
      BY <3>1
    <3> HIDE DEF p
    <3>3. m = 8 - b
      BY DEF m
    <3> QED
      BY <3>1, <3>2, <3>3
  <2> QED
    BY <1>3, <2>1, <2>2
<1> HIDE DEF pad, n, p
<1>5. /\ all \in Seq({0, 1}) /\ Len(all) = n + p
      /\ \A k \in 1 .. n + p : all[k] = IF k <= n THEN bits[k] ELSE pad[k - n]
  BY <1>2, <1>4, ConcatProperties DEF n, p
<1>6. HasBits(r, all)
  BY <1>4, WriteBitsBits
<1> HIDE DEF all, r
<1>7. PICK G \in Seq(0 .. 255), z \in 0 .. 255, c \in 0 .. 7 :
        Encoding(r, G, z, c) /\ 8 * Len(G) + c = n + p /\ BitsAre(Append(G, z), all)
  BY <1>5, <1>6 DEF HasBits
<1>8. c = 0 /\ 8 * Len(G) = n + p /\ Len(G) \in Nat
  <2>1. Len(G) \in Nat
    OBVIOUS
  <2>2. 8 * Len(G) + c = 8 * Len(F) + b + p
    BY <1>1, <1>7
  <2> DEFINE k == Len(G)
             l == Len(F)
  <2>3. k \in Nat /\ l \in Nat /\ 8 * k + c = 8 * l + b + p
    BY <1>2, <2>1, <2>2
  <2> DEFINE d == b + p
  <2>5. (d = 0 \/ d = 8) /\ 8 * k + c = 8 * l + d /\ k \in Nat /\ l \in Nat
    BY <1>2, <1>4, <2>3
  <2> HIDE DEF k, l, d
  <2> DEFINE m == IF d = 0 THEN l ELSE l + 1
  <2>6. m \in Nat /\ 8 * k + c = 8 * m + 0 /\ 0 \in 0 .. 7
    BY <2>5
  <2> HIDE DEF m
  <2>7. (8 * k + c) % 8 = c
    BY <2>5, Eights
  <2>8. (8 * m + 0) % 8 = 0
    BY <2>6, Eights
  <2>4. c = 0
    BY <2>6, <2>7, <2>8
  <2> QED
    BY <1>7, <2>1, <2>4
<1>9. H = G
  BY <1>7, <1>8 DEF Encoding, IsEnc
<1>10. ASSUME NEW k \in 1 .. 8 * Len(G) PROVE Bit(G, k - 1) = all[k]
  <2> DEFINE Z == Append(G, z)
             j == k - 1
             q == j \div 8
             a == j % 8
             m == Len(G)
  <2>1. m \in Nat /\ j \in Nat /\ j < 8 * m
    BY <1>8
  <2>2. /\ Z \in Seq(0 .. 255) /\ Len(Z) = m + 1 /\ \A i \in 1 .. m : Z[i] = G[i]
    BY AppendIs
  <2> HIDE DEF Z, m, j
  <2>3. q \in Nat /\ a \in 0 .. 7 /\ 8 * q + a = j /\ q < m /\ q + 1 \in 1 .. m /\ q < m + 1
    BY <2>1
  <2> HIDE DEF q, a
  <2>4. q < Len(G) /\ q < Len(Z) /\ Z[q + 1] = G[q + 1]
    BY <2>2, <2>3 DEF m
  <2>5. Bit(Z, 8 * q + a) = Bit(G, 8 * q + a)
    BY <2>2, <2>3, <2>4, SameBit
  <2>6. k \in 1 .. Len(all)
    BY <1>5, <1>8
  <2>7. Bit(Z, j) = all[k]
    BY <1>7, <2>6 DEF BitsAre, Z, j
  <2>8. Bit(G, j) = all[k]
    BY <2>3, <2>5, <2>7
  <2> QED
    BY <2>8 DEF j
<1> HIDE DEF H
<1>11. n <= 8 * Len(H) /\ 8 * Len(H) < n + 8
  BY <1>2, <1>4, <1>8, <1>9
<1>12. ASSUME NEW k \in 1 .. n PROVE Bit(H, k - 1) = bits[k]
  <2>1. k \in 1 .. 8 * Len(G) /\ k \in 1 .. n + p /\ k <= n
    BY <1>2, <1>4, <1>8
  <2>2. Bit(G, k - 1) = all[k] /\ all[k] = bits[k]
    BY <1>5, <1>10, <2>1
  <2> QED
    BY <1>9, <2>2
<1>13. ASSUME NEW k \in n + 1 .. 8 * Len(H) PROVE Bit(H, k - 1) = 1
  <2>1. k \in 1 .. 8 * Len(G) /\ k \in 1 .. n + p /\ ~(k <= n) /\ k - n \in 1 .. p
    BY <1>2, <1>4, <1>8, <1>9
  <2>2. Bit(G, k - 1) = all[k] /\ all[k] = pad[k - n] /\ pad[k - n] = 1
    BY <1>4, <1>5, <1>10, <2>1
  <2> QED
    BY <1>9, <2>2
<1>14. H \in Seq(0 .. 255)
  BY <1>9
<1> QED
  BY <1>11, <1>12, <1>13, <1>14 DEF H, r, pad, n

LEMMA HuffmanIs ==
  ASSUME NEW s \in Seq(DOMAIN Code)
  PROVE  \E cut : IsHuffman(Huffman(s), s, cut)
<1> DEFINE n == Len(s)
           H == Huffman(s)
<1>1. n \in Nat
  OBVIOUS
<1>2. PICK w : IsWriteCodes(w, s) /\ H = WriteBits(w[n], Padding(w[n])).data
  BY <1>1, WriteCodesRun
<1>3. PICK bits, cut :
          bits \in Seq({0, 1}) /\ HasBits(w[n], bits) /\ IsCoded(bits, s, cut, n)
  BY <1>2, CodesOfHuffman
<1> HIDE DEF H, n
<1> DEFINE l == Len(bits)
<1>4. /\ H \in Seq(0 .. 255)
      /\ l <= 8 * Len(H) /\ 8 * Len(H) < l + 8
      /\ \A k \in 1 .. l : Bit(H, k - 1) = bits[k]
      /\ \A k \in l + 1 .. 8 * Len(H) : Bit(H, k - 1) = 1
  BY <1>2, <1>3, PadBits
<1>5. l \in Nat /\ Len(H) \in Nat
  BY <1>4
<1>6. cut \in [0 .. n -> Nat] /\ cut[0] = 0 /\ cut[n] = l
  BY <1>3 DEF IsCoded
<1>7. ASSUME NEW i \in 1 .. n
      PROVE  /\ cut[i] = cut[i - 1] + Len(Code[s[i]])
             /\ \A j \in 1 .. Len(Code[s[i]]) : Bit(H, cut[i - 1] + j - 1) = Code[s[i]][j]
  <2> DEFINE c == Code[s[i]]
             a == cut[i - 1]
  <2>1. cut[i] = a + Len(c) /\ \A j \in 1 .. Len(c) : bits[a + j] = c[j]
    BY <1>3 DEF IsCoded
  <2>2. Len(c) \in Nat
    <3>1. s[i] \in DOMAIN Code
      BY ElementOfSeq DEF n
    <3> QED
      BY <3>1, Codes
  <2>3. a \in Nat /\ cut[i] \in Nat
    <3>1. i \in 0 .. n /\ i - 1 \in 0 .. n
      BY <1>1
    <3> QED
      BY <1>6, <3>1
  <2>4. cut[i] <= l
    <3>1. n \in 0 .. Len(s) /\ i \in 0 .. n
      BY <1>1 DEF n
    <3> QED
      BY <1>3, <3>1, CodeCutsRise
  <2> HIDE DEF a, c, l
  <2>5. ASSUME NEW j \in 1 .. Len(c) PROVE Bit(H, a + j - 1) = c[j]
    <3> DEFINE k == a + j
    <3>1. k \in 1 .. l /\ bits[k] = c[j] /\ a + j - 1 = k - 1
      BY <1>5, <2>1, <2>2, <2>3, <2>4
    <3> HIDE DEF k
    <3>2. Bit(H, k - 1) = bits[k]
      BY <1>4, <3>1 DEF l
    <3> QED
      BY <3>1, <3>2
  <2> QED
    BY <2>1, <2>5 DEF a, c
<1>8. ASSUME NEW k \in l .. 8 * Len(H) - 1 PROVE Bit(H, k) = 1
  <2> HIDE DEF l
  <2>1. k + 1 \in l + 1 .. 8 * Len(H) /\ k + 1 - 1 = k
    BY <1>5
  <2>2. Bit(H, k + 1 - 1) = 1
    BY <1>4, <2>1
  <2> QED
    BY <2>1, <2>2
<1> HIDE DEF l
<1>9. IsHuffman(H, s, cut)
  BY <1>4, <1>6, <1>7, <1>8 DEF IsHuffman, n
<1> QED
  BY <1>9 DEF H
-----------------------------------------------------------------------------
(* Strings and fields.                                                     *)

\* The bytes that a string is written as.
Text(huff, s) == IF huff THEN Huffman(s) ELSE s

\* A string stands between the p-th byte and the q-th.
StringIn(huff, D, p, q, s) ==
  \E m \in Nat :
    /\ IntIn(D, p, m, IF huff THEN 128 ELSE 0, 127, Len(Text(huff, s)))
    /\ Holds(D, m, Text(huff, s))
    /\ q = m + Len(Text(huff, s))

LEMMA TextType ==
  ASSUME NEW huff \in BOOLEAN, NEW s \in Seq(DOMAIN Code)
  PROVE  Text(huff, s) \in Seq(0 .. 255) /\ Len(Text(huff, s)) \in Nat
<1>1. DOMAIN Code \subseteq 0 .. 255
  BY CodeAssumption
<1>2. s \in Seq(0 .. 255)
  BY <1>1, SeqMonotonic
<1>3. Huffman(s) \in Seq(0 .. 255)
  <2>1. PICK cut : IsHuffman(Huffman(s), s, cut)
    BY HuffmanIs
  <2> QED
    BY <2>1 DEF IsHuffman
<1>4. Text(huff, s) = Huffman(s) \/ Text(huff, s) = s
  BY DEF Text
<1>5. Text(huff, s) \in Seq(0 .. 255)
  BY <1>2, <1>3, <1>4
<1> QED
  BY <1>5

\* Of a string, E extends D and holds the string after D.
IsWritten(huff, e, E, D, s) ==
  /\ IsEnc(e, E, 8) /\ E \in Seq(0 .. 255) /\ Extends(E, D)
  /\ StringIn(huff, E, Len(D), Len(E), s)

LEMMA WriteStringOf ==
  ASSUME huffman \in BOOLEAN, NEW D \in Seq(0 .. 255), NEW e, IsEnc(e, D, 8),
         NEW s \in Seq(DOMAIN Code)
  PROVE  IsWritten(huffman, WriteString(e, s), WriteString(e, s).data, D, s)
<1> DEFINE text == Text(huffman, s)
           x == IF huffman THEN 1 ELSE 0
           h == IF huffman THEN 128 ELSE 0
           flag == WriteBit(e, x)
           i == Len(text)
           sized == WriteInt(flag, i)
           F == sized.data
           E == F \o text
           r == [sized EXCEPT !.data = F \o text]
<1>1. text \in Seq(0 .. 255) /\ i \in Nat
  BY TextType
<1>2. WriteString(e, s) = r
  BY DEF WriteString, Text
<1>3. x \in {0, 1} /\ h = 128 * x /\ h \in {0, 128}
  OBVIOUS
<1>4. IsEnc(flag, Append(D, h), 1)
  <2> HIDE DEF x, h
  <2>1. IsEnc(flag, Append(D, 128 * x), 1)
    BY <1>3, FirstBit
  <2> QED
    BY <1>3, <2>1
<1>5. IsFlags(1, h, 127)
  BY <1>3 DEF IsFlags
<1> HIDE DEF text, flag, i
<1>6. /\ IsEnc(sized, F, 8) /\ F \in Seq(0 .. 255) /\ Extends(F, D)
      /\ IntIn(F, Len(D), Len(F), h, 127, i)
  BY <1>1, <1>4, <1>5, WriteIntOf
<1> HIDE DEF sized, F
<1>7. /\ E \in Seq(0 .. 255) /\ Len(E) = Len(F) + Len(text)
      /\ Extends(E, F) /\ Holds(E, Len(F), text)
  BY <1>1, <1>6, ConcatExtends
<1> HIDE DEF E
<1>8. Extends(E, D)
  BY <1>6, <1>7, ExtendsTrans
<1>9. Len(D) \in Nat /\ Len(F) \in Nat /\ 127 \in Nat
  BY <1>6
<1>10. IntIn(E, Len(D), Len(F), h, 127, i)
  BY <1>1, <1>6, <1>7, <1>9, ExtendsIntIn
<1>11. StringIn(huffman, E, Len(D), Len(E), s)
  BY <1>7, <1>9, <1>10 DEF StringIn, text, i
<1>12. IsEnc(r, E, 8)
  BY <1>6 DEF IsEnc, E
<1>13. r.data = E
  BY <1>12 DEF IsEnc
<1> HIDE DEF r
<1> QED
  BY <1>2, <1>7, <1>8, <1>11, <1>12, <1>13 DEF IsWritten

LEMMA ExtendsStringIn ==
  ASSUME NEW D \in Seq(0 .. 255), NEW E \in Seq(0 .. 255), Extends(E, D), NEW huff \in BOOLEAN,
         NEW p \in Nat, NEW q, NEW s \in Seq(DOMAIN Code), StringIn(huff, D, p, q, s)
  PROVE  StringIn(huff, E, p, q, s)
<1> DEFINE text == Text(huff, s)
           h == IF huff THEN 128 ELSE 0
           i == Len(text)
<1>1. text \in Seq(0 .. 255) /\ i \in Nat
  BY TextType
<1>2. PICK m \in Nat : IntIn(D, p, m, h, 127, i) /\ Holds(D, m, text) /\ q = m + i
  BY DEF StringIn
<1> HIDE DEF text
<1>3. Holds(E, m, text)
  BY <1>1, <1>2, ExtendsHolds
<1> HIDE DEF h, i
<1>4. IntIn(E, p, m, h, 127, i)
  BY <1>1, <1>2, ExtendsIntIn
<1> QED
  BY <1>2, <1>3, <1>4 DEF StringIn, text, h, i

\* Operations with an index only, and those with two strings.
Short == {"indexed", "limit"}
Long == {"YES", "NEVER", "NO"}

\* The strings of a literal field, after its index.
LiteralIn(huff, D, p, q, f) ==
  \E n \in Nat :
    /\ f.idx = 0 => StringIn(huff, D, p, n, f.name)
    /\ f.idx # 0 => n = p
    /\ StringIn(huff, D, n, q, f.value)

\* A field stands between the p-th byte and the q-th.
FieldIn(huff, D, p, q, f) ==
  \E b \in 1 .. 4, h \in 0 .. 255, m \in 0 .. 255, n \in Nat :
    /\ HasFlags(f.op, b, h, m) /\ IntIn(D, p, n, h, m, f.idx)
    /\ f.op \in Short => q = n
    /\ f.op \in Long => LiteralIn(huff, D, n, q, f)

LEMMA FieldIs ==
  ASSUME NEW f \in Fields
  PROVE  /\ f.op \in Short \cup Long /\ f.idx \in Nat
         /\ f \in Literals <=> f.op \in Long
         /\ f.op \in Short => f = [op |-> f.op, idx |-> f.idx]
         /\ f.op \in Long => /\ f = [op |-> f.op, idx |-> f.idx, name |-> f.name, value |-> f.value]
                             /\ f.value \in Seq(DOMAIN Code)
                             /\ f.idx = 0 => f.name \in Seq(DOMAIN Code)
                             /\ f.idx # 0 => f.name = <<>>
<1>1. Strings \subseteq Seq(DOMAIN Code) /\ Indices \subseteq Nat
  BY ConstantsAssumption
<1>2. CASE f \in [op : {"indexed", "limit"}, idx : Indices]
  <2>1. f.op \in Short /\ f.op \notin Long /\ f.idx \in Nat /\ f = [op |-> f.op, idx |-> f.idx]
    BY <1>1, <1>2 DEF Short, Long
  <2>2. f \notin Literals
    <3>1. \A g \in Literals : g.op \in Long
      BY DEF Literals, Long
    <3> QED
      BY <2>1, <3>1
  <2> QED
    BY <2>1, <2>2
<1>3. CASE f \in Literals
  <2>1. /\ f.op \in Long /\ f.op \notin Short /\ f.idx \in Nat
    <3>1. f.op \in {"YES", "NEVER", "NO"} /\ (f.idx \in Indices \/ f.idx = 0)
      BY <1>3 DEF Literals
    <3>2. f.op \in Long /\ f.op \notin Short
      BY <3>1 DEF Short, Long
    <3>3. f.idx \in Nat
      <4> DEFINE i == f.idx
      <4>1. i \in Indices \/ i = 0
        BY <3>1
      <4> HIDE DEF i
      <4>2. \A j \in Indices : j \in Nat
        BY <1>1, Zenon
      <4>3. i \in Nat
        BY <4>1, <4>2
      <4> QED
        BY <4>3 DEF i
    <3> QED
      BY <3>2, <3>3
  <2>2. f = [op |-> f.op, idx |-> f.idx, name |-> f.name, value |-> f.value]
    BY <1>3 DEF Literals
  <2>3. /\ f.value \in Seq(DOMAIN Code)
        /\ f.idx = 0 => f.name \in Seq(DOMAIN Code)
        /\ f.idx # 0 => f.name = <<>>
    <3>1. f.value \in Strings /\ (f.idx = 0 => f.name \in Strings) /\ (f.idx # 0 => f.name = <<>>)
      BY <1>3 DEF Literals
    <3> QED
      BY <1>1, <3>1
  <2> QED
    BY <1>3, <2>1, <2>2, <2>3
<1> QED
  BY <1>2, <1>3 DEF Fields

LEMMA FlagsOf ==
  ASSUME NEW op \in Short \cup Long
  PROVE  \E b \in 1 .. 4, h \in 0 .. 255, m \in 0 .. 255 : HasFlags(op, b, h, m)
<1>1. CASE op = "indexed"
  <2>1. HasFlags(op, 1, 128, 127)
    BY <1>1 DEF HasFlags
  <2>2. 1 \in 1 .. 4 /\ 128 \in 0 .. 255 /\ 127 \in 0 .. 255
    OBVIOUS
  <2> QED
    BY <2>1, <2>2, Zenon
<1>2. CASE op = "YES"
  <2>1. HasFlags(op, 2, 64, 63)
    BY <1>2 DEF HasFlags
  <2>2. 2 \in 1 .. 4 /\ 64 \in 0 .. 255 /\ 63 \in 0 .. 255
    OBVIOUS
  <2> QED
    BY <2>1, <2>2, Zenon
<1>3. CASE op = "limit"
  <2>1. HasFlags(op, 3, 32, 31)
    BY <1>3 DEF HasFlags
  <2>2. 3 \in 1 .. 4 /\ 32 \in 0 .. 255 /\ 31 \in 0 .. 255
    OBVIOUS
  <2> QED
    BY <2>1, <2>2, Zenon
<1>4. CASE op = "NEVER"
  <2>1. HasFlags(op, 4, 16, 15)
    BY <1>4 DEF HasFlags
  <2>2. 4 \in 1 .. 4 /\ 16 \in 0 .. 255 /\ 15 \in 0 .. 255
    OBVIOUS
  <2> QED
    BY <2>1, <2>2, Zenon
<1>5. CASE op = "NO"
  <2>1. HasFlags(op, 4, 0, 15)
    BY <1>5 DEF HasFlags
  <2>2. 4 \in 1 .. 4 /\ 0 \in 0 .. 255 /\ 15 \in 0 .. 255
    OBVIOUS
  <2> QED
    BY <2>1, <2>2, Zenon
<1> QED
  BY <1>1, <1>2, <1>3, <1>4, <1>5 DEF Short, Long

LEMMA ExtendsItself ==
  ASSUME NEW D \in Seq(0 .. 255)
  PROVE  Extends(D, D)
BY DEF Extends

LEMMA WriteFieldOf ==
  ASSUME huffman \in BOOLEAN, data \in Seq(0 .. 255), NEW f \in Fields, WriteField(f)
  PROVE  /\ data' \in Seq(0 .. 255) /\ Extends(data', data)
         /\ FieldIn(huffman, data', Len(data), Len(data'), f)
<1> DEFINE e0 == BitEncoder(data)
           e1 == WriteBits(e0, Flags(f))
           begun == WriteInt(e1, f.idx)
           B == begun.data
           named == IF f.idx = 0 THEN WriteString(begun, f.name) ELSE begun
           N == named.data
           E == (IF f \in Literals THEN WriteString(named, f.value) ELSE begun).data
<1>1. data' = E
  BY DEF WriteField
<1>2. /\ f.op \in Short \cup Long /\ f.idx \in Nat
      /\ f \in Literals <=> f.op \in Long
      /\ f.op \in Long => /\ f.value \in Seq(DOMAIN Code)
                          /\ f.idx = 0 => f.name \in Seq(DOMAIN Code)
  BY FieldIs
<1>3. PICK b \in 1 .. 4, h \in 0 .. 255, m \in 0 .. 255 : HasFlags(f.op, b, h, m)
  BY <1>2, FlagsOf
<1>4. IsEnc(e0, data, 8)
  BY DEF BitEncoder, IsEnc
<1>5. IsEnc(e1, Append(data, h), b) /\ IsFlags(b, h, m)
  BY <1>3, <1>4, WriteFlags
<1> HIDE DEF e0, e1
<1>6. /\ IsEnc(begun, B, 8) /\ B \in Seq(0 .. 255) /\ Extends(B, data)
      /\ IntIn(B, Len(data), Len(B), h, m, f.idx)
  BY <1>2, <1>5, WriteIntOf
<1> HIDE DEF begun, B
<1>7. Len(data) \in Nat /\ Len(B) \in Nat /\ m \in Nat
  BY <1>6
<1>8. CASE f.op \in Short
  <2>1. f.op \notin Long /\ f \notin Literals
    BY <1>2, <1>8 DEF Short, Long
  <2>2. E = B
    BY <2>1 DEF B
  <2> HIDE DEF E
  <2>3. FieldIn(huffman, B, Len(data), Len(B), f)
    BY <1>3, <1>6, <1>7, <2>1 DEF FieldIn
  <2> QED
    BY <1>1, <1>6, <2>2, <2>3
<1>9. CASE f.op \in Long
  <2>1. f.op \notin Short /\ f \in Literals
    BY <1>2, <1>9 DEF Short, Long
  <2>2. /\ IsEnc(named, N, 8) /\ N \in Seq(0 .. 255) /\ Extends(N, B)
        /\ f.idx = 0 => StringIn(huffman, N, Len(B), Len(N), f.name)
        /\ f.idx # 0 => Len(N) = Len(B)
    <3>1. CASE f.idx = 0
      <4>1. f.name \in Seq(DOMAIN Code)
        BY <1>2, <1>9, <3>1
      <4> DEFINE r == WriteString(begun, f.name)
      <4>2. IsWritten(huffman, r, r.data, B, f.name)
        BY <1>6, <4>1, WriteStringOf
      <4>3. named = r
        BY <3>1
      <4> HIDE DEF r, named
      <4> QED
        BY <3>1, <4>2, <4>3 DEF IsWritten
    <3>2. CASE f.idx # 0
      <4>1. named = begun
        BY <3>2
      <4> HIDE DEF named
      <4>2. N = B
        BY <4>1 DEF B
      <4>3. Extends(B, B)
        BY <1>6, ExtendsItself
      <4> QED
        BY <1>6, <3>2, <4>1, <4>2, <4>3
    <3> QED
      BY <3>1, <3>2
  <2> DEFINE r == WriteString(named, f.value)
  <2>3. E = r.data
    BY <2>1
  <2> HIDE DEF named, N, E
  <2>4. f.value \in Seq(DOMAIN Code)
    BY <1>2, <1>9
  <2>5. IsWritten(huffman, r, r.data, N, f.value)
    BY <2>2, <2>4, WriteStringOf
  <2> HIDE DEF r
  <2>6. /\ E \in Seq(0 .. 255) /\ Extends(E, N)
        /\ StringIn(huffman, E, Len(N), Len(E), f.value)
    BY <2>3, <2>5 DEF IsWritten
  <2>7. Extends(E, B) /\ Extends(E, data)
    BY <1>6, <2>2, <2>6, ExtendsTrans
  <2>8. IntIn(E, Len(data), Len(B), h, m, f.idx)
    <3> DEFINE i == f.idx
    <3> HIDE DEF i
    <3>1. i \in Nat /\ IntIn(B, Len(data), Len(B), h, m, i)
      BY <1>2, <1>6 DEF i
    <3>2. IntIn(E, Len(data), Len(B), h, m, i)
      BY <1>6, <1>7, <2>6, <2>7, <3>1, ExtendsIntIn
    <3> QED
      BY <3>2 DEF i
  <2>9. f.idx = 0 => StringIn(huffman, E, Len(B), Len(N), f.name)
    <3> SUFFICES ASSUME f.idx = 0
                 PROVE  StringIn(huffman, E, Len(B), Len(N), f.name)
      OBVIOUS
    <3> DEFINE s == f.name
    <3>1. s \in Seq(DOMAIN Code) /\ StringIn(huffman, N, Len(B), Len(N), s)
      BY <1>2, <1>9, <2>2
    <3> HIDE DEF s
    <3>2. StringIn(huffman, E, Len(B), Len(N), s)
      BY <1>7, <2>2, <2>6, <3>1, ExtendsStringIn
    <3> QED
      BY <3>2 DEF s
  <2>10. Len(N) \in Nat
    BY <2>2
  <2>11. LiteralIn(huffman, E, Len(B), Len(E), f)
    BY <2>2, <2>6, <2>9, <2>10 DEF LiteralIn
  <2>12. FieldIn(huffman, E, Len(data), Len(E), f)
    BY <1>3, <1>7, <2>1, <2>8, <2>11 DEF FieldIn
  <2> QED
    BY <1>1, <2>6, <2>7, <2>12
<1> QED
  BY <1>2, <1>8, <1>9

LEMMA ExtendsFieldIn ==
  ASSUME NEW D \in Seq(0 .. 255), NEW E \in Seq(0 .. 255), Extends(E, D), NEW huff \in BOOLEAN,
         NEW p \in Nat, NEW q, NEW f \in Fields, FieldIn(huff, D, p, q, f)
  PROVE  FieldIn(huff, E, p, q, f)
<1>1. PICK b \in 1 .. 4, h \in 0 .. 255, m \in 0 .. 255, n \in Nat :
        /\ HasFlags(f.op, b, h, m) /\ IntIn(D, p, n, h, m, f.idx)
        /\ f.op \in Short => q = n
        /\ f.op \in Long => LiteralIn(huff, D, n, q, f)
  BY DEF FieldIn
<1>2. /\ f.idx \in Nat
      /\ f.op \in Long => /\ f.value \in Seq(DOMAIN Code)
                          /\ f.idx = 0 => f.name \in Seq(DOMAIN Code)
  BY FieldIs
<1>3. IntIn(E, p, n, h, m, f.idx)
  <2> DEFINE i == f.idx
  <2>1. i \in Nat /\ m \in Nat /\ IntIn(D, p, n, h, m, i)
    BY <1>1, <1>2
  <2> HIDE DEF i
  <2>2. IntIn(E, p, n, h, m, i)
    BY <2>1, ExtendsIntIn
  <2> QED
    BY <2>2 DEF i
<1>4. ASSUME f.op \in Long PROVE LiteralIn(huff, E, n, q, f)
  <2> DEFINE s == f.name
             v == f.value
  <2>1. PICK k \in Nat :
          /\ f.idx = 0 => StringIn(huff, D, n, k, s)
          /\ f.idx # 0 => k = n
          /\ StringIn(huff, D, k, q, v)
    BY <1>1, <1>4 DEF LiteralIn
  <2>2. v \in Seq(DOMAIN Code) /\ (f.idx = 0 => s \in Seq(DOMAIN Code))
    BY <1>2, <1>4
  <2> HIDE DEF s, v
  <2>3. StringIn(huff, E, k, q, v)
    BY <2>1, <2>2, ExtendsStringIn
  <2>4. f.idx = 0 => StringIn(huff, E, n, k, s)
    BY <2>1, <2>2, ExtendsStringIn
  <2> QED
    BY <2>1, <2>3, <2>4 DEF LiteralIn, s, v
<1> QED
  BY <1>1, <1>3, <1>4 DEF FieldIn
-----------------------------------------------------------------------------
(* The invariant.                                                          *)

\* The bytes D are the fields, each between two cuts.
BlockIs(huff, D, fields, cut) ==
  /\ cut \in [0 .. Len(fields) -> Nat] /\ cut[0] = 0 /\ cut[Len(fields)] = Len(D)
  /\ \A i \in 1 .. Len(fields) : FieldIn(huff, D, cut[i - 1], cut[i], fields[i])

\* A block that no peer has begun is the fields that were written.
WrittenInv == data = <<>> \/ written # <<>> => \E cut : BlockIs(huffman, data, written, cut)

IInv ==
  /\ huffman \in BOOLEAN /\ data \in Seq(0 .. 255)
  /\ written \in Seq(Fields) /\ Len(written) <= MaxFields
  /\ WrittenInv

LEMMA InitIInv == Init => IInv
<1> SUFFICES ASSUME Init PROVE IInv
  OBVIOUS
<1>1. huffman \in BOOLEAN /\ data = <<>> /\ written = <<>> /\ MaxFields \in Nat
  BY ConstantsAssumption DEF Init
<1> DEFINE cut == [i \in 0 .. 0 |-> 0]
<1>2. Len(<<>>) = 0 /\ <<>> \in Seq(Fields) /\ <<>> \in Seq(0 .. 255)
  OBVIOUS
<1>3. BlockIs(huffman, <<>>, <<>>, cut)
  <2>1. cut \in [0 .. 0 -> Nat] /\ cut[0] = 0
    OBVIOUS
  <2> HIDE DEF cut
  <2> QED
    BY <1>2, <2>1 DEF BlockIs
<1> HIDE DEF cut
<1>4. Len(<<>>) <= MaxFields
  BY <1>1, <1>2
<1> QED
  BY <1>1, <1>2, <1>3, <1>4 DEF IInv, WrittenInv

LEMMA WriteFieldIInv ==
  ASSUME IInv, NEW f \in Fields, WriteField(f)
  PROVE  IInv'
<1> DEFINE n == Len(written)
           E == data'
           fields == Append(written, f)
<1>1. /\ huffman \in BOOLEAN /\ data \in Seq(0 .. 255) /\ written \in Seq(Fields)
      /\ MaxFields \in Nat /\ WrittenInv
  BY ConstantsAssumption DEF IInv
<1>2. n \in Nat /\ n < MaxFields /\ written' = fields /\ UNCHANGED huffman
  BY <1>1 DEF WriteField
<1>3. /\ E \in Seq(0 .. 255) /\ Extends(E, data)
      /\ FieldIn(huffman, E, Len(data), Len(E), f)
  BY <1>1, WriteFieldOf
<1>4. PICK cut : BlockIs(huffman, data, written, cut)
  <2>1. data = <<>> \/ written # <<>>
    BY DEF WriteField
  <2> QED
    BY <1>1, <2>1 DEF WrittenInv
<1>5. /\ cut \in [0 .. n -> Nat] /\ cut[0] = 0 /\ cut[n] = Len(data)
      /\ \A i \in 1 .. n : FieldIn(huffman, data, cut[i - 1], cut[i], written[i])
  BY <1>4 DEF BlockIs
<1>6. /\ fields \in Seq(Fields) /\ Len(fields) = n + 1 /\ fields[n + 1] = f
      /\ \A i \in 1 .. n : fields[i] = written[i]
  BY <1>1, AppendIs
<1> DEFINE longer == [i \in 0 .. n + 1 |-> IF i <= n THEN cut[i] ELSE Len(E)]
<1>7. /\ longer \in [0 .. n + 1 -> Nat] /\ longer[0] = 0 /\ longer[n + 1] = Len(E)
      /\ \A i \in 0 .. n : longer[i] = cut[i]
  <2>1. Len(E) \in Nat
    BY <1>3
  <2> HIDE DEF E, n
  <2> QED
    BY <1>2, <1>5, <2>1
<1> HIDE DEF E, n, fields, longer
<1>8. ASSUME NEW i \in 1 .. n + 1 PROVE FieldIn(huffman, E, longer[i - 1], longer[i], fields[i])
  <2>1. CASE i = n + 1
    <3>1. i - 1 \in 0 .. n /\ i - 1 = n
      BY <1>2, <2>1
    <3>2. longer[i - 1] = Len(data) /\ longer[i] = Len(E) /\ fields[i] = f
      BY <1>5, <1>6, <1>7, <2>1, <3>1
    <3> QED
      BY <1>3, <3>2
  <2>2. CASE i # n + 1
    <3>1. i \in 1 .. n /\ i \in 0 .. n /\ i - 1 \in 0 .. n
      BY <1>2, <2>2
    <3> DEFINE p == cut[i - 1]
               q == cut[i]
               g == written[i]
    <3>2. p \in Nat /\ FieldIn(huffman, data, p, q, g)
      BY <1>5, <3>1
    <3>3. g \in Fields
      BY <1>1, <3>1, ElementOfSeq DEF n
    <3>4. longer[i - 1] = p /\ longer[i] = q /\ fields[i] = g
      BY <1>6, <1>7, <3>1
    <3> HIDE DEF p, q, g
    <3>5. FieldIn(huffman, E, p, q, g)
      BY <1>1, <1>3, <3>2, <3>3, ExtendsFieldIn
    <3> QED
      BY <3>4, <3>5
  <2> QED
    BY <2>1, <2>2
<1>9. BlockIs(huffman, E, fields, longer)
  BY <1>6, <1>7, <1>8 DEF BlockIs
<1>10. \E c : BlockIs(huffman', data', written', c)
  BY <1>2, <1>9 DEF E
<1>11. WrittenInv'
  BY <1>10 DEF WrittenInv
<1>12. Len(written') <= MaxFields /\ written' \in Seq(Fields)
  BY <1>1, <1>2, <1>6
<1> QED
  BY <1>1, <1>2, <1>3, <1>11, <1>12 DEF IInv, E

LEMMA ForeignByteIInv ==
  ASSUME IInv, NEW b \in Bytes, ForeignByte(b)
  PROVE  IInv'
<1>1. /\ huffman \in BOOLEAN /\ data \in Seq(0 .. 255) /\ written \in Seq(Fields)
      /\ Len(written) <= MaxFields
  BY DEF IInv
<1>2. data' = Append(data, b) /\ UNCHANGED <<huffman, written>> /\ written = <<>>
  BY DEF ForeignByte
<1>3. b \in 0 .. 255
  BY ConstantsAssumption
<1>4. data' \in Seq(0 .. 255) /\ data' # <<>>
  BY <1>1, <1>2, <1>3, AppendProperties
<1>5. WrittenInv'
  BY <1>2, <1>4 DEF WrittenInv
<1> QED
  BY <1>1, <1>2, <1>4, <1>5 DEF IInv

LEMMA StutterIInv ==
  ASSUME IInv, UNCHANGED vars
  PROVE  IInv'
<1>1. huffman' = huffman /\ data' = data /\ written' = written
  BY DEF vars
<1>2. WrittenInv'
  BY <1>1 DEF IInv, WrittenInv
<1> QED
  BY <1>1, <1>2 DEF IInv

LEMMA IInvHolds == Spec => []IInv
<1>1. IInv /\ [Next]_vars => IInv'
  BY WriteFieldIInv, ForeignByteIInv, StutterIInv DEF Next
<1> QED
  BY InitIInv, <1>1, PTL DEF Spec

-----------------------------------------------------------------------------
(* Huffman codes are read as they were written.                            *)

\* d is at the a-th bit.
IsAt(d, D, a, v, ok) == IsDec(d, D, a \div 8, a % 8, v, ok)

\* The code of c stands in D from the a-th bit on.
CodeAt(D, a, c) == \A j \in 1 .. Len(Code[c]) : Bit(D, a + j - 1) = Code[c][j]

LEMMA IsAtIs ==
  ASSUME NEW D, NEW a \in Nat, NEW v, NEW ok, NEW d, IsAt(d, D, a, v, ok)
  PROVE  At(d) = a /\ d.data = D /\ d.pos = a \div 8
<1>1. d.pos = a \div 8 /\ d.bit = a % 8 /\ d.data = D
  BY DEF IsAt, IsDec
<1>2. 8 * (a \div 8) + (a % 8) = a
  BY BitPositions
<1> QED
  BY <1>1, <1>2 DEF At

\* The characters whose codes are there.
LEMMA LeafIs ==
  ASSUME NEW D, NEW a \in Nat, NEW v, NEW ok, NEW d, IsAt(d, D, a, v, ok), NEW end, NEW c
  PROVE  c \in Leaf(d, end) <=> c \in DOMAIN Code /\ a + Len(Code[c]) <= 8 * end /\ CodeAt(D, a, c)
<1>1. At(d) = a /\ d.data = D
  BY IsAtIs
<1> DEFINE n == Len(Code[c])
           code == Code[c]
<1>2. ASSUME c \in DOMAIN Code PROVE code = Ahead(d, n) <=> CodeAt(D, a, c)
  <2>1. Ahead(d, n) = [j \in 1 .. n |-> Bit(D, a + j - 1)]
    BY <1>1 DEF Ahead
  <2>2. code \in [1 .. n -> {0, 1}]
    BY <1>2, Codes, LenProperties
  <2>3. code = [j \in 1 .. n |-> code[j]]
    BY <2>2
  <2> HIDE DEF code, n
  <2>4. code = Ahead(d, n) <=> \A j \in 1 .. n : Bit(D, a + j - 1) = code[j]
    BY <2>1, <2>3
  <2> QED
    BY <2>4 DEF CodeAt, code, n
<1> QED
  BY <1>1, <1>2 DEF Leaf

LEMMA PrefixIsPrefix ==
  ASSUME NEW s \in Seq({0, 1}), NEW t \in Seq({0, 1}), Len(s) <= Len(t),
         \A j \in 1 .. Len(s) : s[j] = t[j]
  PROVE  IsPrefix(s, t)
<1> DEFINE n == Len(s)
           u == SubSeq(s, 1, n)
           v == SubSeq(t, 1, n)
<1>1. n \in Nat /\ Len(t) \in Nat /\ n <= Len(t)
  OBVIOUS
<1>2. \A j \in 1 .. n : s[j] \in {0, 1} /\ t[j] \in {0, 1}
  BY ElementOfSeq
<1>3. n \in Int /\ 1 \in Int /\ n - 1 + 1 = n /\ (1 <= n \/ n = 0) /\ \A j \in 1 .. n : 1 + j - 1 = j
  BY <1>1
<1> HIDE DEF n
<1>4. u \in Seq({0, 1}) /\ Len(u) = n /\ \A j \in 1 .. n : u[j] = s[j]
  <2>1. /\ SubSeq(s, 1, n) \in Seq({0, 1}) /\ Len(SubSeq(s, 1, n)) = (IF 1 <= n THEN n - 1 + 1 ELSE 0)
        /\ \A j \in 1 .. n - 1 + 1 : SubSeq(s, 1, n)[j] = s[1 + j - 1]
    BY <1>2, <1>3, SubSeqProperties
  <2> QED
    BY <1>3, <2>1
<1>5. v \in Seq({0, 1}) /\ Len(v) = n /\ \A j \in 1 .. n : v[j] = t[j]
  <2>1. /\ SubSeq(t, 1, n) \in Seq({0, 1}) /\ Len(SubSeq(t, 1, n)) = (IF 1 <= n THEN n - 1 + 1 ELSE 0)
        /\ \A j \in 1 .. n - 1 + 1 : SubSeq(t, 1, n)[j] = t[1 + j - 1]
    BY <1>2, <1>3, SubSeqProperties
  <2> QED
    BY <1>3, <2>1
<1> HIDE DEF u, v
<1>6. \A j \in 1 .. Len(u) : u[j] = v[j]
  BY <1>4, <1>5 DEF n
<1>7. u = v
  BY <1>4, <1>5, <1>6, SeqEqual
<1> QED
  BY <1>1, <1>7 DEF IsPrefix, u, v, n

\* Two codes that stand in the same place are one.
LEMMA OneCode ==
  ASSUME NEW D, NEW a \in Nat, NEW c \in DOMAIN Code, NEW e \in DOMAIN Code,
         CodeAt(D, a, c), CodeAt(D, a, e)
  PROVE  c = e
<1> DEFINE s == Code[c]
           t == Code[e]
<1>1. s \in Seq({0, 1}) /\ t \in Seq({0, 1}) /\ Len(s) \in Nat /\ Len(t) \in Nat
  BY Codes
<1>2. /\ \A j \in 1 .. Len(s) : Bit(D, a + j - 1) = s[j]
      /\ \A j \in 1 .. Len(t) : Bit(D, a + j - 1) = t[j]
  BY DEF CodeAt
<1>3. c # e => ~IsPrefix(s, t) /\ ~IsPrefix(t, s)
  BY CodeAssumption
<1> HIDE DEF s, t
<1>4. CASE Len(s) <= Len(t)
  <2>1. \A j \in 1 .. Len(s) : j \in 1 .. Len(t)
    BY <1>1, <1>4
  <2>2. \A j \in 1 .. Len(s) : s[j] = t[j]
    BY <1>2, <2>1
  <2>3. IsPrefix(s, t)
    BY <1>1, <1>4, <2>2, PrefixIsPrefix
  <2> QED
    BY <1>3, <2>3
<1>5. CASE Len(t) <= Len(s)
  <2>1. \A j \in 1 .. Len(t) : j \in 1 .. Len(s)
    BY <1>1, <1>5
  <2>2. \A j \in 1 .. Len(t) : t[j] = s[j]
    BY <1>2, <2>1
  <2>3. IsPrefix(t, s)
    BY <1>1, <1>5, <2>2, PrefixIsPrefix
  <2> QED
    BY <1>3, <2>3
<1> QED
  BY <1>1, <1>4, <1>5

LEMMA ReadCharOf ==
  ASSUME NEW D \in Seq(0 .. 255), NEW a \in Nat, NEW v, NEW d, IsAt(d, D, a, v, TRUE),
         NEW limit \in Nat, limit <= Len(D), NEW c \in DOMAIN Code,
         a + Len(Code[c]) <= 8 * limit, CodeAt(D, a, c)
  PROVE  IsAt(ReadHuffmanChar(d, limit), D, a + Len(Code[c]), c, TRUE)
<1> DEFINE n == Len(Code[c])
           leaf == Leaf(d, limit)
           char == CHOOSE x \in leaf : TRUE
           r == [Skip(d, Len(Code[char])) EXCEPT !.val = char]
<1>1. d.data = D
  BY DEF IsAt, IsDec
<1>2. c \in leaf
  BY LeafIs
<1>3. ASSUME NEW x \in leaf PROVE x = c
  <2>1. x \in DOMAIN Code /\ CodeAt(D, a, x)
    BY LeafIs
  <2> QED
    BY <2>1, OneCode
<1> HIDE DEF leaf
<1>4. char = c
  BY <1>2, <1>3
<1>5. (IF limit < Len(d.data) THEN limit ELSE Len(d.data)) = limit
  BY <1>1
<1>6. ReadHuffmanChar(d, limit) = r
  BY <1>2, <1>5 DEF ReadHuffmanChar, leaf
<1>7. n \in Nat
  BY Codes
<1> DEFINE p == a \div 8
           b == a % 8
<1>8. p \in Nat /\ b \in 0 .. 7 /\ 8 * p + b = a /\ IsDec(d, D, p, b, v, TRUE)
  BY BitPositions DEF IsAt
<1> HIDE DEF p, b, n
<1>9. IsDec([Skip(d, n) EXCEPT !.val = c], D, (8 * p + b + n) \div 8, (8 * p + b + n) % 8, c, TRUE)
  BY <1>7, <1>8, SkipDec
<1>10. 8 * p + b + n = a + n
  BY <1>8
<1>11. IsAt([Skip(d, n) EXCEPT !.val = c], D, a + n, c, TRUE)
  BY <1>9, <1>10 DEF IsAt
<1> QED
  BY <1>4, <1>6, <1>11 DEF n

\* Ones to the end of the string are no code.
LEMMA ReadNoChar ==
  ASSUME NEW D \in Seq(0 .. 255), NEW a \in Nat, NEW v, NEW d, IsAt(d, D, a, v, TRUE),
         NEW limit \in Nat, limit <= Len(D), \A k \in a .. 8 * limit - 1 : Bit(D, k) = 1
  PROVE  IsDec(ReadHuffmanChar(d, limit), D, limit, 0, None, TRUE)
<1> DEFINE leaf == Leaf(d, limit)
           r == [d EXCEPT !.pos = limit, !.bit = 0, !.val = None]
<1>1. d.data = D
  BY DEF IsAt, IsDec
<1>2. leaf = {}
  <2> SUFFICES ASSUME NEW c \in leaf PROVE FALSE
    OBVIOUS
  <2>1. c \in DOMAIN Code /\ a + Len(Code[c]) <= 8 * limit /\ CodeAt(D, a, c)
    BY LeafIs
  <2>2. PICK i \in 1 .. Len(Code[c]) : Code[c][i] = 0
    BY <2>1, CodeAssumption
  <2>3. Bit(D, a + i - 1) = 0
    BY <2>1, <2>2 DEF CodeAt
  <2> DEFINE n == Len(Code[c])
  <2>4. n \in Nat
    BY <2>1, Codes
  <2> HIDE DEF n
  <2>5. a + n <= 8 * limit /\ i \in 1 .. n
    BY <2>1 DEF n
  <2>6. a + i - 1 \in a .. 8 * limit - 1
    BY <2>4, <2>5
  <2> QED
    BY <2>3, <2>6
<1>3. (IF limit < Len(d.data) THEN limit ELSE Len(d.data)) = limit /\ ~(limit > Len(d.data))
  BY <1>1
<1>4. ReadHuffmanChar(d, limit) = r
  BY <1>2, <1>3 DEF ReadHuffmanChar
<1>5. IsDec(r, D, limit, 0, None, TRUE)
  BY DEF IsAt, IsDec
<1> QED
  BY <1>4, <1>5

\* The bits of the bytes H are found where H stands.
LEMMA HoldsBits ==
  ASSUME NEW D \in Seq(0 .. 255), NEW H \in Seq(0 .. 255), NEW m \in Nat, Holds(D, m, H),
         NEW k \in Nat, k < 8 * Len(H)
  PROVE  Bit(D, 8 * m + k) = Bit(H, k)
<1> DEFINE p == k \div 8
           c == k % 8
           q == m + p
<1>1. Len(H) \in Nat /\ Len(D) \in Nat /\ m + Len(H) <= Len(D)
  BY DEF Holds
<1>2. p \in Nat /\ c \in 0 .. 7 /\ 8 * p + c = k /\ p < Len(H)
  BY <1>1
<1> HIDE DEF p, c
<1>3. q \in Nat /\ q < Len(D) /\ 8 * m + k = 8 * q + c /\ p + 1 \in 1 .. Len(H)
      /\ q + 1 = m + (p + 1)
  BY <1>1, <1>2
<1>4. D[q + 1] = H[p + 1]
  BY <1>3 DEF Holds
<1> HIDE DEF q
<1>5. Bit(D, 8 * q + c) = (D[q + 1] \div 2 ^ (7 - c)) % 2
  BY <1>2, <1>3, BitIs
<1>6. Bit(H, 8 * p + c) = (H[p + 1] \div 2 ^ (7 - c)) % 2
  BY <1>2, BitIs
<1> QED
  BY <1>2, <1>3, <1>4, <1>5, <1>6

\* A sequence of codes is not shorter than the string.
LEMMA CutsGrow ==
  ASSUME NEW n \in Nat, NEW cut \in [0 .. n -> Nat], cut[0] = 0,
         \A i \in 1 .. n : cut[i - 1] + 1 <= cut[i], NEW i \in 0 .. n
  PROVE  i <= cut[i]
<1> DEFINE S == {k \in Nat : k <= n => k <= cut[k]}
<1>1. 0 \in S
  OBVIOUS
<1>2. ASSUME NEW k \in 1 .. n, k - 1 \in S PROVE k \in S
  <2>1. k - 1 <= cut[k - 1] /\ cut[k - 1] + 1 <= cut[k]
    BY <1>2
  <2>2. k \in 0 .. n /\ k - 1 \in 0 .. n /\ cut[k] \in Nat /\ cut[k - 1] \in Nat
    OBVIOUS
  <2>3. k <= cut[k]
    BY <2>1, <2>2
  <2> QED
    BY <2>3
<1>3. \A k \in 0 .. n : k \in S
  <2> HIDE DEF S
  <2> QED
    BY <1>1, <1>2, CountUp
<1> QED
  BY <1>3

LEMMA HuffmanCuts ==
  ASSUME NEW s \in Seq(DOMAIN Code), NEW H, NEW cut, IsHuffman(H, s, cut), NEW i \in 0 .. Len(s)
  PROVE  cut[i] \in Nat /\ i <= cut[i] /\ cut[i] <= cut[Len(s)]
<1> DEFINE n == Len(s)
<1>1. n \in Nat /\ cut \in [0 .. n -> Nat] /\ cut[0] = 0
  BY DEF IsHuffman
<1>2. ASSUME NEW k \in 1 .. n PROVE cut[k - 1] + 1 <= cut[k] /\ cut[k - 1] <= cut[k]
  <2>1. k - 1 \in 0 .. n /\ k \in 0 .. n
    OBVIOUS
  <2>2. s[k] \in DOMAIN Code
    BY ElementOfSeq
  <2> DEFINE l == Len(Code[s[k]])
  <2>3. cut[k] = cut[k - 1] + l
    BY DEF IsHuffman
  <2>4. l \in Nat /\ l >= 1
    BY <2>2, Codes
  <2> HIDE DEF l
  <2>5. cut[k] \in Nat /\ cut[k - 1] \in Nat
    BY <1>1, <2>1
  <2> QED
    BY <2>3, <2>4, <2>5
<1> HIDE DEF n
<1>3. i \in 0 .. n
  BY DEF n
<1>4. cut[i] \in Nat
  BY <1>1, <1>3
<1>5. i <= cut[i]
  BY <1>1, <1>2, <1>3, CutsGrow
<1>6. cut[i] <= cut[n]
  BY <1>1, <1>2, <1>3, CutsRise
<1> QED
  BY <1>4, <1>5, <1>6 DEF n

\* A Huffman-coded string is read as it was written, and to the end of its padding.
LEMMA ReadHuffmanOf ==
  ASSUME NEW D \in Seq(0 .. 255), NEW s \in Seq(DOMAIN Code), NEW H, NEW cut, IsHuffman(H, s, cut),
         NEW m \in Nat, Holds(D, m, H), NEW v, NEW d, IsDec(d, D, m, 0, v, TRUE)
  PROVE  IsDec(ReadHuffman(d, m + Len(H)), D, m + Len(H), 0, s, TRUE)
<1> DEFINE n == Len(s)
           l == Len(H)
           dest == m + l
           rounds == 8 * (Len(D) - m) + 1
<1>1. H \in Seq(0 .. 255) /\ n \in Nat /\ l \in Nat /\ Len(D) \in Nat /\ dest \in Nat /\ dest <= Len(D)
  BY DEF IsHuffman, Holds
<1>2. rounds \in Nat /\ rounds = 8 * (Len(d.data) - d.pos) + 1
  BY <1>1 DEF IsDec
<1>a. \E x : /\ IsReadHuffman(x, d, dest, rounds)
             /\ ReadHuffman(d, dest) = [x[rounds].d EXCEPT !.val = x[rounds].chars]
  <2> HIDE DEF dest, rounds
  <2> QED
    BY <1>2, ReadHuffmanRun
<1>3. PICK x : /\ IsReadHuffman(x, d, dest, rounds)
               /\ ReadHuffman(d, dest) = [x[rounds].d EXCEPT !.val = x[rounds].chars]
  BY <1>a
<1>4. /\ cut[0] = 0 /\ cut[n] <= 8 * l /\ 8 * l < cut[n] + 8
      /\ \A k \in cut[n] .. 8 * l - 1 : Bit(H, k) = 1
      /\ \A i \in 1 .. n : /\ cut[i] = cut[i - 1] + Len(Code[s[i]])
                           /\ CodeAt(H, cut[i - 1], s[i])
  BY DEF IsHuffman, CodeAt
<1>5. \A i \in 0 .. n : cut[i] \in Nat /\ i <= cut[i] /\ cut[i] <= cut[n]
  BY HuffmanCuts
<1>6. \A k \in Nat : k < 8 * l => Bit(D, 8 * m + k) = Bit(H, k)
  BY <1>1, HoldsBits
<1>7. rounds > n
  <2> DEFINE t == cut[n]
             z == Len(D)
  <2>1. t \in Nat /\ n <= t /\ t <= 8 * l
    BY <1>1, <1>4, <1>5
  <2>2. m + l <= z /\ z \in Nat
    BY <1>1
  <2> HIDE DEF t, z, n, l
  <2>3. 8 * (z - m) + 1 > n
    BY <1>1, <2>1, <2>2
  <2> QED
    BY <2>3 DEF z, n
<1> HIDE DEF n, l, dest, rounds
<1> DEFINE Reading(r) ==
             /\ r <= n /\ IsAt(x[r].d, D, 8 * m + cut[r], x[r].d.val, TRUE)
             /\ x[r].chars = SubSeq(s, 1, r)
           Read(r) == /\ r > n /\ IsDec(x[r].d, D, dest, 0, x[r].d.val, TRUE)
                      /\ x[r].chars = s
           S == {r \in Nat : Reading(r) \/ Read(r)}
<1>8. 0 \in S
  <2>1. x[0] = [d |-> d, chars |-> <<>>]
    BY <1>3 DEF IsReadHuffman
  <2>2. x[0].d = d /\ x[0].chars = <<>>
    BY <2>1
  <2>3. SubSeq(s, 1, 0) = <<>>
    BY SubSeqEmpty
  <2>4. d.val = v
    BY DEF IsDec
  <2>5. 8 * m + cut[0] = 8 * m + 0 /\ (8 * m + 0) \div 8 = m /\ (8 * m + 0) % 8 = 0 /\ 0 <= n
    <3>1. 0 \in 0 .. 7
      OBVIOUS
    <3> QED
      BY <1>1, <1>4, <3>1, Eights
  <2>6. IsAt(d, D, 8 * m + cut[0], d.val, TRUE)
    BY <2>4, <2>5 DEF IsAt
  <2>7. Reading(0)
    BY <2>2, <2>3, <2>5, <2>6
  <2> QED
    BY <2>7
<1>9. ASSUME NEW r \in 1 .. rounds, r - 1 \in S PROVE r \in S
  <2>0. (Reading(r) => r \in S) /\ (Read(r) => r \in S)
    <3> HIDE DEF Reading, Read
    <3> QED
      OBVIOUS
  <2> DEFINE y == x[r - 1]
             Active == y.d.ok /\ y.d.pos < dest
  <2>1. x[r] = IF Active THEN AddChar(y, dest) ELSE y
    BY <1>3 DEF IsReadHuffman
  <2>2. Reading(r - 1) \/ Read(r - 1)
    BY <1>9
  <2>3. CASE Read(r - 1)
    <3>1. ~Active
      <4>1. y.d.pos = dest
        BY <2>3 DEF IsDec
      <4> QED
        BY <1>1, <4>1
    <3>2. x[r] = y
      BY <2>1, <3>1
    <3>3. r > n
      BY <1>1, <2>3
    <3>4. Read(r)
      BY <2>3, <3>2, <3>3
    <3> HIDE DEF S, Read
    <3> QED
      BY <2>0, <3>4
  <2>4. CASE Reading(r - 1)
    <3> DEFINE a == 8 * m + cut[r - 1]
               w == y.d.val
               t == cut[r - 1]
    <3>1. r - 1 \in 0 .. n
      BY <1>1, <2>4
    <3>2. t \in Nat /\ t <= cut[n] /\ cut[n] \in Nat /\ a \in Nat
      <4>1. n \in 0 .. n
        BY <1>1
      <4> QED
        BY <1>5, <3>1, <4>1
    <3>3. IsAt(y.d, D, a, w, TRUE) /\ y.chars = SubSeq(s, 1, r - 1)
      BY <2>4
    <3>4. y.d.pos = a \div 8 /\ y.d.ok = TRUE
      BY <3>3 DEF IsAt, IsDec
    <3> HIDE DEF y
    <3>5. CASE r - 1 < n
      <4> DEFINE c == s[r]
                 k == Len(Code[c])
                 e == a + k
      <4>1. r \in 1 .. n /\ r \in 0 .. n
        BY <1>1, <3>5
      <4>2. c \in DOMAIN Code /\ c # None
        <5>1. c \in DOMAIN Code
          BY <4>1, ElementOfSeq DEF n
        <5> QED
          BY <5>1, ConstantsAssumption
      <4>3. k \in Nat /\ k >= 1
        BY <4>2, Codes
      <4>4. cut[r] = t + k /\ CodeAt(H, t, c)
        BY <1>4, <4>1
      <4> HIDE DEF c, k
      <4>5. cut[r] \in Nat /\ cut[r] <= 8 * l
        <5>1. cut[r] \in Nat /\ cut[r] <= cut[n] /\ cut[n] <= 8 * l
          BY <1>4, <1>5, <4>1
        <5> QED
          BY <1>1, <3>2, <5>1
      <4>6. t + k <= 8 * l
        BY <4>4, <4>5
      <4>7. e = 8 * m + cut[r] /\ e <= 8 * dest /\ a < 8 * dest
        <5>1. e = 8 * m + t + k /\ a = 8 * m + t /\ dest = m + l
          BY DEF dest
        <5>2. cut[r] = t + k
          BY <4>4
        <5> HIDE DEF a, t, e
        <5>3. e <= 8 * dest /\ a < 8 * dest /\ e = 8 * m + (t + k)
          BY <1>1, <3>2, <4>3, <4>6, <5>1
        <5> QED
          BY <5>2, <5>3
      <4>8. CodeAt(D, a, c)
        <5> SUFFICES ASSUME NEW j \in 1 .. k PROVE Bit(D, a + j - 1) = Code[c][j]
          BY DEF CodeAt, k
        <5> DEFINE i == t + j - 1
        <5>1. i \in Nat /\ i < 8 * l /\ a + j - 1 = 8 * m + i
          <6>1. i = t + j - 1 /\ a = 8 * m + t
            OBVIOUS
          <6> HIDE DEF i, a, t
          <6> QED
            BY <1>1, <3>2, <4>3, <4>6, <6>1
        <5>2. Bit(H, i) = Code[c][j]
          BY <4>4 DEF CodeAt, k
        <5> HIDE DEF i, a
        <5> QED
          BY <1>6, <5>1, <5>2
      <4> HIDE DEF a, w, t
      <4>9. Active
        <5>1. a \div 8 < dest
          BY <1>1, <3>2, <4>7
        <5> QED
          BY <3>4, <5>1
      <4> DEFINE z == ReadHuffmanChar(y.d, dest)
      <4>10. IsAt(z, D, e, c, TRUE)
        <5> DEFINE f == y.d
        <5>1. IsAt(f, D, a, w, TRUE)
          BY <3>3
        <5> HIDE DEF f
        <5>2. a + Len(Code[c]) <= 8 * dest
          BY <4>7 DEF k
        <5>3. IsAt(ReadHuffmanChar(f, dest), D, a + Len(Code[c]), c, TRUE)
          BY <1>1, <3>2, <4>2, <4>8, <5>1, <5>2, ReadCharOf
        <5> QED
          BY <5>3 DEF f, k
      <4>11. x[r] = AddChar(y, dest)
        BY <2>1, <4>9
      <4>12. z.ok = TRUE /\ z.val = c
        BY <4>10 DEF IsAt, IsDec
      <4>13. x[r].d = z /\ x[r].chars = Append(SubSeq(s, 1, r - 1), c)
        BY <3>3, <4>2, <4>11, <4>12 DEF AddChar
      <4>14. x[r].chars = SubSeq(s, 1, r)
        BY <4>1, <4>13, AppendElement DEF c, n
      <4>15. IsAt(x[r].d, D, 8 * m + cut[r], x[r].d.val, TRUE)
        <5> HIDE DEF z, e
        <5> QED
          BY <4>7, <4>10, <4>12, <4>13
      <4>16. r <= n
        BY <4>1
      <4>17. Reading(r)
        BY <4>14, <4>15, <4>16
      <4> HIDE DEF S, Reading
      <4> QED
        BY <2>0, <4>17
    <3>6. CASE r - 1 = n
      <4>1. t = cut[n] /\ r > n /\ y.chars = s
        <5>1. SubSeq(s, 1, n) = s
          BY SubSeqFull DEF n
        <5> QED
          BY <1>1, <3>3, <3>6, <5>1
      <4>2. t <= 8 * l /\ a <= 8 * dest
        <5>1. t <= 8 * l
          BY <1>4, <4>1
        <5> QED
          BY <1>1, <3>2, <5>1 DEF dest
      <4>3. CASE a < 8 * dest
        <5>1. Active
          <6> HIDE DEF a
          <6>1. a \div 8 < dest
            BY <1>1, <3>2, <4>3
          <6> QED
            BY <3>4, <6>1
        <5> DEFINE z == ReadHuffmanChar(y.d, dest)
        <5>2. \A k \in a .. 8 * dest - 1 : Bit(D, k) = 1
          <6> SUFFICES ASSUME NEW k \in a .. 8 * dest - 1 PROVE Bit(D, k) = 1
            OBVIOUS
          <6> DEFINE i == k - 8 * m
          <6>1. i \in Nat /\ i < 8 * l /\ i \in t .. 8 * l - 1 /\ k = 8 * m + i
            BY <1>1, <3>2 DEF dest
          <6> HIDE DEF i
          <6>2. Bit(H, i) = 1
            BY <1>4, <4>1, <6>1
          <6> QED
            BY <1>6, <6>1, <6>2
        <5>3. IsDec(z, D, dest, 0, None, TRUE)
          <6> DEFINE f == y.d
          <6>1. IsAt(f, D, a, w, TRUE)
            BY <3>3
          <6> HIDE DEF f, a, w
          <6>2. IsDec(ReadHuffmanChar(f, dest), D, dest, 0, None, TRUE)
            BY <1>1, <3>2, <5>2, <6>1, ReadNoChar
          <6> QED
            BY <6>2 DEF f
        <5>4. z.ok = TRUE /\ z.val = None
          BY <5>3 DEF IsDec
        <5>5. x[r] = AddChar(y, dest)
          BY <2>1, <5>1
        <5>6. x[r].d = z /\ x[r].chars = s
          BY <4>1, <5>4, <5>5 DEF AddChar
        <5>7. IsDec(x[r].d, D, dest, 0, x[r].d.val, TRUE)
          <6> HIDE DEF z
          <6> QED
            BY <5>3, <5>4, <5>6
        <5>8. Read(r)
          BY <4>1, <5>6, <5>7
        <5> HIDE DEF S, Read
        <5> QED
          BY <2>0, <5>8
      <4>4. CASE a = 8 * dest
        <5>1. a \div 8 = dest /\ a % 8 = 0
          <6> HIDE DEF a
          <6>1. (8 * dest) \div 8 = dest /\ (8 * dest) % 8 = 0
            BY <1>1
          <6> QED
            BY <4>4, <6>1
        <5> HIDE DEF a, w
        <5>2. ~Active
          <6>1. y.d.pos = dest
            BY <3>4, <5>1
          <6> QED
            BY <1>1, <6>1
        <5>3. x[r] = y
          BY <2>1, <5>2
        <5>4. IsDec(y.d, D, dest, 0, w, TRUE)
          BY <3>3, <5>1 DEF IsAt
        <5>5. Read(r)
          BY <4>1, <5>3, <5>4 DEF w
        <5> HIDE DEF S, Read
        <5> QED
          BY <2>0, <5>5
      <4>5. a < 8 * dest \/ a = 8 * dest
        <5> HIDE DEF a
        <5> QED
          BY <1>1, <3>2, <4>2
      <4> QED
        BY <4>3, <4>4, <4>5
    <3>7. r - 1 < n \/ r - 1 = n
      BY <1>1, <3>1
    <3> QED
      BY <3>5, <3>6, <3>7
  <2> QED
    BY <2>2, <2>3, <2>4
<1>10. rounds \in S
  <2> HIDE DEF S
  <2>1. \A k \in 0 .. rounds : k \in S
    BY <1>2, <1>8, <1>9, CountUp
  <2> QED
    BY <1>2, <2>1
<1>11. Read(rounds)
  <2>1. ~(rounds <= n)
    BY <1>1, <1>2, <1>7
  <2> QED
    BY <1>10, <2>1
<1> DEFINE y == x[rounds]
           e == y.d
<1>12. IsDec(e, D, dest, 0, e.val, TRUE) /\ y.chars = s
  BY <1>11
<1> HIDE DEF y, e
<1>13. IsDec([e EXCEPT !.val = s], D, dest, 0, s, TRUE)
  BY <1>12 DEF IsDec
<1>14. ReadHuffman(d, dest) = [e EXCEPT !.val = s]
  BY <1>3, <1>12 DEF y, e
<1>15. IsDec(ReadHuffman(d, dest), D, dest, 0, s, TRUE)
  BY <1>13, <1>14
<1> QED
  BY <1>15 DEF dest, l

\* From the p-th byte, which has the flags h, to the q-th.
IsStretch(D, p, q, h, m) ==
  /\ p < Len(D) /\ q \in Nat /\ p < q /\ q <= Len(D)
  /\ \E y \in 0 .. m : D[p + 1] = h + y

LEMMA IntAt ==
  ASSUME NEW D \in Seq(0 .. 255), NEW p \in Nat, NEW q, NEW h, NEW m \in Nat, NEW i \in Nat,
         IntIn(D, p, q, h, m, i)
  PROVE  IsStretch(D, p, q, h, m)
<1> SUFFICES /\ p < Len(D) /\ q \in Nat /\ p < q /\ q <= Len(D)
             /\ \E y \in 0 .. m : D[p + 1] = h + y
  BY DEF IsStretch
<1>1. Len(D) \in Nat /\ p < Len(D)
  BY DEF IntIn
<1>2. CASE i < m
  <2>1. D[p + 1] = h + i /\ q = p + 1 /\ i \in 0 .. m
    BY <1>2 DEF IntIn
  <2> QED
    BY <1>1, <2>1
<1>3. CASE i >= m
  <2> DEFINE xs == Sevens(i - m)
             n == Len(xs)
  <2>1. i - m \in Nat
    BY <1>3
  <2>2. n \in Nat
    BY <2>1, SevensType
  <2>3. D[p + 1] = h + m /\ q = p + 1 + n /\ p + 1 + n <= Len(D)
    BY <1>3 DEF IntIn, Holds
  <2> HIDE DEF n, xs
  <2>4. q \in Nat /\ p < q /\ q <= Len(D) /\ m \in 0 .. m
    BY <2>2, <2>3
  <2> QED
    BY <1>1, <2>3, <2>4
<1> QED
  BY <1>2, <1>3

\* A string is read as it was written.
LEMMA ReadStringOf ==
  ASSUME NEW D \in Seq(0 .. 255), NEW huff \in BOOLEAN, NEW s \in Seq(DOMAIN Code),
         NEW p \in Nat, NEW q, StringIn(huff, D, p, q, s), NEW v, NEW d, IsDec(d, D, p, 0, v, TRUE)
  PROVE  IsDec(ReadString(d), D, q, 0, s, TRUE) /\ q \in Nat /\ p < q /\ q <= Len(D)
<1> DEFINE xs == Text(huff, s)
           l == Len(xs)
           h == IF huff THEN 128 ELSE 0
<1>1. xs \in Seq(0 .. 255) /\ l \in Nat
  BY TextType
<1>2. PICK m \in Nat : IntIn(D, p, m, h, 127, l) /\ Holds(D, m, xs) /\ q = m + l
  BY DEF StringIn
<1>3. h \in {0, 128} /\ (h = 128 <=> huff)
  OBVIOUS
<1> HIDE DEF h, xs, l
<1>4. /\ p < Len(D) /\ p < m /\ m <= Len(D) /\ Len(D) \in Nat
      /\ \E y \in 0 .. 127 : D[p + 1] = h + y
  <2>1. IntIn(D, p, m, h, 127, l) /\ 127 \in Nat /\ l \in Nat
    BY <1>1, <1>2
  <2>2. IsStretch(D, p, m, h, 127)
    BY <2>1, IntAt
  <2>3. Len(D) \in Nat
    OBVIOUS
  <2> QED
    BY <2>2, <2>3 DEF IsStretch
<1>5. m + l <= Len(D)
  BY <1>2 DEF Holds, l
<1>6. q \in Nat /\ p < q /\ q <= Len(D)
  BY <1>1, <1>2, <1>4, <1>5
<1> DEFINE flag == ReadBit(d)
           x == Bit(D, 8 * p + 0)
           sized == ReadInt(flag)
<1>7. IsDec(flag, D, p, 1, x, TRUE)
  <2>1. 0 \in 0 .. 7 /\ 0 < 7 /\ 0 + 1 = 1
    OBVIOUS
  <2>2. IsDec(flag, D, p, 0 + 1, x, TRUE)
    BY <1>4, <2>1, ReadBitDec
  <2> QED
    BY <2>1, <2>2
<1>8. x = 1 <=> huff
  <2>1. PICK y \in 0 .. 127 : D[p + 1] = h + y
    BY <1>4
  <2>2. 0 \in 0 .. 7 /\ 7 - 0 = 7 /\ 2 ^ 7 = 128
    BY PowersOfTwo
  <2>3. x = (D[p + 1] \div 2 ^ (7 - 0)) % 2
    BY <1>4, <2>2, BitIs
  <2>4. x = ((h + y) \div 128) % 2
    BY <2>1, <2>2, <2>3
  <2> HIDE DEF x
  <2>5. h = 128 => x = 1
    BY <2>4
  <2>6. h = 0 => x = 0
    BY <2>4
  <2> QED
    BY <1>3, <2>5, <2>6
<1> HIDE DEF flag, x
<1>9. IsDec(sized, D, m, 0, l, TRUE)
  <2>1. IsFlags(1, h, 127)
    BY <1>3 DEF IsFlags
  <2> QED
    BY <1>1, <1>2, <1>7, <2>1, ReadIntOf
<1> HIDE DEF sized
<1> DEFINE r == IF huff THEN ReadHuffman(sized, q)
                ELSE [sized EXCEPT !.val = SubSeq(D, m + 1, q), !.pos = q]
<1>10. ReadString(d) = r
  <2>1. sized.ok = TRUE /\ sized.pos = m /\ sized.val = l /\ d.data = D /\ flag.val = x
    BY <1>7, <1>9 DEF IsDec
  <2>2. ~(q > Len(D))
    BY <1>6
  <2> QED
    BY <1>2, <1>8, <2>1, <2>2 DEF ReadString, sized, flag
<1>11. CASE huff
  <2>1. PICK cut : IsHuffman(xs, s, cut)
    BY <1>11, HuffmanIs DEF xs, Text
  <2>2. IsDec(ReadHuffman(sized, m + Len(xs)), D, m + Len(xs), 0, s, TRUE)
    BY <1>2, <1>9, <2>1, ReadHuffmanOf
  <2> QED
    BY <1>2, <1>6, <1>10, <1>11, <2>2 DEF l
<1>12. CASE ~huff
  <2>1. xs = s
    BY <1>12 DEF xs, Text
  <2>2. SubSeq(D, m + 1, q) = s
    <3> DEFINE t == SubSeq(D, m + 1, q)
    <3>1. q = m + Len(s) /\ Len(s) \in Nat
      BY <1>1, <1>2, <2>1 DEF l
    <3> DEFINE n == Len(s)
               u == m + 1
    <3>a. D \in Seq(0 .. 255) /\ u \in Nat /\ n \in Nat /\ q = u + n - 1 /\ m = u - 1
      BY <3>1
    <3>b. u \in Int /\ q \in Int /\ \A i \in u .. q : D[i] \in 0 .. 255
      <4>1. \A i \in u .. q : i \in 1 .. Len(D)
        BY <1>4, <1>6
      <4> QED
        <5>1. \A i \in u .. q : D[i] \in 0 .. 255
          BY <4>1, ElementOfSeq
        <5>2. u \in Int /\ q \in Int
          BY <1>6, <3>a
        <5> QED
          BY <5>1, <5>2
    <3> HIDE DEF n, u
    <3>c. /\ SubSeq(D, u, q) \in Seq(0 .. 255)
          /\ Len(SubSeq(D, u, q)) = (IF u <= q THEN q - u + 1 ELSE 0)
          /\ \A i \in 1 .. q - u + 1 : SubSeq(D, u, q)[i] = D[u + i - 1]
      BY <3>b, SubSeqProperties
    <3>d. /\ (IF u <= q THEN q - u + 1 ELSE 0) = n
          /\ \A i \in 1 .. n : i \in 1 .. q - u + 1 /\ u + i - 1 = m + i
      BY <3>a
    <3>2. t \in Seq(0 .. 255) /\ Len(t) = n /\ \A j \in 1 .. n : t[j] = D[m + j]
      BY <3>c, <3>d DEF u
    <3> USE DEF n
    <3>3. \A j \in 1 .. Len(s) : D[m + j] = s[j]
      BY <1>2, <2>1 DEF Holds
    <3>4. s \in Seq(0 .. 255)
      BY <1>1, <2>1
    <3> HIDE DEF t
    <3>5. t = s
      BY <3>2, <3>3, <3>4
    <3> QED
      BY <3>5 DEF t
  <2>3. IsDec([sized EXCEPT !.val = s, !.pos = q], D, q, 0, s, TRUE)
    BY <1>9 DEF IsDec
  <2> QED
    BY <1>6, <1>10, <1>12, <2>2, <2>3
<1> QED
  BY <1>11, <1>12

\* r has read x from the p-th byte to the q-th.
IsRead(r, D, p, q, x) ==
  IsDec(r, D, q, 0, x, TRUE) /\ q \in Nat /\ p < q /\ q <= Len(D)

\* An index is read as it was written, and all of a literal field after its flags.
LEMMA ReadIndexOf ==
  ASSUME NEW D \in Seq(0 .. 255), NEW p \in Nat, NEW b, NEW h, NEW m, IsFlags(b, h, m),
         NEW v, NEW d, IsDec(d, D, p, b, v, TRUE), NEW i \in Nat, NEW q, IntIn(D, p, q, h, m, i),
         NEW op
  PROVE  IsRead(ReadIndex(d, op), D, p, q, [op |-> op, idx |-> i])
<1> DEFINE index == ReadInt(d)
           f == [op |-> op, idx |-> i]
<1>1. IsDec(index, D, q, 0, i, TRUE)
  BY ReadIntOf
<1>2. m \in Nat
  BY FlagsAre
<1>3. IsStretch(D, p, q, h, m)
  BY <1>2, IntAt
<1>4. ReadIndex(d, op) = [index EXCEPT !.val = f]
  BY <1>1 DEF ReadIndex, IsDec
<1> HIDE DEF index, f
<1>5. IsDec([index EXCEPT !.val = f], D, q, 0, f, TRUE)
  BY <1>1 DEF IsDec
<1> QED
  BY <1>3, <1>4, <1>5 DEF IsRead, IsStretch, f

LEMMA ReadLiteralOf ==
  ASSUME NEW D \in Seq(0 .. 255), NEW p \in Nat, NEW b, NEW h, NEW m, IsFlags(b, h, m),
         NEW v, NEW d, IsDec(d, D, p, b, v, TRUE), NEW f \in Fields, f.op \in Long,
         NEW n \in Nat, IntIn(D, p, n, h, m, f.idx),
         NEW huff \in BOOLEAN, NEW q, LiteralIn(huff, D, n, q, f)
  PROVE  IsRead(ReadLiteral(d, f.op), D, p, q, f)
<1> DEFINE i == f.idx
<1>1. /\ i \in Nat /\ f.value \in Seq(DOMAIN Code)
      /\ i = 0 => f.name \in Seq(DOMAIN Code)
      /\ i # 0 => f.name = <<>>
      /\ f = [op |-> f.op, idx |-> f.idx, name |-> f.name, value |-> f.value]
  BY FieldIs
<1>2. PICK k \in Nat : /\ i = 0 => StringIn(huff, D, n, k, f.name)
                       /\ i # 0 => k = n
                       /\ StringIn(huff, D, k, q, f.value)
  BY DEF LiteralIn
<1> DEFINE index == ReadInt(d)
           name == IF index.ok /\ index.val = 0 THEN ReadString(index)
                   ELSE [index EXCEPT !.val = <<>>]
           value == ReadString(name)
<1>3. IsDec(index, D, n, 0, i, TRUE)
  BY <1>1, ReadIntOf
<1>4. IsStretch(D, p, n, h, m)
  <2>1. m \in Nat
    BY FlagsAre
  <2> QED
    BY <1>1, <2>1, IntAt
<1> HIDE DEF index
<1>5. IsDec(name, D, k, 0, f.name, TRUE) /\ n <= k
  <2>1. CASE i = 0
    <3>1. name = ReadString(index)
      BY <1>3, <2>1 DEF IsDec
    <3>2. IsDec(ReadString(index), D, k, 0, f.name, TRUE) /\ n < k
      BY <1>1, <1>2, <1>3, <2>1, ReadStringOf
    <3> HIDE DEF name
    <3>3. n <= k
      BY <3>2
    <3> QED
      BY <3>1, <3>2, <3>3
  <2>2. CASE i # 0
    <3>1. name = [index EXCEPT !.val = <<>>]
      BY <1>3, <2>2 DEF IsDec
    <3>2. IsDec([index EXCEPT !.val = <<>>], D, k, 0, <<>>, TRUE)
      BY <1>2, <1>3, <2>2 DEF IsDec
    <3> HIDE DEF name
    <3>3. f.name = <<>> /\ k = n
      BY <1>1, <1>2, <2>2
    <3>4. n <= k
      BY <3>3
    <3> QED
      BY <3>1, <3>2, <3>3, <3>4
  <2> QED
    BY <2>1, <2>2
<1> HIDE DEF name
<1>6. IsDec(value, D, q, 0, f.value, TRUE) /\ q \in Nat /\ k < q /\ q <= Len(D)
  <2> DEFINE s == f.value
             w == f.name
  <2>1. s \in Seq(DOMAIN Code) /\ StringIn(huff, D, k, q, s) /\ IsDec(name, D, k, 0, w, TRUE)
    BY <1>1, <1>2, <1>5
  <2> HIDE DEF s, w
  <2>2. IsDec(ReadString(name), D, q, 0, s, TRUE) /\ q \in Nat /\ k < q /\ q <= Len(D)
    BY <2>1, ReadStringOf
  <2> QED
    BY <2>2 DEF s
<1> HIDE DEF value
<1>7. ReadLiteral(d, f.op) =
        [value EXCEPT !.val =
           [op |-> f.op, idx |-> index.val, name |-> name.val, value |-> value.val]]
  BY DEF ReadLiteral, index, name, value
<1>8. index.val = f.idx /\ name.val = f.name /\ value.val = f.value
  BY <1>3, <1>5, <1>6 DEF IsDec
<1>9. ReadLiteral(d, f.op) = [value EXCEPT !.val = f]
  BY <1>1, <1>7, <1>8
<1>10. IsDec([value EXCEPT !.val = f], D, q, 0, f, TRUE)
  BY <1>6 DEF IsDec
<1>11. p < q
  BY <1>2, <1>4, <1>5, <1>6 DEF IsStretch
<1> QED
  BY <1>6, <1>9, <1>10, <1>11 DEF IsRead

\* The flags, which tell the operation: the first bits of the byte z.
IsFlagged(op, z) ==
  /\ op = "indexed" => (z \div 128) % 2 = 1
  /\ op # "indexed" => (z \div 128) % 2 = 0
  /\ op = "YES" => (z \div 64) % 2 = 1
  /\ op \in {"limit", "NEVER", "NO"} => (z \div 64) % 2 = 0
  /\ op = "limit" => (z \div 32) % 2 = 1
  /\ op \in {"NEVER", "NO"} => (z \div 32) % 2 = 0
  /\ op = "NEVER" => (z \div 16) % 2 = 1
  /\ op = "NO" => (z \div 16) % 2 = 0

LEMMA FlagValues ==
  ASSUME NEW op, NEW b, NEW h, NEW m, HasFlags(op, b, h, m), NEW y \in 0 .. m, NEW z, z = h + y
  PROVE  IsFlagged(op, z)
<1>1. CASE op = "indexed" /\ h = 128 /\ m = 127
  <2>1. z \in 128 .. 255
    BY <1>1
  <2> QED
    BY <1>1, <2>1 DEF IsFlagged
<1>2. CASE op = "YES" /\ h = 64 /\ m = 63
  <2>1. z \in 64 .. 127
    BY <1>2
  <2> QED
    BY <1>2, <2>1 DEF IsFlagged
<1>3. CASE op = "limit" /\ h = 32 /\ m = 31
  <2>1. z \in 32 .. 63
    BY <1>3
  <2> QED
    BY <1>3, <2>1 DEF IsFlagged
<1>4. CASE op = "NEVER" /\ h = 16 /\ m = 15
  <2>1. z \in 16 .. 31
    BY <1>4
  <2> QED
    BY <1>4, <2>1 DEF IsFlagged
<1>5. CASE op = "NO" /\ h = 0 /\ m = 15
  <2>1. z \in 0 .. 15
    BY <1>5
  <2> QED
    BY <1>5, <2>1 DEF IsFlagged
<1> QED
  BY <1>1, <1>2, <1>3, <1>4, <1>5 DEF HasFlags

\* The decoder after each of the first bits of a byte.
ReadsBits(d, D, p, z) ==
  /\ IsDec(ReadBit(d), D, p, 1, (z \div 128) % 2, TRUE)
  /\ IsDec(ReadBit(ReadBit(d)), D, p, 2, (z \div 64) % 2, TRUE)
  /\ IsDec(ReadBit(ReadBit(ReadBit(d))), D, p, 3, (z \div 32) % 2, TRUE)
  /\ IsDec(ReadBit(ReadBit(ReadBit(ReadBit(d)))), D, p, 4, (z \div 16) % 2, TRUE)

LEMMA ReadBitsOf ==
  ASSUME NEW D \in Seq(0 .. 255), NEW p \in Nat, p < Len(D), NEW v, NEW d,
         IsDec(d, D, p, 0, v, TRUE)
  PROVE  ReadsBits(d, D, p, D[p + 1])
<1> DEFINE z == D[p + 1]
<1>1. ASSUME NEW b \in 0 .. 6, NEW w, NEW e, IsDec(e, D, p, b, w, TRUE)
      PROVE  IsDec(ReadBit(e), D, p, b + 1, (z \div 2 ^ (7 - b)) % 2, TRUE)
  <2>1. b \in 0 .. 7 /\ b < 7
    OBVIOUS
  <2>2. Bit(D, 8 * p + b) = (z \div 2 ^ (7 - b)) % 2
    BY <2>1, BitIs
  <2>3. IsDec(ReadBit(e), D, p, b + 1, Bit(D, 8 * p + b), TRUE)
    BY <1>1, <2>1, ReadBitDec
  <2> QED
    BY <2>2, <2>3
<1>2. /\ 0 \in 0 .. 6 /\ 1 \in 0 .. 6 /\ 2 \in 0 .. 6 /\ 3 \in 0 .. 6
      /\ 0 + 1 = 1 /\ 1 + 1 = 2 /\ 2 + 1 = 3 /\ 3 + 1 = 4
  OBVIOUS
<1>3. 2 ^ (7 - 0) = 128 /\ 2 ^ (7 - 1) = 64 /\ 2 ^ (7 - 2) = 32 /\ 2 ^ (7 - 3) = 16
  <2>1. 7 - 0 = 7 /\ 7 - 1 = 6 /\ 7 - 2 = 5 /\ 7 - 3 = 4
    OBVIOUS
  <2> QED
    BY <2>1, PowersOfTwo
<1> HIDE DEF z
<1>4. IsDec(ReadBit(d), D, p, 1, (z \div 128) % 2, TRUE)
  <2>1. IsDec(ReadBit(d), D, p, 0 + 1, (z \div 2 ^ (7 - 0)) % 2, TRUE)
    BY <1>1, <1>2
  <2> QED
    BY <1>2, <1>3, <2>1
<1> DEFINE b1 == ReadBit(d)
           b2 == ReadBit(b1)
           b3 == ReadBit(b2)
<1> HIDE DEF b1, b2, b3
<1>5. IsDec(ReadBit(b1), D, p, 2, (z \div 64) % 2, TRUE)
  <2>1. IsDec(ReadBit(b1), D, p, 1 + 1, (z \div 2 ^ (7 - 1)) % 2, TRUE)
    BY <1>1, <1>2, <1>4 DEF b1
  <2> QED
    BY <1>2, <1>3, <2>1
<1>6. IsDec(ReadBit(b2), D, p, 3, (z \div 32) % 2, TRUE)
  <2>1. IsDec(ReadBit(b2), D, p, 2 + 1, (z \div 2 ^ (7 - 2)) % 2, TRUE)
    BY <1>1, <1>2, <1>5 DEF b2
  <2> QED
    BY <1>2, <1>3, <2>1
<1>7. IsDec(ReadBit(b3), D, p, 4, (z \div 16) % 2, TRUE)
  <2>1. IsDec(ReadBit(b3), D, p, 3 + 1, (z \div 2 ^ (7 - 3)) % 2, TRUE)
    BY <1>1, <1>2, <1>6 DEF b3
  <2> QED
    BY <1>2, <1>3, <2>1
<1>8. ReadsBits(d, D, p, z)
  BY <1>4, <1>5, <1>6, <1>7 DEF ReadsBits, b1, b2, b3
<1> QED
  BY <1>8 DEF z

\* A field is read as it was written.
LEMMA ReadFieldOf ==
  ASSUME NEW D \in Seq(0 .. 255), NEW huff \in BOOLEAN, NEW f \in Fields, NEW p \in Nat, NEW q,
         FieldIn(huff, D, p, q, f), NEW v, NEW d, IsDec(d, D, p, 0, v, TRUE)
  PROVE  IsRead(ReadField(d), D, p, q, f)
<1> DEFINE op == f.op
           i == f.idx
           z == D[p + 1]
<1>1. PICK b \in 1 .. 4, h \in 0 .. 255, m \in 0 .. 255, n \in Nat :
        /\ HasFlags(op, b, h, m) /\ IntIn(D, p, n, h, m, i)
        /\ op \in Short => q = n
        /\ op \in Long => LiteralIn(huff, D, n, q, f)
  BY DEF FieldIn
<1>2. i \in Nat /\ (op \in Short => f = [op |-> op, idx |-> i])
  BY FieldIs
<1>3. IsStretch(D, p, n, h, m)
  <2>1. m \in Nat
    OBVIOUS
  <2> QED
    BY <1>1, <1>2, <2>1, IntAt
<1>4. PICK y \in 0 .. m : z = h + y
  BY <1>3 DEF IsStretch
<1>5. ReadsBits(d, D, p, z)
  BY <1>3, ReadBitsOf DEF IsStretch
<1>6. IsFlags(b, h, m)
  BY <1>1 DEF HasFlags, IsFlags
<1> HIDE DEF op, i, z
<1> DEFINE b1 == ReadBit(d)
           b2 == ReadBit(b1)
           b3 == ReadBit(b2)
           b4 == ReadBit(b3)
           x1 == (z \div 128) % 2
           x2 == (z \div 64) % 2
           x3 == (z \div 32) % 2
           x4 == (z \div 16) % 2
<1>7. /\ IsDec(b1, D, p, 1, x1, TRUE) /\ IsDec(b2, D, p, 2, x2, TRUE)
      /\ IsDec(b3, D, p, 3, x3, TRUE) /\ IsDec(b4, D, p, 4, x4, TRUE)
  BY <1>5 DEF ReadsBits
<1>8. /\ op = "indexed" => x1 = 1
      /\ op # "indexed" => x1 = 0
      /\ op = "YES" => x2 = 1
      /\ op \in {"limit", "NEVER", "NO"} => x2 = 0
      /\ op = "limit" => x3 = 1
      /\ op \in {"NEVER", "NO"} => x3 = 0
      /\ op = "NEVER" => x4 = 1
      /\ op = "NO" => x4 = 0
  <2>1. IsFlagged(op, z)
    BY <1>1, <1>4, FlagValues
  <2> QED
    BY <2>1 DEF IsFlagged
<1> HIDE DEF b1, b2, b3, b4, x1, x2, x3, x4
<1>9. b1.ok = TRUE /\ b1.val = x1 /\ b2.val = x2 /\ b3.val = x3 /\ b4.val = x4
  BY <1>7 DEF IsDec
<1>10. CASE op = "indexed"
  <2>1. ReadField(d) = ReadIndex(b1, op)
    BY <1>8, <1>9, <1>10 DEF ReadField, b1, b2, b3, b4
  <2>2. b = 1 /\ op \in Short /\ q = n
    BY <1>1, <1>10 DEF HasFlags, Short
  <2>3. IsRead(ReadIndex(b1, op), D, p, n, [op |-> op, idx |-> i])
    BY <1>1, <1>2, <1>6, <1>7, <2>2, ReadIndexOf
  <2> QED
    BY <1>2, <2>1, <2>2, <2>3
<1>11. CASE op = "limit"
  <2>1. ReadField(d) = ReadIndex(b3, op)
    BY <1>8, <1>9, <1>11 DEF ReadField, b1, b2, b3, b4
  <2>2. b = 3 /\ op \in Short /\ q = n
    BY <1>1, <1>11 DEF HasFlags, Short
  <2>3. IsRead(ReadIndex(b3, op), D, p, n, [op |-> op, idx |-> i])
    BY <1>1, <1>2, <1>6, <1>7, <2>2, ReadIndexOf
  <2> QED
    BY <1>2, <2>1, <2>2, <2>3
<1>12. CASE op = "YES"
  <2>1. ReadField(d) = ReadLiteral(b2, op)
    BY <1>8, <1>9, <1>12 DEF ReadField, b1, b2, b3, b4
  <2>2. b = 2 /\ op \in Long
    BY <1>1, <1>12 DEF HasFlags, Long
  <2>3. IsRead(ReadLiteral(b2, f.op), D, p, q, f)
    BY <1>1, <1>6, <1>7, <2>2, ReadLiteralOf DEF op, i
  <2> QED
    BY <2>1, <2>3 DEF op
<1>13. CASE op \in {"NEVER", "NO"}
  <2>1. ReadField(d) = ReadLiteral(b4, op)
    <3>1. op = IF x4 = 1 THEN "NEVER" ELSE "NO"
      BY <1>8, <1>13
    <3>2. x1 = 0 /\ x2 = 0 /\ x3 = 0
      BY <1>8, <1>13
    <3> QED
      BY <1>9, <3>1, <3>2 DEF ReadField, b1, b2, b3, b4
  <2>2. b = 4 /\ op \in Long
    BY <1>1, <1>13 DEF HasFlags, Long
  <2>3. IsRead(ReadLiteral(b4, f.op), D, p, q, f)
    BY <1>1, <1>6, <1>7, <2>2, ReadLiteralOf DEF op, i
  <2> QED
    BY <2>1, <2>3 DEF op
<1> QED
  BY <1>1, <1>10, <1>11, <1>12, <1>13 DEF HasFlags

\* A field takes a byte at least.
LEMMA FieldTakes ==
  ASSUME NEW D \in Seq(0 .. 255), NEW huff \in BOOLEAN, NEW f \in Fields, NEW p \in Nat, NEW q,
         FieldIn(huff, D, p, q, f)
  PROVE  q \in Nat /\ p < q
<1> DEFINE d == [data |-> D, pos |-> p, bit |-> 0, val |-> 0, ok |-> TRUE]
<1>1. IsDec(d, D, p, 0, 0, TRUE)
  BY DEF IsDec
<1> HIDE DEF d
<1>2. IsRead(ReadField(d), D, p, q, f)
  BY <1>1, ReadFieldOf
<1> QED
  BY <1>2 DEF IsRead

\* The states of the loop of Decoded.
IsDecoded(s, n) ==
  /\ s[0] = [d |-> BitDecoder(data), fields |-> <<>>]
  /\ \A r \in 1 .. n :
       s[r] = IF s[r - 1].d.ok /\ ~Eod(s[r - 1].d) THEN AddField(s[r - 1]) ELSE s[r - 1]

LEMMA DecodedRun ==
  ASSUME NEW n \in Nat, n = Len(data)
  PROVE  \E s : IsDecoded(s, n) /\ Decoded = [s[n].d EXCEPT !.val = s[n].fields]
<1> DEFINE start == [d |-> BitDecoder(data), fields |-> <<>>]
           round(x) == IF x.d.ok /\ ~Eod(x.d) THEN AddField(x) ELSE x
           Is(f, m) == f = [r \in 0 .. m |-> IF r = 0 THEN start ELSE round(f[r - 1])]
           S == {m \in Nat : \E f : Is(f, m)}
<1> HIDE DEF start
<1>1. 0 \in S
  <2>1. Is([r \in 0 .. 0 |-> start], 0)
    OBVIOUS
  <2> QED
    BY <2>1
<1>2. ASSUME NEW m \in 1 .. n, m - 1 \in S PROVE m \in S
  <2>1. PICK f : Is(f, m - 1)
    BY <1>2
  <2> HIDE DEF round
  <2> DEFINE g == [r \in 0 .. m |-> IF r < m THEN f[r] ELSE round(f[r - 1])]
  <2>2. ASSUME NEW r \in 0 .. m PROVE g[r] = IF r = 0 THEN start ELSE round(g[r - 1])
    <3>1. CASE r < m
      <4>1. r \in 0 .. m - 1 /\ (r # 0 => r - 1 \in 0 .. m - 1)
        BY <3>1
      <4> QED
        BY <2>1, <3>1, <4>1
    <3>2. CASE r = m
      <4>1. r # 0 /\ r - 1 \in 0 .. m /\ r - 1 < m
        BY <3>2
      <4> QED
        BY <3>2, <4>1
    <3> QED
      BY <3>1, <3>2
  <2>3. Is(g, m)
    <3>1. g = [r \in 0 .. m |-> g[r]]
      OBVIOUS
    <3> QED
      BY <2>2, <3>1
  <2> HIDE DEF g, Is
  <2>4. \E h : Is(h, m)
    BY <2>3
  <2> QED
    BY <2>4
<1>3. n \in S
  <2> HIDE DEF S
  <2>1. \A m \in 0 .. n : m \in S
    BY <1>1, <1>2, CountUp
  <2> QED
    BY <2>1
<1> DEFINE h == CHOOSE f : Is(f, n)
<1>4. Is(h, n)
  BY <1>3
<1>5. Decoded = [h[n].d EXCEPT !.val = h[n].fields]
  BY DEF Decoded, While, Loop, start
<1>6. h[0] = start /\ \A r \in 1 .. n : h[r] = round(h[r - 1])
  <2> HIDE DEF round
  <2>1. 0 \in 0 .. n /\ \A r \in 1 .. n : r \in 0 .. n /\ r # 0
    OBVIOUS
  <2> QED
    BY <1>4, <2>1
<1>7. IsDecoded(h, n)
  BY <1>6 DEF IsDecoded, start
<1> QED
  BY <1>5, <1>7

\* A block is decoded to the fields it is made of.
LEMMA DecodedBlock ==
  ASSUME huffman \in BOOLEAN, data \in Seq(0 .. 255), written \in Seq(Fields),
         NEW cut, BlockIs(huffman, data, written, cut)
  PROVE  Decoded.ok = TRUE /\ Decoded.val = written
<1> DEFINE k == Len(written)
           n == Len(data)
<1>1. k \in Nat /\ n \in Nat
  OBVIOUS
<1>2. /\ cut \in [0 .. k -> Nat] /\ cut[0] = 0 /\ cut[k] = n
      /\ \A i \in 1 .. k : FieldIn(huffman, data, cut[i - 1], cut[i], written[i])
  BY DEF BlockIs
<1>3. \A i \in 1 .. k : written[i] \in Fields
  BY ElementOfSeq
<1>4. PICK x : IsDecoded(x, n) /\ Decoded = [x[n].d EXCEPT !.val = x[n].fields]
  <2>1. \E x : IsDecoded(x, n) /\ Decoded = [x[n].d EXCEPT !.val = x[n].fields]
    <3>1. n = Len(data)
      OBVIOUS
    <3> HIDE DEF n
    <3> QED
      BY <1>1, <3>1, DecodedRun
  <2> QED
    BY <2>1
<1>5. SubSeq(written, 1, k) = written
  BY SubSeqFull
<1> HIDE DEF k, n
<1>6. \A i \in 1 .. k : cut[i - 1] + 1 <= cut[i]
  <2> SUFFICES ASSUME NEW i \in 1 .. k PROVE cut[i - 1] + 1 <= cut[i]
    OBVIOUS
  <2> DEFINE p == cut[i - 1]
             q == cut[i]
             f == written[i]
  <2>1. i - 1 \in 0 .. k
    BY <1>1
  <2>2. p \in Nat /\ f \in Fields /\ FieldIn(huffman, data, p, q, f)
    BY <1>2, <1>3, <2>1
  <2> HIDE DEF p, q, f
  <2>3. q \in Nat /\ p < q
    BY <2>2, FieldTakes
  <2>4. p + 1 <= q
    BY <2>2, <2>3
  <2> QED
    BY <2>4 DEF p, q
<1>7. k <= n
  <2>1. k \in 0 .. k
    BY <1>1
  <2>2. k <= cut[k]
    BY <1>1, <1>2, <1>6, <2>1, CutsGrow
  <2> QED
    BY <1>2, <2>2
<1> DEFINE Reading(r) == /\ r <= k /\ IsDec(x[r].d, data, cut[r], 0, x[r].d.val, TRUE)
                         /\ x[r].fields = SubSeq(written, 1, r)
           Read(r) == /\ r > k /\ IsDec(x[r].d, data, n, 0, x[r].d.val, TRUE)
                      /\ x[r].fields = written
           S == {r \in Nat : Reading(r) \/ Read(r)}
<1>8. 0 \in S
  <2> DEFINE d == BitDecoder(data)
  <2>1. x[0].d = d /\ x[0].fields = <<>>
    BY <1>4 DEF IsDecoded
  <2>2. IsDec(d, data, 0, 0, d.val, TRUE)
    BY DEF BitDecoder, IsDec
  <2>3. SubSeq(written, 1, 0) = <<>>
    BY SubSeqEmpty
  <2> HIDE DEF d
  <2>4. 0 <= k
    BY <1>1
  <2>5. Reading(0)
    BY <1>2, <2>1, <2>2, <2>3, <2>4
  <2> QED
    BY <2>5
<1>9. ASSUME NEW r \in 1 .. n, r - 1 \in S PROVE r \in S
  <2>0. (Reading(r) => r \in S) /\ (Read(r) => r \in S)
    <3> HIDE DEF Reading, Read
    <3> QED
      OBVIOUS
  <2> DEFINE y == x[r - 1]
             Active == y.d.ok /\ ~Eod(y.d)
  <2>1. x[r] = IF Active THEN AddField(y) ELSE y
    BY <1>4 DEF IsDecoded
  <2>2. Reading(r - 1) \/ Read(r - 1)
    BY <1>9
  <2>3. ASSUME IsDec(y.d, data, n, 0, y.d.val, TRUE), y.fields = written, r > k
        PROVE  r \in S
    <3>1. ~Active
      BY <1>1, <2>3 DEF IsDec, Eod, n
    <3>2. x[r] = y
      BY <2>1, <3>1
    <3>3. Read(r)
      BY <2>3, <3>2
    <3> HIDE DEF S, Read
    <3> QED
      BY <2>0, <3>3
  <2>4. CASE Read(r - 1)
    <3>1. r > k
      BY <1>1, <2>4
    <3> QED
      BY <2>3, <2>4, <3>1
  <2>5. CASE Reading(r - 1) /\ r - 1 = k
    <3>1. r > k
      BY <1>1, <2>5
    <3> QED
      BY <1>2, <1>5, <2>3, <2>5, <3>1
  <2>6. CASE Reading(r - 1) /\ r - 1 < k
    <3> DEFINE p == cut[r - 1]
               q == cut[r]
               f == written[r]
               e == y.d
               w == e.val
    <3>1. r \in 1 .. k /\ r - 1 \in 0 .. k /\ r <= k
      BY <1>1, <2>6
    <3>2. p \in Nat /\ f \in Fields /\ FieldIn(huffman, data, p, q, f)
      BY <1>2, <1>3, <3>1
    <3>3. IsDec(e, data, p, 0, w, TRUE)
      BY <2>6
    <3>4. y.fields = SubSeq(written, 1, r - 1)
      BY <2>6
    <3>5. SubSeq(written, 1, r) = Append(SubSeq(written, 1, r - 1), f)
      BY <3>1, AppendElement DEF k
    <3>6. x[r].d.val = x[r].d.val
      OBVIOUS
    <3> HIDE DEF p, q, f, w
    <3>7. IsRead(ReadField(e), data, p, q, f)
      <4> HIDE DEF e
      <4> QED
        BY <3>2, <3>3, ReadFieldOf
    <3>8. Active
      <4>1. e.ok = TRUE /\ e.data = data /\ e.pos = p
        BY <3>3 DEF IsDec
      <4>2. p < n
        BY <1>1, <3>2, <3>7 DEF IsRead, n
      <4> QED
        BY <1>1, <3>2, <4>1, <4>2 DEF Eod, n
    <3>9. x[r] = AddField(y)
      BY <2>1, <3>8
    <3> DEFINE z == ReadField(e)
    <3>10. IsDec(z, data, q, 0, f, TRUE)
      BY <3>7 DEF IsRead
    <3>11. x[r].d = z /\ x[r].fields = Append(y.fields, f)
      BY <3>9, <3>10 DEF AddField, IsDec
    <3>12. z.val = f
      BY <3>10 DEF IsDec
    <3> HIDE DEF z
    <3>13. IsDec(x[r].d, data, cut[r], 0, x[r].d.val, TRUE)
      BY <3>10, <3>11, <3>12 DEF q
    <3>14. Reading(r)
      BY <3>1, <3>4, <3>5, <3>11, <3>13
    <3> HIDE DEF S, Reading
    <3> QED
      BY <2>0, <3>14
  <2>7. Reading(r - 1) => r - 1 = k \/ r - 1 < k
    BY <1>1
  <2> QED
    BY <2>2, <2>4, <2>5, <2>6, <2>7
<1>10. n \in S
  <2> HIDE DEF S
  <2>1. \A i \in 0 .. n : i \in S
    BY <1>1, <1>8, <1>9, CountUp
  <2> QED
    BY <1>1, <2>1
<1> DEFINE y == x[n]
           e == y.d
<1>11. e.ok = TRUE /\ DOMAIN e = {"data", "pos", "bit", "val", "ok"} /\ y.fields = written
  <2>1. CASE Reading(n)
    <3>1. n = k
      BY <1>1, <1>7, <2>1
    <3> QED
      BY <1>5, <2>1, <3>1 DEF IsDec
  <2>2. CASE Read(n)
    BY <2>2 DEF IsDec
  <2> QED
    BY <1>10, <2>1, <2>2
<1> HIDE DEF y, e
<1>12. Decoded = [e EXCEPT !.val = written]
  BY <1>4, <1>11 DEF y, e
<1> QED
  BY <1>11, <1>12

-----------------------------------------------------------------------------
(* The theorems.                                                           *)

\* The encoder writes bytes whatever the fields are: no sum of flags, a value and bits
\* leaves the eight bits of its byte (BitEncoder of encoding.py).
THEOREM Types == Spec => []TypeOK
<1>1. IInv => TypeOK
  BY DEF IInv, TypeOK
<1> QED
  BY IInvHolds, <1>1, PTL

\* A string takes the bytes that its length announces and not a bit more or less, in every
\* block that an encoder writes or a peer sends (HpackDecoder.read_string and
\* BitDecoder.read_huffman_char).
THEOREM StringsEnd == Spec => []StringsEndWhereTheySay
<1>1. IInv => StringsEndWhereTheySay
  <2> SUFFICES ASSUME IInv PROVE StringsEndWhereTheySay
    OBVIOUS
  <2> DEFINE d == BitDecoder(data)
  <2>1. data \in Seq(0 .. 255)
    BY DEF IInv
  <2>2. Decoding(d, data)
    <3>1. Len(data) \in Nat /\ (0 < Len(data) \/ 0 = Len(data)) /\ 0 \in 0 .. 7
      BY <2>1
    <3> QED
      BY <3>1 DEF BitDecoder, Decoding
  <2> HIDE DEF d
  <2>3. LET sized == ReadInt(ReadBit(d))
            r == ReadString(d)
        IN  /\ Decoding(r, data)
            /\ r.ok => r.pos = sized.pos + sized.val /\ r.bit = 0
    BY <2>1, <2>2, ReadStringType
  <2> QED
    BY <2>3 DEF StringsEndWhereTheySay, d
<1> QED
  BY IInvHolds, <1>1, PTL
\* A block is read as the fields it was made from and to its end, for every integer, whatever
\* the strings, and with Huffman codes or without (HpackDecoder.decode of what
\* HpackEncoder.write_header has written).
THEOREM ReadAsWritten == Spec => []RoundTrip
<1>1. IInv => RoundTrip
  <2> SUFFICES ASSUME IInv, written # <<>> PROVE Decoded.ok /\ Decoded.val = written
    BY DEF RoundTrip
  <2>1. /\ huffman \in BOOLEAN /\ data \in Seq(0 .. 255) /\ written \in Seq(Fields)
        /\ \E cut : BlockIs(huffman, data, written, cut)
    BY DEF IInv, WrittenInv
  <2>2. Decoded.ok = TRUE /\ Decoded.val = written
    BY <2>1, DecodedBlock
  <2> QED
    BY <2>2
<1> QED
  BY IInvHolds, <1>1, PTL
=============================================================================

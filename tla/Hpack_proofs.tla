----------------------------- MODULE Hpack_proofs -----------------------------
(***************************************************************************)
(* Theorems about Hpack, for every static table, every measure of entries  *)
(* and every limit: the tables fit, and what the encoder writes the        *)
(* decoder reads, however many blocks lie between them.                    *)
(*                                                                         *)
(* The two tables are never compared directly: they differ while a block   *)
(* is underway.  The invariant, Chained, says that there is a table for    *)
(* each place between the blocks, from the decoder's to the encoder's, and *)
(* that reading a block with the table before it gives its header list and *)
(* the table after it.  A block that is written extends the chain at one   *)
(* end (WritingIsRead), one that is read shortens it at the other.         *)
(***************************************************************************)
EXTENDS Hpack, Sums

Entries == Names \X (Values \cup {None})

\* The size by which entries are evicted is that of the entries, and fits.
GoodTable(t) ==
  /\ t \in Table
  /\ t.size <= t.limit
  /\ t.size = Weight(t.entries)
-----------------------------------------------------------------------------
(* The tables.                                                             *)

Weights(entries) == [i \in DOMAIN entries |-> Size[entries[i]]]

LEMMA SizeType == \A p \in Pairs : Size[p] \in Nat \ {0} /\ p[1] \in Names /\ p[2] \in Values
BY ConstantsAssumption DEF Pairs

LEMMA WeightsType ==
  ASSUME NEW q \in Seq(Pairs)
  PROVE  /\ Weights(q) \in Seq(Int) /\ Len(Weights(q)) = Len(q)
         /\ \A i \in 1 .. Len(q) : Weights(q)[i] = Size[q[i]]
         /\ Weight(q) = SumFunction(Weights(q))
         /\ Weight(q) \in Nat
<1> DEFINE w(i) == Size[q[i]]
<1>1. /\ Len(q) \in Nat /\ DOMAIN q = 1 .. Len(q) /\ \A i \in 1 .. Len(q) : q[i] \in Pairs
  BY LenProperties
<1>2. \A i \in 1 .. Len(q) : w(i) \in Nat
  BY <1>1, SizeType
<1>3. Weights(q) = [i \in 1 .. Len(q) |-> w(i)]
  BY <1>1 DEF Weights
<1> HIDE DEF w
<1>4. Weights(q) \in Seq(Int) /\ Len(Weights(q)) = Len(q)
  BY <1>1, <1>2, <1>3, IsASeq
<1>5. \A i \in 1 .. Len(q) : Weights(q)[i] = Size[q[i]]
  BY <1>3 DEF w
<1>6. Weight(q) = SumFunction(Weights(q))
  BY DEF Weight, Weights
<1>7. SumFunction(Weights(q)) \in Nat
  <2> DEFINE f == Weights(q)
             S == 1 .. Len(q)
  <2>1. IsFiniteSet(S) /\ (\A i \in S : f[i] \in Nat) /\ DOMAIN f = S
    BY <1>1, <1>2, <1>3, FS_Interval
  <2> HIDE DEF f, S
  <2>2. SumFunctionOnSet(f, S) \in Nat
    BY <2>1, SumNat
  <2> QED
    BY <2>1, <2>2 DEF SumFunction, f
<1> QED
  BY <1>4, <1>5, <1>6, <1>7

LEMMA WeightConcat ==
  ASSUME NEW a \in Seq(Pairs), NEW b \in Seq(Pairs)
  PROVE  a \o b \in Seq(Pairs) /\ Weight(a \o b) = Weight(a) + Weight(b)
<1> DEFINE r == a \o b
<1>1. /\ r \in Seq(Pairs) /\ Len(r) = Len(a) + Len(b) /\ Len(a) \in Nat /\ Len(b) \in Nat
      /\ \A i \in 1 .. Len(a) + Len(b) : r[i] = IF i <= Len(a) THEN a[i] ELSE b[i - Len(a)]
  BY ConcatProperties, LenProperties
<1> HIDE DEF r
<1> DEFINE u == Weights(a)
           v == Weights(b)
           w == Weights(r)
<1>2. /\ u \in Seq(Int) /\ Len(u) = Len(a) /\ \A i \in 1 .. Len(a) : u[i] = Size[a[i]]
      /\ v \in Seq(Int) /\ Len(v) = Len(b) /\ \A i \in 1 .. Len(b) : v[i] = Size[b[i]]
      /\ w \in Seq(Int) /\ Len(w) = Len(r) /\ \A i \in 1 .. Len(r) : w[i] = Size[r[i]]
      /\ Weight(a) = SumFunction(u) /\ Weight(b) = SumFunction(v) /\ Weight(r) = SumFunction(w)
  BY <1>1, WeightsType
<1> HIDE DEF u, v, w
<1>3. w = u \o v
  <2>1. /\ u \o v \in Seq(Int) /\ Len(u \o v) = Len(a) + Len(b)
        /\ \A i \in 1 .. Len(a) + Len(b) : (u \o v)[i] =
             IF i <= Len(a) THEN u[i] ELSE v[i - Len(a)]
    <3>1. /\ u \o v \in Seq(Int) /\ Len(u \o v) = Len(u) + Len(v)
          /\ \A i \in 1 .. Len(u) + Len(v) : (u \o v)[i] =
               IF i <= Len(u) THEN u[i] ELSE v[i - Len(u)]
      <4>1. u \in Seq(Int) /\ v \in Seq(Int)
        BY <1>2
      <4> QED
        BY <4>1, ConcatProperties
    <3> QED
      BY <1>2, <3>1
  <2>2. ASSUME NEW i \in 1 .. Len(w) PROVE w[i] = (u \o v)[i]
    <3>1. i \in 1 .. Len(a) + Len(b) /\ w[i] = Size[r[i]]
      BY <1>1, <1>2
    <3>2. CASE i <= Len(a)
      <4>1. i \in 1 .. Len(a)
        BY <1>1, <3>1, <3>2
      <4> QED
        BY <1>1, <1>2, <2>1, <3>1, <3>2, <4>1
    <3>3. CASE ~(i <= Len(a))
      <4>1. i - Len(a) \in 1 .. Len(b)
        BY <1>1, <3>1, <3>3
      <4> QED
        BY <1>1, <1>2, <2>1, <3>1, <3>3, <4>1
    <3> QED
      BY <3>2, <3>3
  <2> QED
    BY <1>1, <1>2, <2>1, <2>2, SeqEqual
<1> QED
  BY <1>1, <1>2, <1>3, SumConcat DEF r

\* Evicting the oldest entries brings a table within its limit, and keeps its size
\* that of its entries; what is left are the newest entries.
LEMMA GcIsGood ==
  ASSUME NEW t \in Table, t.size = Weight(t.entries)
  PROVE  GoodTable(Gc(t)) /\ Gc(t).limit = t.limit
<1> DEFINE q == t.entries
           n == Len(q)
           drop(k) == SubSeq(q, k + 1, n)
           left(k) == t.size - Weight(drop(k))
           K == {k \in 0 .. n : left(k) <= t.limit}
           keep == Max(K)
<1>1. q \in Seq(Pairs) /\ n \in Nat /\ t.size \in Nat /\ t.limit \in Nat
  BY DEF Table
<1>2. Gc(t) = [t EXCEPT !.entries = SubSeq(q, 1, keep), !.size = left(keep)]
  BY DEF Gc
<1>3. ASSUME NEW k \in 0 .. n
      PROVE  /\ SubSeq(q, 1, k) \in Seq(Pairs) /\ drop(k) \in Seq(Pairs)
             /\ Weight(q) = Weight(SubSeq(q, 1, k)) + Weight(drop(k))
             /\ Weight(drop(k)) \in Nat /\ Weight(SubSeq(q, 1, k)) \in Nat
  <2>1. \A i \in 1 .. n : q[i] \in Pairs
    BY <1>1
  <2>2. SubSeq(q, 1, k) \in Seq(Pairs)
    BY <1>1, <2>1, SubSeqProperties
  <2>3. drop(k) \in Seq(Pairs)
    BY <1>1, <2>1, SubSeqProperties
  <2>4. SubSeq(q, 1, k) \o drop(k) = q
    <3>1. /\ q \in Seq(Pairs) /\ 1 \in 1 .. Len(q) + 1
          /\ k \in (1 - 1) .. Len(q) /\ n \in k .. Len(q)
      BY <1>1
    <3> HIDE DEF q, n
    <3>2. SubSeq(q, 1, k) \o SubSeq(q, k + 1, n) = SubSeq(q, 1, n)
      BY <3>1, ConcatAdjacentSubSeq
    <3> QED
      BY <1>1, <3>2, SubSeqFull DEF n
  <2> HIDE DEF drop, q
  <2>5. Weight(SubSeq(q, 1, k) \o drop(k)) = Weight(SubSeq(q, 1, k)) + Weight(drop(k))
    BY <2>2, <2>3, WeightConcat
  <2> QED
    BY <2>2, <2>3, <2>4, <2>5, WeightsType
<1>4. 0 \in K
  <2>1. SubSeq(q, 1, 0) = <<>>
    BY <1>1, SubSeqEmpty
  <2>2. drop(0) = q
    BY <1>1, SubSeqFull
  <2>3. left(0) = t.size - Weight(q) /\ t.size = Weight(q)
    BY <2>2
  <2> HIDE DEF left
  <2>4. left(0) = 0
    BY <1>1, <2>3
  <2> QED
    BY <1>1, <2>4
<1>5. keep \in K
  <2>1. K \in SUBSET (0 .. n)
    OBVIOUS
  <2> HIDE DEF K, n
  <2>2. \E k \in K : \A j \in K : j <= k
    BY <1>1, <1>4, <2>1, GreatestNumber
  <2> QED
    BY <2>2 DEF Max
<1>6. keep \in 0 .. n /\ left(keep) <= t.limit
  <2> HIDE DEF keep
  <2> QED
    BY <1>5
<1> DEFINE r == SubSeq(q, 1, keep)
           m == left(keep)
<1>7. r \in Seq(Pairs) /\ m = Weight(r) /\ m \in Nat /\ m <= t.limit
  <2> DEFINE k == keep
             a == Weight(SubSeq(q, 1, k))
             b == Weight(drop(k))
  <2>1. k \in 0 .. n /\ left(k) <= t.limit
    BY <1>6
  <2> HIDE DEF k
  <2>2. /\ SubSeq(q, 1, k) \in Seq(Pairs) /\ t.size = a + b /\ a \in Nat /\ b \in Nat
        /\ left(k) = t.size - b
    BY <1>3, <2>1
  <2> HIDE DEF a, b
  <2>3. left(k) = a
    <3> HIDE DEF left
    <3> QED
      BY <1>1, <2>2
  <2> HIDE DEF left
  <2> QED
    BY <2>1, <2>2, <2>3 DEF k, a
<1>8. Gc(t) = [t EXCEPT !.entries = r, !.size = m]
  BY <1>2
<1> HIDE DEF q, r, m, keep
<1> QED
  BY <1>1, <1>7, <1>8 DEF GoodTable, Table

LEMMA AddIsGood ==
  ASSUME NEW t, GoodTable(t), NEW pair \in Pairs
  PROVE  GoodTable(AddToTable(t, pair)) /\ AddToTable(t, pair).limit = t.limit
<1> DEFINE r == <<pair>> \o t.entries
           m == t.size + Size[pair]
           u == [t EXCEPT !.entries = r, !.size = m]
<1>1. /\ t.entries \in Seq(Pairs) /\ t.size = Weight(t.entries) /\ t.size \in Nat
      /\ t \in Table
  BY DEF GoodTable, Table
<1>2. <<pair>> \in Seq(Pairs) /\ Len(<<pair>>) = 1 /\ <<pair>>[1] = pair
  OBVIOUS
<1>3. Weight(<<pair>>) = Size[pair] /\ Size[pair] \in Nat
  <2> DEFINE one == <<pair>>
  <2>1. one \in Seq(Pairs) /\ Len(one) = 1 /\ one[1] = pair
    BY <1>2
  <2> HIDE DEF one
  <2>2. /\ Weights(one) \in Seq(Int) /\ Len(Weights(one)) = 1
        /\ Weights(one)[1] = Size[pair] /\ Weight(one) = SumFunction(Weights(one))
    BY <2>1, WeightsType
  <2>3. Size[pair] \in Int /\ Size[pair] \in Nat
    BY SizeType
  <2>4. Weights(one) = Append(<<>>, Size[pair])
    BY <2>2, <2>3
  <2>5. SumFunction(Append(<<>>, Size[pair])) = SumFunction(<<>>) + Size[pair]
    <3>1. <<>> \in Seq(Int)
      OBVIOUS
    <3> QED
      BY <2>3, <3>1, SumAppend
  <2>6. SumFunction(Weights(one)) = Size[pair]
    BY <2>3, <2>4, <2>5, SumEmpty
  <2> QED
    BY <2>2, <2>3, <2>6 DEF one
<1>4. r \in Seq(Pairs) /\ Weight(r) = m /\ m \in Nat
  <2>1. /\ <<pair>> \o t.entries \in Seq(Pairs)
        /\ Weight(<<pair>> \o t.entries) = Weight(<<pair>>) + Weight(t.entries)
    BY <1>1, <1>2, WeightConcat
  <2> QED
    BY <1>1, <1>3, <2>1
<1>5. AddToTable(t, pair) = Gc(u)
  BY DEF AddToTable
<1>6. u \in Table /\ u.size = Weight(u.entries) /\ u.limit = t.limit
  <2> HIDE DEF r, m
  <2> QED
    BY <1>1, <1>4 DEF Table
<1> HIDE DEF u
<1> QED
  BY <1>5, <1>6, GcIsGood
-----------------------------------------------------------------------------
(* The loops of encode and decode.                                         *)

\* One round of either loop, and what it has done after each of n rounds.
Round(encoding, x, y) == IF encoding THEN WriteHeader(x, y) ELSE ReadField(x, y)

IsRun(encoding, base, q, n, g) ==
  g = [i \in 0 .. n |-> IF i = 0 THEN base ELSE Round(encoding, g[i - 1], q[i])]

LEMMA RunExists ==
  ASSUME NEW encoding, NEW base, NEW q, NEW n \in Nat
  PROVE  \E g : IsRun(encoding, base, q, n, g)
<1> DEFINE Run(k) == \E g : IsRun(encoding, base, q, k, g)
           Bad == {k \in 1 .. n : ~Run(k)}
<1>1. Run(0)
  <2> DEFINE g == [i \in 0 .. 0 |-> base]
  <2>1. g = [i \in 0 .. 0 |-> IF i = 0 THEN base ELSE Round(encoding, g[i - 1], q[i])]
    OBVIOUS
  <2> HIDE DEF g
  <2> QED
    BY <2>1 DEF IsRun
<1>2. ASSUME NEW k \in 1 .. n, Run(k - 1) PROVE Run(k)
  <2>1. PICK f : IsRun(encoding, base, q, k - 1, f)
    BY <1>2
  <2> DEFINE g == [i \in 0 .. k |-> IF i = k THEN Round(encoding, f[k - 1], q[k]) ELSE f[i]]
  <2>2. ASSUME NEW i \in 0 .. k
        PROVE  g[i] = IF i = 0 THEN base ELSE Round(encoding, g[i - 1], q[i])
    <3>1. \A j \in 0 .. k - 1 : g[j] = f[j]
      OBVIOUS
    <3>2. \A j \in 0 .. k - 1 :
            f[j] = IF j = 0 THEN base ELSE Round(encoding, f[j - 1], q[j])
      BY <2>1 DEF IsRun
    <3>3. g[k] = Round(encoding, f[k - 1], q[k])
      OBVIOUS
    <3> HIDE DEF g
    <3>4. CASE i = k
      BY <3>1, <3>3, <3>4
    <3>5. CASE i # k
      <4>1. i \in 0 .. k - 1 /\ (i # 0 => i - 1 \in 0 .. k - 1)
        BY <3>5
      <4> QED
        BY <3>1, <3>2, <4>1
    <3> QED
      BY <3>4, <3>5
  <2>3. g = [i \in 0 .. k |-> g[i]]
    OBVIOUS
  <2> HIDE DEF g
  <2>4. IsRun(encoding, base, q, k, g)
    BY <2>2, <2>3 DEF IsRun
  <2> QED
    BY <2>4
<1> HIDE DEF Run
<1>3. Bad = {}
  <2> SUFFICES ASSUME Bad # {} PROVE FALSE
    OBVIOUS
  <2>1. Bad \in SUBSET (1 .. n)
    OBVIOUS
  <2>2. PICK k \in Bad : \A j \in Bad : k <= j
    <3> HIDE DEF Bad
    <3> QED
      BY <2>1, LeastNumber
  <2>3. k \in 1 .. n /\ (k = 1 \/ k - 1 \in 1 .. n)
    OBVIOUS
  <2>4. Run(k - 1)
    BY <1>1, <2>2, <2>3
  <2> QED
    BY <1>2, <2>3, <2>4
<1>4. Run(n)
  BY <1>1, <1>3
<1> QED
  BY <1>4 DEF Run

LEMMA WritingRounds ==
  ASSUME NEW t, NEW headers \in Seq(Headers)
  PROVE  /\ Writing(t, headers)[0] = [table |-> t, fields |-> <<>>]
         /\ \A i \in 1 .. Len(headers) :
              Writing(t, headers)[i] = WriteHeader(Writing(t, headers)[i - 1], headers[i])
<1> DEFINE base == [table |-> t, fields |-> <<>>]
           n == Len(headers)
           Good(g) == g = [i \in 0 .. n |->
                             IF i = 0 THEN base ELSE WriteHeader(g[i - 1], headers[i])]
           e == CHOOSE g : Good(g)
<1>1. n \in Nat
  OBVIOUS
<1>2. PICK g : IsRun(TRUE, base, headers, n, g)
  BY <1>1, RunExists
<1>3. Good(g)
  BY <1>2 DEF IsRun, Round
<1>4. Writing(t, headers) = e
  BY DEF Writing
<1>5. Good(e)
  <2> HIDE DEF Good
  <2> QED
    BY <1>3
<1> HIDE DEF e
<1>6. e[0] = base /\ \A i \in 1 .. n : e[i] = WriteHeader(e[i - 1], headers[i])
  <2> HIDE DEF base
  <2> QED
    BY <1>1, <1>5
<1> QED
  BY <1>4, <1>6

LEMMA ReadingRounds ==
  ASSUME NEW t, NEW fields \in Seq(Fields)
  PROVE  /\ Reading(t, fields)[0] =
              [table |-> t, list |-> <<>>, start |-> TRUE, failed |-> FALSE]
         /\ \A i \in 1 .. Len(fields) :
              Reading(t, fields)[i] = ReadField(Reading(t, fields)[i - 1], fields[i])
<1> DEFINE base == [table |-> t, list |-> <<>>, start |-> TRUE, failed |-> FALSE]
           n == Len(fields)
           Good(g) == g = [i \in 0 .. n |->
                             IF i = 0 THEN base ELSE ReadField(g[i - 1], fields[i])]
           d == CHOOSE g : Good(g)
<1>1. n \in Nat
  OBVIOUS
<1>2. PICK g : IsRun(FALSE, base, fields, n, g)
  BY <1>1, RunExists
<1>3. Good(g)
  BY <1>2 DEF IsRun, Round
<1>4. Reading(t, fields) = d
  BY DEF Reading
<1>5. Good(d)
  <2> HIDE DEF Good
  <2> QED
    BY <1>3
<1> HIDE DEF d
<1>6. d[0] = base /\ \A i \in 1 .. n : d[i] = ReadField(d[i - 1], fields[i])
  <2> HIDE DEF base
  <2> QED
    BY <1>1, <1>5
<1> QED
  BY <1>4, <1>6
-----------------------------------------------------------------------------
(* What the encoder writes of a header, and what the decoder makes of it.  *)

\* Searching the tables.
Found(t, pair) == {i \in DOMAIN t.entries : t.entries[i] = pair}

LEMMA StaticType ==
  /\ Static \in Seq(Entries) /\ Len(Static) \in Nat /\ DOMAIN Static = 1 .. Len(Static)
  /\ \A i \in 1 .. Len(Static) : Static[i] \in Entries
BY ConstantsAssumption DEF Entries

LEMMA StaticPair ==
  ASSUME NEW pair
  PROVE  /\ StaticPairIndex(pair) \in 0 .. Len(Static)
         /\ StaticPairIndex(pair) # 0 => Static[StaticPairIndex(pair)] = pair
<1> DEFINE S == {i \in DOMAIN Static : Static[i] = pair}
<1>1. StaticPairIndex(pair) = IF S = {} THEN 0 ELSE Max(S)
  BY DEF StaticPairIndex, LargestOr0
<1>2. CASE S = {}
  BY <1>1, <1>2, StaticType
<1>3. CASE S # {}
  <2>1. S \in SUBSET (0 .. Len(Static)) /\ Len(Static) \in Nat
    BY StaticType
  <2>2. Max(S) \in S
    <3> HIDE DEF S
    <3>1. \E k \in S : \A j \in S : j <= k
      BY <1>3, <2>1, GreatestNumber
    <3> QED
      BY <3>1 DEF Max
  <2> QED
    BY <1>1, <1>3, <2>2, StaticType
<1> QED
  BY <1>2, <1>3

LEMMA StaticKey ==
  ASSUME NEW name
  PROVE  /\ StaticKeyIndex(name) \in 0 .. Len(Static)
         /\ StaticKeyIndex(name) # 0 => Static[StaticKeyIndex(name)][1] = name
<1> DEFINE S == {i \in DOMAIN Static : Static[i][1] = name}
<1>1. StaticKeyIndex(name) = IF S = {} THEN 0 ELSE Min(S)
  BY DEF StaticKeyIndex, SmallestOr0
<1>2. CASE S = {}
  BY <1>1, <1>2, StaticType
<1>3. CASE S # {}
  <2>1. S \in SUBSET (1 .. Len(Static)) /\ Len(Static) \in Nat
    BY StaticType
  <2>2. Min(S) \in S
    <3> HIDE DEF S
    <3>1. \E k \in S : \A j \in S : k <= j
      BY <1>3, <2>1, LeastNumber
    <3> QED
      BY <3>1 DEF Min
  <2> QED
    BY <1>1, <1>3, <2>2, StaticType
<1> QED
  BY <1>2, <1>3

\* The index that is written for a pair, if there is one, is that of the pair.
LEMMA FoundIndex ==
  ASSUME NEW t \in Table, NEW pair \in Pairs, FindPairIndex(t, pair) # 0
  PROVE  /\ FindPairIndex(t, pair) \in Nat
         /\ HasIndex(t, FindPairIndex(t, pair))
         /\ ReadFromIndex(t, FindPairIndex(t, pair)) = pair
<1> DEFINE n == Len(t.entries)
           S == Found(t, pair)
           s == StaticPairIndex(pair)
<1>1. n \in Nat /\ DOMAIN t.entries = 1 .. n /\ Len(Static) \in Nat
  BY StaticType DEF Table
<1>2. s \in 0 .. Len(Static) /\ (s # 0 => Static[s] = pair)
  BY StaticPair
<1>3. FindPairIndex(t, pair) = IF s # 0 THEN s ELSE IF S = {} THEN 0 ELSE Len(Static) + Min(S)
  BY DEF FindPairIndex, Found
<1>4. CASE s # 0
  BY <1>1, <1>2, <1>3, <1>4 DEF HasIndex, ReadFromIndex
<1>5. CASE s = 0 /\ S # {}
  <2>1. S \in SUBSET (1 .. n)
    BY <1>1 DEF Found
  <2>2. Min(S) \in S
    <3> HIDE DEF S, n
    <3>1. \E k \in S : \A j \in S : k <= j
      BY <1>1, <1>5, <2>1, LeastNumber
    <3> QED
      BY <3>1 DEF Min
  <2> DEFINE m == Min(S)
  <2>3. m \in 1 .. n /\ t.entries[m] = pair
    BY <2>1, <2>2 DEF Found
  <2>4. FindPairIndex(t, pair) = Len(Static) + m
    BY <1>3, <1>5
  <2> HIDE DEF m
  <2>5. /\ Len(Static) + m \in Nat /\ Len(Static) + m \in 1 .. Len(Static) + n
        /\ ~(Len(Static) + m <= Len(Static)) /\ Len(Static) + m - Len(Static) = m
    BY <1>1, <2>3
  <2> QED
    BY <2>3, <2>4, <2>5 DEF HasIndex, ReadFromIndex
<1> QED
  BY <1>3, <1>4, <1>5

\* The field that is written for a header, and the table after it.
After(t, h) ==
  IF FindPairIndex(t, PairOf(h)) = 0 /\ h.add THEN AddToTable(t, PairOf(h)) ELSE t

Written(t, h) ==
  IF FindPairIndex(t, PairOf(h)) # 0
  THEN [op |-> "indexed", idx |-> FindPairIndex(t, PairOf(h))]
  ELSE [op |-> "literal", add |-> h.add, nameIdx |-> StaticKeyIndex(h.name),
        name |-> h.name, value |-> h.value]

LEMMA HeaderIsWritten ==
  ASSUME NEW t, NEW fields, NEW h \in Headers
  PROVE  WriteHeader([table |-> t, fields |-> fields], h) =
           [table |-> After(t, h), fields |-> Append(fields, Written(t, h))]
<1> DEFINE e == [table |-> t, fields |-> fields]
           idx == FindPairIndex(t, PairOf(h))
<1>1. e.table = t /\ e.fields = fields
  OBVIOUS
<1>2. CASE idx # 0
  <2>1. WriteHeader(e, h) = [e EXCEPT !.fields = Append(@, [op |-> "indexed", idx |-> idx])]
    BY <1>1, <1>2 DEF WriteHeader, PairOf
  <2> QED
    BY <1>2, <2>1 DEF After, Written
<1>3. CASE idx = 0
  BY <1>1, <1>3 DEF WriteHeader, PairOf, After, Written, FindKeyIndex
<1> QED
  BY <1>2, <1>3

LEMMA WrittenType ==
  ASSUME NEW t, GoodTable(t), NEW h \in Headers
  PROVE  /\ Written(t, h) \in Fields
         /\ GoodTable(After(t, h))
         /\ PairOf(h) \in Pairs
<1>1. PairOf(h) \in Pairs /\ h.name \in Names /\ h.value \in Values /\ h.add \in BOOLEAN
  BY DEF Headers, PairOf, Pairs
<1>2. GoodTable(After(t, h))
  BY <1>1, AddIsGood DEF After
<1>3. StaticKeyIndex(h.name) \in Nat
  BY StaticKey, StaticType
<1>4. Written(t, h) \in Fields
  <2>1. CASE FindPairIndex(t, PairOf(h)) # 0
    <3>1. FindPairIndex(t, PairOf(h)) \in Nat
      BY <1>1, <2>1, FoundIndex DEF GoodTable
    <3> QED
      BY <2>1, <3>1 DEF Written, Fields
  <2>2. CASE FindPairIndex(t, PairOf(h)) = 0
    BY <1>1, <1>3, <2>2 DEF Written, Fields
  <2> QED
    BY <2>1, <2>2
<1> QED
  BY <1>1, <1>2, <1>4

\* A decoder with the encoder's table reads the header, and has the table that the
\* encoder has then.
LEMMA HeaderIsRead ==
  ASSUME NEW t, GoodTable(t), NEW h \in Headers, NEW list, NEW start
  PROVE  ReadField([table |-> t, list |-> list, start |-> start, failed |-> FALSE],
                   Written(t, h)) =
           [table |-> After(t, h), list |-> Append(list, PairOf(h)), start |-> FALSE,
            failed |-> FALSE]
<1> DEFINE d == [table |-> t, list |-> list, start |-> start, failed |-> FALSE]
           idx == FindPairIndex(t, PairOf(h))
           f == Written(t, h)
           k == StaticKeyIndex(h.name)
<1>1. d.table = t /\ d.list = list /\ ~d.failed
  OBVIOUS
<1>2. PairOf(h) \in Pairs /\ t \in Table
  BY WrittenType DEF GoodTable
<1>3. CASE idx # 0
  <2>1. f.op = "indexed" /\ f.idx = idx
    BY <1>3 DEF Written
  <2>2. HasIndex(t, idx) /\ ReadFromIndex(t, idx) = PairOf(h)
    BY <1>2, <1>3, FoundIndex
  <2> HIDE DEF f
  <2>3. ReadField(d, f) = ReadIndexed(d, f)
    BY <1>1, <2>1, <2>2 DEF ReadField
  <2>4. ReadIndexed(d, f) = [d EXCEPT !.list = Append(@, PairOf(h)), !.start = FALSE]
    BY <1>1, <2>1, <2>2 DEF ReadIndexed
  <2>5. After(t, h) = t
    BY <1>3 DEF After
  <2> QED
    BY <2>3, <2>4, <2>5 DEF f
<1>4. CASE idx = 0
  <2>1. /\ f.op = "literal" /\ f.nameIdx = k /\ f.name = h.name /\ f.value = h.value
        /\ f.add = h.add
    BY <1>4 DEF Written
  <2>2. k \in 0 .. Len(Static) /\ (k # 0 => Static[k][1] = h.name)
    BY StaticKey
  <2>3. k # 0 => HasIndex(t, k) /\ ReadFromIndex(t, k)[1] = h.name
    BY <1>2, <2>2, StaticType DEF HasIndex, ReadFromIndex, Table
  <2> HIDE DEF f, k
  <2>4. ReadField(d, f) = ReadLiteral(d, f)
    BY <1>1, <2>1, <2>3 DEF ReadField
  <2>5. ReadLiteral(d, f) =
          [d EXCEPT !.list = Append(@, PairOf(h)), !.start = FALSE,
                    !.table = IF h.add THEN AddToTable(@, PairOf(h)) ELSE @]
    BY <1>1, <2>1, <2>3 DEF ReadLiteral, PairOf
  <2>6. After(t, h) = IF h.add THEN AddToTable(t, PairOf(h)) ELSE t
    BY <1>4 DEF After
  <2> QED
    BY <1>1, <2>4, <2>5, <2>6 DEF f
<1> QED
  BY <1>3, <1>4
-----------------------------------------------------------------------------
(* Blocks.                                                                 *)

\* A decoder in the middle of a block, whoever wrote it.
GoodReader(d) ==
  /\ d \in [table : Table, list : Seq(Entries), start : BOOLEAN, failed : BOOLEAN]
  /\ GoodTable(d.table)

\* No field, right or wrong, spoils the decoder's table.
LEMMA FieldKeepsReader ==
  ASSUME NEW d, GoodReader(d), NEW f \in Fields
  PROVE  GoodReader(ReadField(d, f))
<1> DEFINE t == d.table
           n == Len(t.entries)
<1>1. /\ t \in Table /\ GoodTable(t) /\ d.list \in Seq(Entries)
      /\ d.start \in BOOLEAN /\ d.failed \in BOOLEAN
      /\ d = [table |-> t, list |-> d.list, start |-> d.start, failed |-> d.failed]
  BY DEF GoodReader
<1>2. ASSUME NEW idx \in Nat, HasIndex(t, idx)
      PROVE  ReadFromIndex(t, idx) \in Entries /\ ReadFromIndex(t, idx)[1] \in Names
  <2>1. n \in Nat /\ (\A i \in 1 .. n : t.entries[i] \in Pairs) /\ Pairs \subseteq Entries
    BY <1>1 DEF Table, Pairs, Entries
  <2>2. \A p \in Entries : p[1] \in Names
    BY DEF Entries
  <2>3. CASE idx <= Len(Static)
    BY <1>2, <2>2, <2>3, StaticType DEF HasIndex, ReadFromIndex
  <2>4. CASE ~(idx <= Len(Static))
    <3>1. idx - Len(Static) \in 1 .. n
      BY <1>2, <2>1, <2>4, StaticType DEF HasIndex
    <3> QED
      BY <2>1, <2>2, <2>4, <3>1 DEF ReadFromIndex
  <2> QED
    BY <2>3, <2>4
<1>3. \A p \in Entries : Append(d.list, p) \in Seq(Entries)
  BY <1>1, AppendProperties
<1>4. GoodReader([d EXCEPT !.failed = TRUE])
  BY <1>1 DEF GoodReader
<1>5. CASE d.failed
  <2>1. ReadField(d, f) = d
    BY <1>5 DEF ReadField
  <2> QED
    BY <2>1
<1>6. CASE ~d.failed /\ f.op = "indexed"
  <2>1. f.idx \in Nat
    BY <1>6 DEF Fields
  <2>2. CASE HasIndex(t, f.idx)
    <3> DEFINE p == ReadFromIndex(t, f.idx)
    <3>1. p \in Entries
      BY <1>2, <2>1, <2>2
    <3>2. ReadField(d, f) = [d EXCEPT !.list = Append(@, p), !.start = FALSE]
      BY <1>6, <2>2 DEF ReadField, ReadIndexed
    <3> HIDE DEF p
    <3> QED
      BY <1>1, <1>3, <3>1, <3>2 DEF GoodReader
  <2>3. CASE ~HasIndex(t, f.idx)
    BY <1>4, <1>6, <2>3 DEF ReadField
  <2> QED
    BY <2>2, <2>3
<1>7. CASE ~d.failed /\ f.op = "literal"
  <2>1. f.nameIdx \in Nat /\ f.name \in Names /\ f.value \in Values /\ f.add \in BOOLEAN
    BY <1>7 DEF Fields
  <2>2. CASE f.nameIdx = 0 \/ HasIndex(t, f.nameIdx)
    <3> DEFINE name == IF f.nameIdx = 0 THEN f.name ELSE ReadFromIndex(t, f.nameIdx)[1]
               p == <<name, f.value>>
               u == IF f.add THEN AddToTable(t, p) ELSE t
    <3>1. name \in Names
      BY <1>2, <2>1, <2>2
    <3>2. p \in Pairs /\ p \in Entries
      BY <2>1, <3>1 DEF Pairs, Entries
    <3>3. ReadField(d, f) = [d EXCEPT !.list = Append(@, p), !.start = FALSE, !.table = u]
      BY <1>7, <2>2 DEF ReadField, ReadLiteral
    <3> HIDE DEF p
    <3>4. GoodTable(u) /\ u \in Table
      BY <1>1, <3>2, AddIsGood DEF GoodTable
    <3> HIDE DEF u
    <3> QED
      BY <1>1, <1>3, <3>2, <3>3, <3>4 DEF GoodReader
  <2>3. CASE ~(f.nameIdx = 0 \/ HasIndex(t, f.nameIdx))
    BY <1>4, <1>7, <2>3 DEF ReadField
  <2> QED
    BY <2>2, <2>3
<1>8. CASE ~d.failed /\ f.op = "limit"
  <2>1. f.limit \in Nat
    BY <1>8 DEF Fields
  <2>2. CASE d.start
    <3> DEFINE u == [t EXCEPT !.limit = f.limit]
    <3>1. u \in Table /\ u.size = Weight(u.entries)
      BY <1>1, <2>1 DEF GoodTable, Table
    <3>2. ReadField(d, f) = [d EXCEPT !.table = Gc(u)]
      BY <1>8, <2>2 DEF ReadField
    <3> HIDE DEF u
    <3>3. GoodTable(Gc(u)) /\ Gc(u) \in Table
      BY <3>1, GcIsGood DEF GoodTable
    <3> QED
      BY <1>1, <3>2, <3>3 DEF GoodReader
  <2>3. CASE ~d.start
    BY <1>4, <1>8, <2>3 DEF ReadField
  <2> QED
    BY <2>2, <2>3
<1>9. f.op \in {"indexed", "literal", "limit"}
  BY DEF Fields
<1> QED
  BY <1>5, <1>6, <1>7, <1>8, <1>9

LEMMA BlockKeepsReader ==
  ASSUME NEW t, GoodTable(t), NEW fields \in Seq(Fields)
  PROVE  GoodReader(Reading(t, fields)[Len(fields)])
<1> DEFINE d == Reading(t, fields)
           n == Len(fields)
           S == {i \in 0 .. n : GoodReader(d[i])}
<1>1. n \in Nat /\ \A i \in 1 .. n : fields[i] \in Fields
  OBVIOUS
<1>2. /\ d[0] = [table |-> t, list |-> <<>>, start |-> TRUE, failed |-> FALSE]
      /\ \A i \in 1 .. n : d[i] = ReadField(d[i - 1], fields[i])
  BY ReadingRounds
<1> HIDE DEF d, n
<1>3. 0 \in S
  <2>1. t \in Table /\ <<>> \in Seq(Entries)
    BY DEF GoodTable
  <2>2. GoodReader(d[0])
    BY <1>2, <2>1 DEF GoodReader
  <2> QED
    BY <1>1, <2>2
<1>4. ASSUME NEW i \in 1 .. n, i - 1 \in S PROVE i \in S
  BY <1>1, <1>2, <1>4, FieldKeepsReader
<1>5. \A i \in 0 .. n : i \in S
  <2> HIDE DEF S
  <2> QED
    BY <1>1, <1>3, <1>4, CountUp
<1>6. n \in S
  BY <1>1, <1>5
<1> QED
  BY <1>6 DEF d, n

\* The tables and the fields while a list of headers is encoded.
LEMMA BlockIsWritten ==
  ASSUME NEW t, GoodTable(t), NEW headers \in Seq(Headers)
  PROVE  \A i \in 0 .. Len(headers) :
           LET e == Writing(t, headers)
           IN  /\ e[i] = [table |-> e[i].table, fields |-> e[i].fields]
               /\ GoodTable(e[i].table)
               /\ e[i].fields \in Seq(Fields)
               /\ Len(e[i].fields) = i
               /\ \A j \in 1 .. i :
                    /\ e[i].fields[j] = Written(e[j - 1].table, headers[j])
                    /\ e[j].table = After(e[j - 1].table, headers[j])
<1> DEFINE e == Writing(t, headers)
           n == Len(headers)
           Good(i) == /\ e[i] = [table |-> e[i].table, fields |-> e[i].fields]
                      /\ GoodTable(e[i].table)
                      /\ e[i].fields \in Seq(Fields)
                      /\ Len(e[i].fields) = i
                      /\ \A j \in 1 .. i :
                           /\ e[i].fields[j] = Written(e[j - 1].table, headers[j])
                           /\ e[j].table = After(e[j - 1].table, headers[j])
           S == {i \in 0 .. n : Good(i)}
<1>1. n \in Nat /\ \A i \in 1 .. n : headers[i] \in Headers
  OBVIOUS
<1>2. /\ e[0] = [table |-> t, fields |-> <<>>]
      /\ \A i \in 1 .. n : e[i] = WriteHeader(e[i - 1], headers[i])
  BY WritingRounds
<1> HIDE DEF e, n
<1>3. Good(0)
  BY <1>2
<1>4. ASSUME NEW i \in 1 .. n, Good(i - 1) PROVE Good(i)
  <2> DEFINE u == e[i - 1].table
             fs == e[i - 1].fields
             h == headers[i]
             f == Written(u, h)
  <2>1. /\ GoodTable(u) /\ fs \in Seq(Fields) /\ Len(fs) = i - 1 /\ h \in Headers
        /\ e[i - 1] = [table |-> u, fields |-> fs]
    BY <1>1, <1>4
  <2>2. e[i] = WriteHeader([table |-> u, fields |-> fs], h)
    BY <1>2, <2>1
  <2>3. f \in Fields /\ GoodTable(After(u, h))
    BY <2>1, WrittenType
  <2>4. e[i] = [table |-> After(u, h), fields |-> Append(fs, f)]
    <3> HIDE DEF u, fs, h
    <3> QED
      BY <2>1, <2>2, HeaderIsWritten DEF f
  <2>5. /\ Append(fs, f) \in Seq(Fields) /\ Len(Append(fs, f)) = i
        /\ (\A j \in 1 .. i - 1 : Append(fs, f)[j] = fs[j])
        /\ Append(fs, f)[i] = f
    <3> HIDE DEF fs, f
    <3>1. /\ Append(fs, f) \in Seq(Fields) /\ Len(Append(fs, f)) = Len(fs) + 1
          /\ (\A j \in 1 .. Len(fs) : Append(fs, f)[j] = fs[j])
          /\ Append(fs, f)[Len(fs) + 1] = f
      BY <2>1, <2>3, AppendProperties
    <3> QED
      BY <2>1, <3>1
  <2> DEFINE v == Append(fs, f)
  <2>6. /\ e[i].table = After(u, h) /\ e[i].fields = v
        /\ e[i] = [table |-> e[i].table, fields |-> e[i].fields]
    BY <2>4
  <2>7. ASSUME NEW j \in 1 .. i
        PROVE  /\ v[j] = Written(e[j - 1].table, headers[j])
               /\ e[j].table = After(e[j - 1].table, headers[j])
    <3>1. CASE j = i
      BY <2>5, <2>6, <3>1
    <3>2. CASE j # i
      <4>1. j \in 1 .. i - 1
        BY <3>2
      <4>2. v[j] = fs[j]
        BY <2>5, <4>1
      <4>3. /\ fs[j] = Written(e[j - 1].table, headers[j])
            /\ e[j].table = After(e[j - 1].table, headers[j])
        BY <1>4, <4>1
      <4> QED
        BY <4>2, <4>3
    <3> QED
      BY <3>1, <3>2
  <2> HIDE DEF u, h, v
  <2> QED
    BY <2>3, <2>5, <2>6, <2>7 DEF v
<1>5. \A i \in 0 .. n : Good(i)
  <2>1. 0 \in S
    BY <1>1, <1>3
  <2>2. ASSUME NEW i \in 1 .. n, i - 1 \in S PROVE i \in S
    <3>1. Good(i - 1)
      BY <2>2
    <3> HIDE DEF Good
    <3> QED
      BY <1>4, <3>1
  <2>3. \A i \in 0 .. n : i \in S
    <3> HIDE DEF S
    <3> QED
      BY <1>1, <2>1, <2>2, CountUp
  <2> HIDE DEF Good
  <2> QED
    BY <2>3
<1> QED
  BY <1>5 DEF e, n

\* The list of a block's headers.
ListOf(headers, i) == [j \in 1 .. i |-> PairOf(headers[j])]

\* Reading a block with the table it was written with gives the headers and the table
\* that the encoder had after it.
LEMMA WritingIsRead ==
  ASSUME NEW t, GoodTable(t), NEW headers \in Seq(Headers),
         NEW e, e = Writing(t, headers)[Len(headers)]
  PROVE  /\ GoodTable(e.table)
         /\ e.fields \in Seq(Fields)
         /\ Reading(t, e.fields)[Len(e.fields)] =
              [table |-> e.table, list |-> ListOf(headers, Len(headers)),
               start |-> (Len(headers) = 0), failed |-> FALSE]
<1> DEFINE w == Writing(t, headers)
           n == Len(headers)
           fields == e.fields
           d == Reading(t, fields)
           Good(i) == d[i] = [table |-> w[i].table, list |-> ListOf(headers, i),
                              start |-> (i = 0), failed |-> FALSE]
           S == {i \in 0 .. n : Good(i)}
<1>1. n \in Nat /\ \A i \in 1 .. n : headers[i] \in Headers
  OBVIOUS
<1>2. /\ \A i \in 0 .. n : GoodTable(w[i].table)
      /\ fields \in Seq(Fields) /\ Len(fields) = n
      /\ \A i \in 1 .. n : /\ fields[i] = Written(w[i - 1].table, headers[i])
                           /\ w[i].table = After(w[i - 1].table, headers[i])
  <2>1. \A i \in 0 .. n :
          /\ GoodTable(w[i].table)
          /\ w[i].fields \in Seq(Fields) /\ Len(w[i].fields) = i
          /\ \A j \in 1 .. i : /\ w[i].fields[j] = Written(w[j - 1].table, headers[j])
                              /\ w[j].table = After(w[j - 1].table, headers[j])
    BY BlockIsWritten
  <2>2. n \in 0 .. n /\ fields = w[n].fields
    BY <1>1
  <2> HIDE DEF w, n, fields
  <2> QED
    BY <2>1, <2>2
<1>3. /\ d[0] = [table |-> t, list |-> <<>>, start |-> TRUE, failed |-> FALSE]
      /\ \A i \in 1 .. n : d[i] = ReadField(d[i - 1], fields[i])
  BY <1>2, ReadingRounds
<1>4. w[0].table = t
  <2>1. w[0] = [table |-> t, fields |-> <<>>]
    BY WritingRounds
  <2> QED
    BY <2>1
<1>5. e = w[n]
  OBVIOUS
<1> HIDE DEF w, n, d
<1>6. Good(0)
  <2>1. ListOf(headers, 0) = <<>>
    BY DEF ListOf
  <2> QED
    BY <1>3, <1>4, <2>1
<1>7. ASSUME NEW i \in 1 .. n, Good(i - 1) PROVE Good(i)
  <2> DEFINE u == w[i - 1].table
             list == ListOf(headers, i - 1)
             h == headers[i]
             start == (i - 1 = 0)
  <2>1. GoodTable(u) /\ h \in Headers
    BY <1>1, <1>2
  <2>2. d[i] = ReadField([table |-> u, list |-> list, start |-> start, failed |-> FALSE],
                         Written(u, h))
    BY <1>2, <1>3, <1>7
  <2>3. Append(list, PairOf(h)) = ListOf(headers, i)
    <3> DEFINE p(j) == PairOf(headers[j])
    <3>1. \A j \in 1 .. i : p(j) \in Pairs
      BY <1>1, WrittenType DEF Headers, PairOf, Pairs
    <3>2. /\ list = [j \in 1 .. i - 1 |-> p(j)] /\ ListOf(headers, i) = [j \in 1 .. i |-> p(j)]
          /\ PairOf(h) = p(i)
      BY DEF ListOf
    <3> HIDE DEF p, list, h
    <3> QED
      BY <3>1, <3>2
  <2> HIDE DEF u, h, list, start
  <2>4. d[i] = [table |-> After(u, h), list |-> Append(list, PairOf(h)), start |-> FALSE,
                failed |-> FALSE]
    BY <2>1, <2>2, HeaderIsRead
  <2>5. w[i].table = After(u, h) /\ (i = 0) = FALSE
    BY <1>2 DEF u, h
  <2> QED
    BY <2>3, <2>4, <2>5
<1>8. \A i \in 0 .. n : i \in S
  <2>1. 0 \in S
    BY <1>1, <1>6
  <2>2. ASSUME NEW i \in 1 .. n, i - 1 \in S PROVE i \in S
    BY <1>7, <2>2
  <2> HIDE DEF S
  <2> QED
    BY <1>1, <2>1, <2>2, CountUp
<1>9. Good(n)
  BY <1>1, <1>8
<1> QED
  BY <1>1, <1>2, <1>5, <1>9 DEF n, d
-----------------------------------------------------------------------------
(* The inductive invariant.                                                *)

\* Where the decoder stands after a block that it reads with a table.
ReadBlock(t, fields) == Reading(t, fields)[Len(fields)]

\* The tables fit, the decoder's whoever its peer is.
TablesGood == GoodTable(enc) /\ GoodTable(dec)

\* A foreign peer has no encoder of this program.
NoneUnderway == foreign => wire = <<>>

\* A table for each place between the blocks underway.
Chain(ts, w, first, last) ==
  /\ ts \in [0 .. Len(w) -> Table]
  /\ ts[0] = first
  /\ ts[Len(w)] = last
  /\ \A i \in 1 .. Len(w) :
       /\ ReadBlock(ts[i - 1], w[i].fields).table = ts[i]
       /\ ReadBlock(ts[i - 1], w[i].fields).list = w[i].list
       /\ ~ReadBlock(ts[i - 1], w[i].fields).failed

Chained == ~foreign => ~failed /\ \E ts : Chain(ts, wire, dec, enc)

IInv == TypeOK /\ TablesGood /\ NoneUnderway /\ Chained

Blocks == [fields : Seq(Fields), list : Seq(Pairs)]

LEMMA Initially == Init => IInv
<1> SUFFICES ASSUME Init PROVE IInv
  OBVIOUS
<1>1. GoodTable(EmptyTable)
  <2>1. EmptyTable \in Table /\ EmptyTable.size = 0 /\ EmptyTable.entries = <<>>
    BY ConstantsAssumption DEF EmptyTable, Table
  <2>2. Weight(<<>>) = 0
    <3>1. [i \in DOMAIN <<>> |-> Size[<<>>[i]]] = <<>>
      OBVIOUS
    <3> QED
      BY <3>1, SumEmpty DEF Weight
  <2>3. 0 <= EmptyTable.limit
    BY ConstantsAssumption DEF EmptyTable
  <2> QED
    BY <2>1, <2>2, <2>3 DEF GoodTable
<1>2. EmptyTable \in Table
  BY <1>1 DEF GoodTable
<1>3. TypeOK
  <2>1. wire \in Seq(Blocks) /\ out \in Seq(Entries)
    BY DEF Init
  <2> QED
    BY <1>2, <2>1 DEF Init, TypeOK, Blocks, Entries
<1>4. Chained
  <2> DEFINE ts == [i \in 0 .. 0 |-> EmptyTable]
  <2>1. Chain(ts, <<>>, EmptyTable, EmptyTable)
    BY <1>2 DEF Chain
  <2> HIDE DEF ts
  <2> QED
    BY <2>1 DEF Chained, Init
<1> QED
  BY <1>1, <1>3, <1>4 DEF IInv, TablesGood, NoneUnderway, Init

LEMMA ReadKeeps ==
  ASSUME IInv, NEW fields \in Seq(Fields), Read(fields)
  PROVE  GoodTable(dec') /\ out' \in Seq(Entries) /\ failed' \in BOOLEAN
<1> DEFINE d == ReadBlock(dec, fields)
<1>1. GoodReader(d)
  BY BlockKeepsReader DEF IInv, TablesGood, ReadBlock
<1>2. dec' = d.table /\ failed' = d.failed /\ out' = IF d.failed THEN out ELSE d.list
  BY DEF Read, ReadBlock
<1>3. out \in Seq(Entries)
  BY DEF IInv, TypeOK, Entries
<1> HIDE DEF d
<1> QED
  BY <1>1, <1>2, <1>3 DEF GoodReader

LEMMA HeaderListType ==
  ASSUME NEW headers \in HeaderLists
  PROVE  /\ headers \in Seq(Headers)
         /\ Len(headers) \in 0 .. MaxHeaders
         /\ DOMAIN headers = 1 .. Len(headers)
         /\ ListOf(headers, Len(headers)) = [i \in DOMAIN headers |-> PairOf(headers[i])]
         /\ ListOf(headers, Len(headers)) \in [1 .. Len(headers) -> Pairs]
         /\ ListOf(headers, Len(headers)) \in Seq(Pairs)
<1>1. PICK n \in 0 .. MaxHeaders : headers \in [1 .. n -> Headers]
  BY DEF HeaderLists
<1>2. n \in Nat
  BY ConstantsAssumption
<1>3. headers \in Seq(Headers) /\ Len(headers) = n /\ DOMAIN headers = 1 .. n
  BY <1>1, <1>2
<1>4. \A i \in 1 .. n : PairOf(headers[i]) \in Pairs
  BY <1>1 DEF Headers, PairOf, Pairs
<1>5. /\ ListOf(headers, n) = [i \in 1 .. n |-> PairOf(headers[i])]
      /\ ListOf(headers, n) \in [1 .. n -> Pairs]
  BY <1>4 DEF ListOf
<1>6. ListOf(headers, n) \in Seq(Pairs)
  <2> HIDE DEF ListOf
  <2> QED
    BY <1>2, <1>5
<1> QED
  BY <1>3, <1>5, <1>6

\* A block that is written extends the chain.
LEMMA EncodeKeeps ==
  ASSUME IInv, NEW headers \in HeaderLists, Encode(headers)
  PROVE  IInv'
<1> DEFINE e == Writing(enc, headers)[Len(headers)]
           list == ListOf(headers, Len(headers))
           b == [fields |-> e.fields, list |-> list]
           m == Len(wire)
<1>1. headers \in Seq(Headers) /\ list \in Seq(Pairs)
  BY HeaderListType
<1>2. /\ ~foreign /\ enc' = e.table /\ wire' = Append(wire, b)
      /\ dec' = dec /\ out' = out /\ failed' = failed /\ foreign' = foreign
  BY HeaderListType DEF Encode
<1>3. /\ GoodTable(e.table) /\ e.fields \in Seq(Fields)
      /\ ReadBlock(enc, e.fields) =
           [table |-> e.table, list |-> list, start |-> (Len(headers) = 0), failed |-> FALSE]
  BY <1>1, WritingIsRead DEF IInv, TablesGood, ReadBlock
<1>4. wire \in Seq(Blocks) /\ m \in Nat
  BY DEF IInv, TypeOK, Blocks
<1> HIDE DEF e, list
<1>5. b \in Blocks /\ b.fields = e.fields /\ b.list = list
  BY <1>1, <1>3 DEF Blocks
<1> HIDE DEF b
<1>6. /\ Append(wire, b) \in Seq(Blocks) /\ Len(Append(wire, b)) = m + 1
      /\ \A i \in 1 .. m : Append(wire, b)[i] = wire[i]
      /\ Append(wire, b)[m + 1] = b
  BY <1>4, <1>5, AppendProperties
<1>7. TypeOK'
  BY <1>2, <1>3, <1>6 DEF IInv, TypeOK, Blocks, GoodTable
<1>8. TablesGood'
  BY <1>2, <1>3 DEF IInv, TablesGood
<1>9. Chained'
  <2>1. PICK ts : Chain(ts, wire, dec, enc)
    BY <1>2 DEF IInv, Chained
  <2> DEFINE us == [i \in 0 .. m + 1 |-> IF i = m + 1 THEN e.table ELSE ts[i]]
  <2>2. e.table \in Table
    BY <1>3 DEF GoodTable
  <2>3. /\ us \in [0 .. m + 1 -> Table]
        /\ us[m + 1] = e.table
        /\ \A i \in 0 .. m : us[i] = ts[i]
    BY <1>4, <2>1, <2>2 DEF Chain
  <2> HIDE DEF us
  <2>4. us[0] = dec /\ us[m] = enc
    BY <1>4, <2>1, <2>3 DEF Chain
  <2>5. ASSUME NEW i \in 1 .. m + 1
        PROVE  LET d == ReadBlock(us[i - 1], Append(wire, b)[i].fields)
               IN  d.table = us[i] /\ d.list = Append(wire, b)[i].list /\ ~d.failed
    <3>1. CASE i = m + 1
      <4>1. us[i - 1] = enc /\ Append(wire, b)[i] = b /\ us[i] = e.table
        BY <1>4, <1>6, <2>3, <2>4, <3>1
      <4> QED
        BY <1>3, <1>5, <4>1
    <3>2. CASE i # m + 1
      <4>1. i \in 1 .. m /\ i - 1 \in 0 .. m /\ i \in 0 .. m
        BY <1>4, <3>2
      <4>2. us[i - 1] = ts[i - 1] /\ us[i] = ts[i] /\ Append(wire, b)[i] = wire[i]
        BY <1>6, <2>3, <4>1
      <4> QED
        BY <2>1, <4>1, <4>2 DEF Chain
    <3> QED
      BY <3>1, <3>2
  <2>6. Chain(us, Append(wire, b), dec, e.table)
    BY <1>6, <2>3, <2>4, <2>5 DEF Chain
  <2>7. ~failed
    BY <1>2 DEF IInv, Chained
  <2> QED
    BY <1>2, <2>6, <2>7 DEF Chained
<1> QED
  BY <1>2, <1>7, <1>8, <1>9 DEF IInv, NoneUnderway

\* What the decoder reads while a block of this program is underway.
LEMMA NextIsRead ==
  ASSUME IInv, Decode
  PROVE  /\ ~foreign /\ ~failed'
         /\ out' = wire[1].list
         /\ \E ts : Chain(ts, Tail(wire), dec', enc)
<1> DEFINE w == wire
           m == Len(w)
           d == ReadBlock(dec, w[1].fields)
<1>1. w \in Seq(Blocks) /\ w # <<>> /\ m \in Nat \ {0} /\ Head(w) = w[1]
  BY DEF Decode, IInv, TypeOK, Blocks
<1>2. ~foreign
  BY <1>1 DEF IInv, NoneUnderway
<1>3. PICK ts : Chain(ts, w, dec, enc)
  BY <1>2 DEF IInv, Chained
<1>4. dec' = d.table /\ failed' = d.failed /\ out' = IF d.failed THEN out ELSE d.list
  BY <1>1 DEF Decode, Read, ReadBlock
<1>5. d.table = ts[1] /\ d.list = w[1].list /\ ~d.failed
  BY <1>1, <1>3 DEF Chain
<1> DEFINE v == Tail(w)
           us == [i \in 0 .. m - 1 |-> ts[i + 1]]
<1>6. v \in Seq(Blocks) /\ Len(v) = m - 1 /\ \A i \in 1 .. m - 1 : v[i] = w[i + 1]
  BY <1>1, HeadTailProperties
<1>7. /\ us \in [0 .. m - 1 -> Table] /\ us[0] = ts[1] /\ us[m - 1] = enc
      /\ \A i \in 0 .. m - 1 : us[i] = ts[i + 1]
  BY <1>1, <1>3 DEF Chain
<1> HIDE DEF us, v
<1>8. ASSUME NEW i \in 1 .. m - 1
      PROVE  LET c == ReadBlock(us[i - 1], v[i].fields)
             IN  c.table = us[i] /\ c.list = v[i].list /\ ~c.failed
  <2>1. i + 1 \in 1 .. m /\ i - 1 \in 0 .. m - 1 /\ i \in 0 .. m - 1 /\ i + 1 - 1 = i
        /\ i - 1 + 1 = i
    BY <1>1
  <2>2. us[i - 1] = ts[i] /\ us[i] = ts[i + 1] /\ v[i] = w[i + 1]
    BY <1>6, <1>7, <2>1
  <2>3. LET c == ReadBlock(ts[i], w[i + 1].fields)
        IN  c.table = ts[i + 1] /\ c.list = w[i + 1].list /\ ~c.failed
    BY <1>3, <2>1 DEF Chain
  <2> QED
    BY <2>2, <2>3
<1>9. Chain(us, v, dec', enc)
  <2>1. dec' = ts[1]
    BY <1>4, <1>5
  <2> QED
    BY <1>6, <1>7, <1>8, <2>1 DEF Chain
<1> QED
  BY <1>2, <1>4, <1>5, <1>9 DEF v

\* A block that is read shortens the chain.
LEMMA DecodeKeeps ==
  ASSUME IInv, Decode
  PROVE  IInv'
<1>1. wire \in Seq(Blocks) /\ wire # <<>>
  BY DEF Decode, IInv, TypeOK, Blocks
<1>2. Head(wire) \in Blocks /\ Tail(wire) \in Seq(Blocks)
  BY <1>1, HeadTailProperties
<1>3. Head(wire).fields \in Seq(Fields)
  BY <1>2 DEF Blocks
<1>4. GoodTable(dec') /\ out' \in Seq(Entries) /\ failed' \in BOOLEAN
  BY <1>3, ReadKeeps DEF Decode
<1>5. enc' = enc /\ foreign' = foreign /\ wire' = Tail(wire)
  BY DEF Decode
<1>6. TypeOK'
  BY <1>2, <1>4, <1>5 DEF IInv, TypeOK, Blocks, GoodTable, Entries
<1>7. TablesGood'
  BY <1>4, <1>5 DEF IInv, TablesGood
<1>8. ~foreign /\ ~failed' /\ \E ts : Chain(ts, Tail(wire), dec', enc)
  BY NextIsRead
<1> QED
  BY <1>5, <1>6, <1>7, <1>8 DEF IInv, NoneUnderway, Chained

LEMMA ForeignType ==
  ASSUME NEW n \in 0 .. MaxHeaders, NEW fields \in [1 .. n -> ForeignFields]
  PROVE  fields \in Seq(Fields)
<1>1. n \in Nat
  BY ConstantsAssumption
<1>2. ForeignFields \subseteq Fields
  <2>1. 0 .. Len(Static) + 2 \subseteq Nat /\ 0 .. Limit + 1 \subseteq Nat
    BY ConstantsAssumption, StaticType
  <2> QED
    BY <2>1, ConstantsAssumption DEF ForeignFields, Fields
<1> QED
  BY <1>1, <1>2

LEMMA ForeignKeeps ==
  ASSUME IInv, NEW fields \in Seq(Fields), ForeignBlock(fields)
  PROVE  IInv'
<1>1. GoodTable(dec') /\ out' \in Seq(Entries) /\ failed' \in BOOLEAN
  BY ReadKeeps DEF ForeignBlock
<1>2. foreign /\ enc' = enc /\ wire' = wire /\ foreign' = foreign
  BY DEF ForeignBlock
<1>3. TypeOK'
  BY <1>1, <1>2 DEF IInv, TypeOK, GoodTable, Entries
<1> QED
  BY <1>1, <1>2, <1>3 DEF IInv, TablesGood, NoneUnderway, Chained

LEMMA StutterKeeps == ASSUME IInv, UNCHANGED vars PROVE IInv'
<1> USE DEF vars
<1>1. TypeOK'
  BY DEF IInv, TypeOK
<1>2. TablesGood'
  BY DEF IInv, TablesGood
<1>3. NoneUnderway' /\ Chained'
  BY DEF IInv, NoneUnderway, Chained
<1> QED
  BY <1>1, <1>2, <1>3 DEF IInv

LEMMA Inductive == IInv /\ [Next]_vars => IInv'
<1> SUFFICES ASSUME IInv, [Next]_vars PROVE IInv'
  OBVIOUS
<1>1. CASE Decode
  BY <1>1, DecodeKeeps
<1>2. ASSUME NEW headers \in HeaderLists, Encode(headers) PROVE IInv'
  BY <1>2, EncodeKeeps
<1>3. ASSUME NEW n \in 0 .. MaxHeaders, NEW fields \in [1 .. n -> ForeignFields],
             ForeignBlock(fields)
      PROVE  IInv'
  BY <1>3, ForeignType, ForeignKeeps
<1>4. CASE UNCHANGED vars
  BY <1>4, StutterKeeps
<1> QED
  BY <1>1, <1>2, <1>3, <1>4 DEF Next

LEMMA Invariance == Spec => []IInv
BY Initially, Inductive, PTL DEF Spec
-----------------------------------------------------------------------------
(* The theorems.                                                           *)

\* The tables, the blocks and the lists that are decoded have their types.
THEOREM TypeCorrect == Spec => []TypeOK
<1>1. IInv => TypeOK
  BY DEF IInv
<1> QED
  BY <1>1, Invariance, PTL

\* Whatever the peer sends, neither table exceeds its limit, and the size by which
\* entries are evicted is that of the entries that are left (_gc_dynamic_table).
THEOREM TablesFit == Spec => []TableFits
<1>1. IInv => TableFits
  BY DEF IInv, TablesGood, GoodTable, TableFits
<1> QED
  BY <1>1, Invariance, PTL

\* Between two ends of this program the tables are the same whenever no block is
\* underway, and no block was refused.
THEOREM TablesAgreeAgain == Spec => []TablesAgree
<1>1. IInv => TablesAgree
  <2> SUFFICES ASSUME IInv, ~foreign, wire = <<>> PROVE dec = enc /\ ~failed
    BY DEF TablesAgree
  <2>1. PICK ts : Chain(ts, wire, dec, enc)
    BY DEF IInv, Chained
  <2>2. Len(wire) = 0
    OBVIOUS
  <2> QED
    BY <2>1, <2>2 DEF IInv, Chained, Chain
<1> QED
  BY <1>1, Invariance, PTL

\* The lists underway and delivered, as HeaderPipe sees them.
Underway == [i \in DOMAIN wire |-> wire[i].list]
Delivered == IF foreign THEN <<>> ELSE out
PairLists == UNION {[1 .. n -> Pairs] : n \in 0 .. MaxHeaders}

LEMMA PipeInitially == Init => Pipe!Init
<1> SUFFICES ASSUME Init PROVE Pipe!Init
  OBVIOUS
<1>1. wire = <<>> /\ out = <<>>
  BY DEF Init
<1>2. [i \in DOMAIN wire |-> wire[i].list] = <<>>
  BY <1>1
<1> QED
  BY <1>1, <1>2 DEF Pipe!Init

LEMMA PipeStep == IInv /\ [Next]_vars => [Pipe!Send \/ Pipe!Deliver]_<<Underway, Delivered>>
<1> SUFFICES ASSUME IInv, [Next]_vars
             PROVE  \/ Pipe!Send \/ Pipe!Deliver
                    \/ Underway' = Underway /\ Delivered' = Delivered
  OBVIOUS
<1>1. CASE Decode
  <2> DEFINE w == wire
             m == Len(w)
             v == Tail(w)
  <2>1. w \in Seq(Blocks) /\ w # <<>> /\ m \in Nat \ {0} /\ DOMAIN w = 1 .. m
    BY <1>1 DEF Decode, IInv, TypeOK, Blocks
  <2>2. /\ v \in Seq(Blocks) /\ Len(v) = m - 1 /\ DOMAIN v = 1 .. m - 1
        /\ \A i \in 1 .. m - 1 : v[i] = w[i + 1]
    BY <2>1, HeadTailProperties
  <2>3. ~foreign /\ out' = w[1].list /\ wire' = v /\ foreign' = foreign
    BY <1>1, NextIsRead DEF Decode
  <2>4. \A i \in 1 .. m : w[i].list \in Seq(Pairs)
    <3>1. \A i \in 1 .. m : w[i] \in Blocks
      BY <2>1, ElementOfSeq
    <3> QED
      BY <3>1 DEF Blocks
  <2> DEFINE l(i) == w[i].list
             u == [i \in 1 .. m |-> l(i)]
  <2>5. Underway = u /\ Underway' = [i \in 1 .. m - 1 |-> l(i + 1)]
    BY <2>1, <2>2, <2>3 DEF Underway
  <2>6. u \in Seq(Seq(Pairs)) /\ u # <<>> /\ Head(u) = l(1)
        /\ Tail(u) = [i \in 1 .. m - 1 |-> l(i + 1)]
    <3>1. \A i \in 1 .. m : l(i) \in Seq(Pairs)
      BY <2>4
    <3> HIDE DEF l, m
    <3>2. u \in Seq(Seq(Pairs)) /\ Len(u) = m /\ u # <<>> /\ u[1] = l(1)
      <4>1. m \in Nat
        BY <2>1
      <4>2. u \in Seq(Seq(Pairs))
        BY <3>1, <4>1, IsASeq
      <4>3. DOMAIN u = 1 .. m /\ u[1] = l(1) /\ 1 \in DOMAIN u
        BY <2>1
      <4>4. Len(u) = m
        BY <4>1, <4>2, <4>3, LenProperties
      <4> QED
        BY <2>1, <4>2, <4>3, <4>4
    <3>3. Head(u) = u[1]
      BY <3>2
    <3>4. Tail(u) = [i \in 1 .. m - 1 |-> u[i + 1]]
      BY <2>1, <3>2
    <3>5. \A i \in 1 .. m - 1 : u[i + 1] = l(i + 1)
      BY <2>1
    <3> HIDE DEF u
    <3> QED
      BY <3>2, <3>3, <3>4, <3>5
  <2>7. Delivered' = l(1)
    BY <2>3 DEF Delivered
  <2> HIDE DEF u, l, m, v
  <2>8. Underway # <<>> /\ Delivered' = Head(Underway) /\ Underway' = Tail(Underway)
    BY <2>5, <2>6, <2>7
  <2> QED
    BY <2>8 DEF Pipe!Deliver, Underway, Delivered
<1>2. ASSUME NEW headers \in HeaderLists, Encode(headers) PROVE Pipe!Send
  <2> DEFINE e == Writing(enc, headers)[Len(headers)]
             list == ListOf(headers, Len(headers))
             b == [fields |-> e.fields, list |-> list]
             m == Len(wire)
             v == Append(wire, b)
  <2>1. list \in PairLists /\ list \in Seq(Pairs)
    BY HeaderListType DEF PairLists
  <2>2. wire' = v /\ foreign' = foreign /\ out' = out
    BY <1>2, HeaderListType DEF Encode
  <2>3. wire \in Seq(Blocks) /\ m \in Nat /\ DOMAIN wire = 1 .. m
    BY DEF IInv, TypeOK, Blocks
  <2>4. e.fields \in Seq(Fields)
    BY HeaderListType, WritingIsRead DEF IInv, TablesGood
  <2> HIDE DEF e, list
  <2>5. b \in Blocks /\ b.list = list
    BY <2>1, <2>4 DEF Blocks
  <2> HIDE DEF b
  <2>6. /\ DOMAIN v = 1 .. m + 1 /\ v[m + 1] = b
        /\ \A i \in 1 .. m : v[i] = wire[i]
    BY <2>3, <2>5
  <2> HIDE DEF v
  <2> DEFINE l(i) == wire[i].list
             u == [i \in 1 .. m |-> l(i)]
  <2>7. \A i \in 1 .. m : l(i) \in Seq(Pairs)
    <3>1. \A i \in 1 .. m : wire[i] \in Blocks
      BY <2>3, ElementOfSeq
    <3> QED
      BY <3>1 DEF Blocks
  <2>8. /\ Underway = u
        /\ Underway' = [i \in 1 .. m + 1 |-> IF i = m + 1 THEN list ELSE l(i)]
    BY <2>2, <2>3, <2>5, <2>6 DEF Underway
  <2>9. Append(u, list) = [i \in 1 .. m + 1 |-> IF i = m + 1 THEN list ELSE l(i)]
    <3> HIDE DEF l, m
    <3> QED
      BY <2>1, <2>3, <2>7 DEF m
  <2> HIDE DEF u, l, m
  <2>10. Underway' = Append(Underway, list) /\ Delivered' = Delivered
    BY <2>2, <2>8, <2>9 DEF Delivered
  <2> QED
    BY <2>1, <2>10 DEF Pipe!Send, Underway, Delivered, PairLists
<1>3. ASSUME NEW n \in 0 .. MaxHeaders, NEW fields \in [1 .. n -> ForeignFields],
             ForeignBlock(fields)
      PROVE  Underway' = Underway /\ Delivered' = Delivered
  BY <1>3 DEF ForeignBlock, Underway, Delivered
<1>4. CASE UNCHANGED vars
  BY <1>4 DEF vars, Underway, Delivered
<1> QED
  BY <1>1, <1>2, <1>3, <1>4 DEF Next

\* Header lists come out of the decoder as they went into the encoder, all of them and
\* in order, however many blocks lie between the two.
THEOREM Implementation == Spec => ImplementsHeaderPipe
<1>1. Init => Pipe!Init
  BY PipeInitially
<1>2. IInv /\ [Next]_vars => [Pipe!Send \/ Pipe!Deliver]_<<Underway, Delivered>>
  BY PipeStep
<1> QED
  BY <1>1, <1>2, Invariance, PTL
     DEF Spec, ImplementsHeaderPipe, Pipe!Spec, Underway, Delivered
=============================================================================

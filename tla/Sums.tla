-------------------------------- MODULE Sums --------------------------------
(***************************************************************************)
(* Lemmas about SumFunction, the sum of the values of a function, of the    *)
(* community module Functions.                                             *)
(***************************************************************************)
EXTENDS Integers, FiniteSets, SequencesExt, FiniteSetTheorems, SequenceTheorems,
        WellFoundedInduction, TLAPS

\* The element that a fold takes from a set first.
Pick(s) == CHOOSE x \in s : TRUE

\* g[T] is the sum of f over T, for each subset T of S.
IsSum(f, S, g) ==
  g = [T \in SUBSET S |-> IF T = {} THEN 0 ELSE f[Pick(T)] + g[T \ {Pick(T)}]]

LEMMA PickIn == ASSUME NEW s, s # {} PROVE Pick(s) \in s
BY DEF Pick

LEMMA SumIsFold ==
  ASSUME NEW f, NEW S
  PROVE  SumFunctionOnSet(f, S) = (CHOOSE g : IsSum(f, S, g))[S]
BY DEF SumFunctionOnSet, FoldFunctionOnSet, MapThenFoldSet, IsSum, Pick

\* A set of subsets of a finite set has a least one.
LEMMA FiniteMin ==
  ASSUME NEW S, IsFiniteSet(S), NEW Bad \in SUBSET SUBSET S, Bad # {}
  PROVE  \E T \in Bad : \A U \in Bad : U \subseteq T => U = T
<1>1. Bad \subseteq FiniteSubsetsOf(S)
  BY FS_Subset DEF FiniteSubsetsOf
<1>2. PICK T \in Bad : \A U \in Bad : <<U, T>> \notin StrictSubsetOrdering(S)
  BY <1>1, FS_StrictSubsetOrderingWellFounded, WFMin
<1> QED
  BY <1>2 DEF StrictSubsetOrdering

\* The sums over the subsets of a set are those over the subsets of a larger one.
LEMMA SumIsUnique ==
  ASSUME NEW f, NEW S, IsFiniteSet(S), NEW T \in SUBSET S,
         NEW g, IsSum(f, S, g), NEW h, IsSum(f, T, h), NEW U \in SUBSET T
  PROVE  g[U] = h[U]
<1> DEFINE Bad == {V \in SUBSET T : g[V] # h[V]}
<1> SUFFICES ASSUME Bad # {} PROVE FALSE
  OBVIOUS
<1>1. IsFiniteSet(T)
  BY FS_Subset
<1> Bad \in SUBSET SUBSET T
  OBVIOUS
<1> HIDE DEF Bad
<1>2. PICK V \in Bad : \A W \in Bad : W \subseteq V => W = V
  BY FiniteMin
<1> USE DEF Bad
<1>3. V # {}
  BY <1>2 DEF IsSum
<1> DEFINE W == V \ {Pick(V)}
<1>4. W \in SUBSET T /\ W \subseteq V /\ W # V
  BY <1>3, PickIn
<1>5. g[W] = h[W]
  BY <1>2, <1>4
<1>6. V \in SUBSET S /\ V \in SUBSET T
  OBVIOUS
<1>7. g[V] = f[Pick(V)] + g[W] /\ h[V] = f[Pick(V)] + h[W]
  BY <1>3, <1>6 DEF IsSum
<1> QED
  BY <1>5, <1>7

LEMMA SumExists ==
  ASSUME NEW f, NEW S, IsFiniteSet(S)
  PROVE  \E g : IsSum(f, S, g)
<1> DEFINE Bad == {T \in SUBSET S : \A g : ~IsSum(f, T, g)}
           Sol(T) == CHOOSE g : IsSum(f, T, g)
<1> SUFFICES ASSUME Bad # {} PROVE FALSE
  OBVIOUS
<1> Bad \in SUBSET SUBSET S
  OBVIOUS
<1> HIDE DEF Bad
<1>1. PICK T \in Bad : \A U \in Bad : U \subseteq T => U = T
  BY FiniteMin
<1> USE DEF Bad
<1>2. \A U \in SUBSET T : U # T => IsSum(f, U, Sol(U))
  BY <1>1
<1> DEFINE v(U) == IF U = {} THEN 0
                   ELSE f[Pick(U)] + Sol(U \ {Pick(U)})[U \ {Pick(U)}]
           g == [U \in SUBSET T |-> v(U)]
<1> HIDE DEF Sol
<1>3. ASSUME NEW U \in SUBSET T, U # T PROVE v(U) = Sol(U)[U]
  <2>1. CASE U = {}
    BY <1>2, <1>3, <2>1 DEF IsSum
  <2>2. CASE U # {}
    <3> DEFINE W == U \ {Pick(U)}
    <3>1. W \in SUBSET U /\ W # T
      BY <1>3
    <3>2. IsSum(f, U, Sol(U)) /\ IsSum(f, W, Sol(W))
      BY <1>2, <1>3, <3>1
    <3>3. Sol(U)[U] = f[Pick(U)] + Sol(U)[W]
      BY <2>2, <3>2 DEF IsSum
    <3>4. IsFiniteSet(U)
      BY FS_Subset DEF Bad
    <3>5. Sol(U)[W] = Sol(W)[W]
      BY <3>1, <3>2, <3>4, SumIsUnique
    <3> QED
      BY <2>2, <3>3, <3>5
  <2> QED
    BY <2>1, <2>2
<1>4. ASSUME NEW U \in SUBSET T, U # {}
      PROVE  g[U] = f[Pick(U)] + g[U \ {Pick(U)}]
  <2>1. U \ {Pick(U)} \in SUBSET T /\ U \ {Pick(U)} # T
    BY <1>4, PickIn
  <2>2. v(U \ {Pick(U)}) = Sol(U \ {Pick(U)})[U \ {Pick(U)}]
    BY <1>3, <2>1
  <2>3. g[U \ {Pick(U)}] = v(U \ {Pick(U)})
    BY <2>1
  <2> QED
    BY <1>4, <2>2, <2>3
<1>5. IsSum(f, T, g)
  <2>1. \A U \in SUBSET T :
          g[U] = IF U = {} THEN 0 ELSE f[Pick(U)] + g[U \ {Pick(U)}]
    BY <1>4
  <2>2. g = [U \in SUBSET T |-> g[U]]
    OBVIOUS
  <2> QED
    BY <2>1, <2>2 DEF IsSum
<1> QED
  BY <1>1, <1>5 DEF Bad

\* The sum over a set, from that over the set without the element taken first.
LEMMA SumStep ==
  ASSUME NEW f, NEW S, IsFiniteSet(S)
  PROVE  /\ S = {} => SumFunctionOnSet(f, S) = 0
         /\ S # {} => SumFunctionOnSet(f, S) =
                        f[Pick(S)] + SumFunctionOnSet(f, S \ {Pick(S)})
<1> DEFINE T == S \ {Pick(S)}
           g == CHOOSE g : IsSum(f, S, g)
           h == CHOOSE h : IsSum(f, T, h)
<1>1. IsFiniteSet(T)
  BY FS_Subset
<1>2. IsSum(f, S, g) /\ IsSum(f, T, h)
  BY <1>1, SumExists
<1>3. SumFunctionOnSet(f, S) = g[S] /\ SumFunctionOnSet(f, T) = h[T]
  BY SumIsFold
<1>4. g[T] = h[T]
  BY <1>2, SumIsUnique
<1>5. g[S] = IF S = {} THEN 0 ELSE f[Pick(S)] + g[T]
  BY <1>2 DEF IsSum
<1> QED
  BY <1>3, <1>4, <1>5
-----------------------------------------------------------------------------
\* The sum of numbers is a number ...
LEMMA SumInt ==
  ASSUME NEW f, NEW S, IsFiniteSet(S), \A x \in S : f[x] \in Int
  PROVE  SumFunctionOnSet(f, S) \in Int
<1> DEFINE Bad == {T \in SUBSET S : SumFunctionOnSet(f, T) \notin Int}
<1> SUFFICES ASSUME Bad # {} PROVE FALSE
  OBVIOUS
<1> Bad \in SUBSET SUBSET S
  OBVIOUS
<1> HIDE DEF Bad
<1>1. PICK T \in Bad : \A U \in Bad : U \subseteq T => U = T
  BY FiniteMin
<1> USE DEF Bad
<1>2. IsFiniteSet(T)
  BY FS_Subset
<1>3. T # {}
  <2>1. T = {} => SumFunctionOnSet(f, T) = 0
    BY <1>2, SumStep
  <2>2. SumFunctionOnSet(f, T) \notin Int
    OBVIOUS
  <2> QED
    BY <2>1, <2>2
<1>4. Pick(T) \in T /\ SumFunctionOnSet(f, T \ {Pick(T)}) \in Int
  BY <1>1, <1>3, PickIn
<1> QED
  BY <1>1, <1>2, <1>3, <1>4, SumStep

\* ... that does not depend on the order in which they are added ...
LEMMA SumRemove ==
  ASSUME NEW f, NEW S, IsFiniteSet(S), \A x \in S : f[x] \in Int, NEW x \in S
  PROVE  SumFunctionOnSet(f, S) = f[x] + SumFunctionOnSet(f, S \ {x})
<1> DEFINE sum(T) == SumFunctionOnSet(f, T)
           Bad == {T \in SUBSET S : \E y \in T : sum(T) # f[y] + sum(T \ {y})}
<1> SUFFICES ASSUME Bad # {} PROVE FALSE
  OBVIOUS
<1> Bad \in SUBSET SUBSET S
  OBVIOUS
<1> HIDE DEF Bad
<1>1. PICK T \in Bad : \A U \in Bad : U \subseteq T => U = T
  BY FiniteMin
<1> USE DEF Bad
<1>2. PICK y \in T : sum(T) # f[y] + sum(T \ {y})
  BY <1>1
<1> DEFINE p == Pick(T)
<1>3. p \in T /\ sum(T) = f[p] + sum(T \ {p})
  BY PickIn, FS_Subset, SumStep
<1>4. y # p
  BY <1>2, <1>3
<1>5. sum(T \ {p}) = f[y] + sum(T \ {p, y})
  <2>1. T \ {p} \notin Bad /\ y \in T \ {p} /\ (T \ {p}) \ {y} = T \ {p, y}
    BY <1>1, <1>3, <1>4
  <2> QED
    BY <2>1
<1>6. sum(T \ {y}) = f[p] + sum(T \ {p, y})
  <2>1. T \ {y} \notin Bad /\ p \in T \ {y} /\ (T \ {y}) \ {p} = T \ {p, y}
    BY <1>1, <1>2, <1>3, <1>4
  <2> QED
    BY <2>1
<1>7. f[y] \in Int /\ f[p] \in Int /\ sum(T \ {p, y}) \in Int
  BY <1>3, FS_Subset, SumInt
<1> QED
  BY <1>2, <1>3, <1>5, <1>6, <1>7

\* ... and only on those numbers.
LEMMA SumSame ==
  ASSUME NEW f, NEW g, NEW S, IsFiniteSet(S), \A x \in S : f[x] = g[x]
  PROVE  SumFunctionOnSet(f, S) = SumFunctionOnSet(g, S)
<1> DEFINE Bad == {T \in SUBSET S : SumFunctionOnSet(f, T) # SumFunctionOnSet(g, T)}
<1> SUFFICES ASSUME Bad # {} PROVE FALSE
  OBVIOUS
<1> Bad \in SUBSET SUBSET S
  OBVIOUS
<1> HIDE DEF Bad
<1>1. PICK T \in Bad : \A U \in Bad : U \subseteq T => U = T
  BY FiniteMin
<1> USE DEF Bad
<1>2. IsFiniteSet(T)
  BY FS_Subset
<1>3. T # {}
  BY <1>1, <1>2, SumStep
<1>4. Pick(T) \in T
  BY <1>3, PickIn
<1>5. SumFunctionOnSet(f, T \ {Pick(T)}) = SumFunctionOnSet(g, T \ {Pick(T)})
  BY <1>1, <1>4
<1> QED
  BY <1>1, <1>2, <1>3, <1>4, <1>5, SumStep

\* Numbers that are not negative have a sum that is not negative.
LEMMA SumNat ==
  ASSUME NEW f, NEW S, IsFiniteSet(S), \A x \in S : f[x] \in Nat
  PROVE  SumFunctionOnSet(f, S) \in Nat
<1> DEFINE Bad == {T \in SUBSET S : SumFunctionOnSet(f, T) \notin Nat}
<1> SUFFICES ASSUME Bad # {} PROVE FALSE
  OBVIOUS
<1> Bad \in SUBSET SUBSET S
  OBVIOUS
<1> HIDE DEF Bad
<1>1. PICK T \in Bad : \A U \in Bad : U \subseteq T => U = T
  BY FiniteMin
<1> USE DEF Bad
<1>2. IsFiniteSet(T)
  BY FS_Subset
<1>3. T # {}
  <2>1. T = {} => SumFunctionOnSet(f, T) = 0
    BY <1>2, SumStep
  <2>2. SumFunctionOnSet(f, T) \notin Nat
    OBVIOUS
  <2> QED
    BY <2>1, <2>2
<1>4. Pick(T) \in T /\ SumFunctionOnSet(f, T \ {Pick(T)}) \in Nat
  BY <1>1, <1>3, PickIn
<1> QED
  BY <1>1, <1>2, <1>3, <1>4, SumStep

\* A sum grows with its numbers.
LEMMA SumMonotone ==
  ASSUME NEW f, NEW g, NEW S, IsFiniteSet(S),
         \A x \in S : f[x] \in Int /\ g[x] \in Int /\ f[x] <= g[x]
  PROVE  SumFunctionOnSet(f, S) <= SumFunctionOnSet(g, S)
<1> DEFINE Bad == {T \in SUBSET S : ~(SumFunctionOnSet(f, T) <= SumFunctionOnSet(g, T))}
<1> SUFFICES ASSUME Bad # {} PROVE FALSE
  OBVIOUS
<1> Bad \in SUBSET SUBSET S
  OBVIOUS
<1> HIDE DEF Bad
<1>1. PICK T \in Bad : \A U \in Bad : U \subseteq T => U = T
  BY FiniteMin
<1> USE DEF Bad
<1>2. IsFiniteSet(T)
  BY FS_Subset
<1>3. T # {}
  <2>1. T = {} => SumFunctionOnSet(f, T) = 0 /\ SumFunctionOnSet(g, T) = 0
    BY <1>2, SumStep
  <2>2. ~(SumFunctionOnSet(f, T) <= SumFunctionOnSet(g, T))
    OBVIOUS
  <2> QED
    BY <2>1, <2>2
<1> DEFINE x == Pick(T)
           U == T \ {x}
           m == SumFunctionOnSet(f, U)
           n == SumFunctionOnSet(g, U)
<1>4. x \in T
  BY <1>3, PickIn
<1>5. m \in Int /\ n \in Int
  <2>1. IsFiniteSet(U) /\ \A y \in U : f[y] \in Int /\ g[y] \in Int
    BY <1>2, FS_Subset
  <2> QED
    BY <2>1, SumInt
<1>6. m <= n
  BY <1>1, <1>4
<1>7. f[x] \in Int /\ g[x] \in Int /\ f[x] <= g[x]
  BY <1>4
<1>8. SumFunctionOnSet(f, T) = f[x] + m /\ SumFunctionOnSet(g, T) = g[x] + n
  BY <1>2, <1>3, SumStep
<1>9. ~(SumFunctionOnSet(f, T) <= SumFunctionOnSet(g, T))
  OBVIOUS
<1> HIDE DEF x, m, n
<1> QED
  BY <1>5, <1>6, <1>7, <1>8, <1>9

\* The sum of zeros is zero.
LEMMA SumZero ==
  ASSUME NEW f, NEW S, IsFiniteSet(S), \A x \in S : f[x] = 0
  PROVE  SumFunctionOnSet(f, S) = 0
<1> DEFINE Bad == {T \in SUBSET S : SumFunctionOnSet(f, T) # 0}
<1> SUFFICES ASSUME Bad # {} PROVE FALSE
  OBVIOUS
<1> Bad \in SUBSET SUBSET S
  OBVIOUS
<1> HIDE DEF Bad
<1>1. PICK T \in Bad : \A U \in Bad : U \subseteq T => U = T
  BY FiniteMin
<1> USE DEF Bad
<1>2. IsFiniteSet(T)
  BY FS_Subset
<1>3. T # {}
  BY <1>1, <1>2, SumStep
<1>4. Pick(T) \in T
  BY <1>3, PickIn
<1>5. SumFunctionOnSet(f, T \ {Pick(T)}) = 0
  BY <1>1, <1>4
<1> QED
  BY <1>1, <1>2, <1>3, <1>4, <1>5, SumStep

\* A sum in which one number changes.
LEMMA SumUpdate ==
  ASSUME NEW f, NEW g, NEW S, IsFiniteSet(S), NEW x \in S,
         \A y \in S : f[y] \in Int /\ g[y] \in Int,
         \A y \in S \ {x} : f[y] = g[y]
  PROVE  SumFunctionOnSet(g, S) = SumFunctionOnSet(f, S) - f[x] + g[x]
<1> DEFINE T == S \ {x}
<1>1. IsFiniteSet(T)
  BY FS_Subset
<1>2. SumFunctionOnSet(f, T) = SumFunctionOnSet(g, T)
  BY <1>1, SumSame
<1>3. SumFunctionOnSet(f, S) = f[x] + SumFunctionOnSet(f, T)
  BY SumRemove
<1>4. SumFunctionOnSet(g, S) = g[x] + SumFunctionOnSet(g, T)
  BY SumRemove
<1>5. f[x] \in Int /\ g[x] \in Int /\ SumFunctionOnSet(f, T) \in Int
  BY <1>1, SumInt
<1> QED
  BY <1>2, <1>3, <1>4, <1>5

\* Numbers added one by one have the sum of their sums.
LEMMA SumOfBoth ==
  ASSUME NEW f, NEW g, NEW h, NEW S, IsFiniteSet(S),
         \A x \in S : f[x] \in Int /\ g[x] \in Int /\ h[x] = f[x] + g[x]
  PROVE  SumFunctionOnSet(h, S) = SumFunctionOnSet(f, S) + SumFunctionOnSet(g, S)
<1> DEFINE Bad == {T \in SUBSET S :
                    SumFunctionOnSet(h, T) # SumFunctionOnSet(f, T) + SumFunctionOnSet(g, T)}
<1> SUFFICES ASSUME Bad # {} PROVE FALSE
  OBVIOUS
<1> Bad \in SUBSET SUBSET S
  OBVIOUS
<1> HIDE DEF Bad
<1>1. PICK T \in Bad : \A U \in Bad : U \subseteq T => U = T
  BY FiniteMin
<1> USE DEF Bad
<1>2. IsFiniteSet(T)
  BY FS_Subset
<1>3. T # {}
  <2>1. T = {} => /\ SumFunctionOnSet(f, T) = 0 /\ SumFunctionOnSet(g, T) = 0
                  /\ SumFunctionOnSet(h, T) = 0
    BY <1>2, SumStep
  <2>2. SumFunctionOnSet(h, T) # SumFunctionOnSet(f, T) + SumFunctionOnSet(g, T)
    OBVIOUS
  <2> QED
    BY <2>1, <2>2
<1> DEFINE x == Pick(T)
           U == T \ {x}
           m == SumFunctionOnSet(f, U)
           n == SumFunctionOnSet(g, U)
           k == SumFunctionOnSet(h, U)
<1>4. x \in T
  BY <1>3, PickIn
<1>5. m \in Int /\ n \in Int
  <2>1. IsFiniteSet(U) /\ \A y \in U : f[y] \in Int /\ g[y] \in Int
    BY <1>2, FS_Subset
  <2> QED
    BY <2>1, SumInt
<1>6. k = m + n
  BY <1>1, <1>4
<1>7. f[x] \in Int /\ g[x] \in Int /\ h[x] = f[x] + g[x]
  BY <1>4
<1>8. /\ SumFunctionOnSet(f, T) = f[x] + m /\ SumFunctionOnSet(g, T) = g[x] + n
      /\ SumFunctionOnSet(h, T) = h[x] + k
  BY <1>2, <1>3, SumStep
<1>9. SumFunctionOnSet(h, T) # SumFunctionOnSet(f, T) + SumFunctionOnSet(g, T)
  OBVIOUS
<1> HIDE DEF x, m, n, k
<1> QED
  BY <1>5, <1>6, <1>7, <1>8, <1>9
-----------------------------------------------------------------------------
(* Sums of sequences.                                                      *)

LEMMA SumPrefix ==
  ASSUME NEW f, NEW k \in Nat, \A i \in 1 .. k + 1 : f[i] \in Int
  PROVE  /\ SumFunctionOnSet(f, 1 .. k) \in Int
         /\ SumFunctionOnSet(f, 1 .. k + 1) = SumFunctionOnSet(f, 1 .. k) + f[k + 1]
<1>1. IsFiniteSet(1 .. k) /\ IsFiniteSet(1 .. k + 1)
  BY FS_Interval
<1>2. k + 1 \in 1 .. k + 1 /\ (1 .. k + 1) \ {k + 1} = 1 .. k
  OBVIOUS
<1>3. SumFunctionOnSet(f, 1 .. k) \in Int
  <2>1. \A i \in 1 .. k : f[i] \in Int
    OBVIOUS
  <2> QED
    BY <1>1, <2>1, SumInt
<1>4. SumFunctionOnSet(f, 1 .. k + 1) = f[k + 1] + SumFunctionOnSet(f, 1 .. k)
  <2> DEFINE S == 1 .. k + 1
  <2>1. SumFunctionOnSet(f, S) = f[k + 1] + SumFunctionOnSet(f, S \ {k + 1})
    <3> HIDE DEF S
    <3> QED
      BY <1>1, <1>2, SumRemove DEF S
  <2> QED
    BY <1>2, <2>1
<1> QED
  BY <1>3, <1>4

LEMMA SumEmpty == SumFunction(<<>>) = 0
<1>1. DOMAIN <<>> = {}
  OBVIOUS
<1>2. IsFiniteSet({})
  BY FS_EmptySet
<1> QED
  BY <1>1, <1>2, SumStep DEF SumFunction

LEMMA SumSeqInt ==
  ASSUME NEW q \in Seq(Int)
  PROVE  SumFunction(q) \in Int
<1>1. DOMAIN q = 1 .. Len(q) /\ Len(q) \in Nat /\ \A i \in 1 .. Len(q) : q[i] \in Int
  OBVIOUS
<1>2. IsFiniteSet(1 .. Len(q))
  BY <1>1, FS_Interval
<1> QED
  BY <1>1, <1>2, SumInt DEF SumFunction

LEMMA SumAppend ==
  ASSUME NEW q \in Seq(Int), NEW n \in Int
  PROVE  /\ SumFunction(q) \in Int
         /\ SumFunction(Append(q, n)) = SumFunction(q) + n
<1> DEFINE r == Append(q, n)
           k == Len(q)
<1>1. /\ k \in Nat
      /\ DOMAIN q = 1 .. k /\ DOMAIN r = 1 .. k + 1
      /\ \A i \in 1 .. k : q[i] = r[i]
      /\ \A i \in 1 .. k + 1 : r[i] \in Int
      /\ r[k + 1] = n
  OBVIOUS
<1>2. IsFiniteSet(1 .. k)
  BY <1>1, FS_Interval
<1> HIDE DEF r, k
<1>3. SumFunctionOnSet(r, 1 .. k + 1) = SumFunctionOnSet(r, 1 .. k) + n
      /\ SumFunctionOnSet(r, 1 .. k) \in Int
  BY <1>1, SumPrefix
<1>4. SumFunctionOnSet(q, 1 .. k) = SumFunctionOnSet(r, 1 .. k)
  BY <1>1, <1>2, SumSame
<1> QED
  BY <1>1, <1>3, <1>4 DEF SumFunction, r

\* A set of numbers between 1 and n has a least one.
LEMMA LeastNumber ==
  ASSUME NEW n \in Nat, NEW Bad \in SUBSET (1 .. n), Bad # {}
  PROVE  \E k \in Bad : \A j \in Bad : k <= j
<1> DEFINE Segments == {T \in SUBSET (1 .. n) : \E k \in Bad : T = 1 .. k}
<1>1. IsFiniteSet(1 .. n)
  BY FS_Interval
<1>2. Segments # {}
  <2>1. PICK k \in Bad : TRUE
    OBVIOUS
  <2>2. 1 .. k \in SUBSET (1 .. n)
    OBVIOUS
  <2>3. 1 .. k \in Segments
    BY <2>2
  <2> QED
    BY <2>3
<1>3. PICK T \in Segments : \A U \in Segments : U \subseteq T => U = T
  <2> DEFINE S == 1 .. n
  <2>1. Segments \in SUBSET SUBSET S
    OBVIOUS
  <2> HIDE DEF Segments, S
  <2>2. IsFiniteSet(S)
    BY <1>1 DEF S
  <2> QED
    BY <1>2, <2>1, <2>2, FiniteMin
<1>4. PICK k \in Bad : T = 1 .. k
  OBVIOUS
<1>5. ASSUME NEW j \in Bad, j < k PROVE FALSE
  <2>1. 1 .. j \subseteq 1 .. k /\ k \notin 1 .. j /\ k \in 1 .. k
    BY <1>5
  <2>2. 1 .. j = 1 .. k
    BY <1>3, <1>4, <2>1
  <2> QED
    BY <2>1, <2>2
<1> QED
  BY <1>5

\* A sequence r that is q without its i-th number.
LEMMA SumWithout ==
  ASSUME NEW q \in Seq(Int), NEW r \in Seq(Int), NEW i \in 1 .. Len(q),
         Len(r) = Len(q) - 1,
         \A j \in 1 .. Len(r) : r[j] = IF j < i THEN q[j] ELSE q[j + 1]
  PROVE  SumFunction(r) = SumFunction(q) - q[i]
<1> DEFINE sum(f, k) == SumFunctionOnSet(f, 1 .. k)
           Bad == {k \in i .. Len(q) : sum(r, k - 1) # sum(q, k) - q[i]}
<1>1. /\ Len(q) \in Nat /\ Len(r) \in Nat
      /\ DOMAIN q = 1 .. Len(q) /\ DOMAIN r = 1 .. Len(r)
      /\ \A j \in 1 .. Len(q) : q[j] \in Int
      /\ \A j \in 1 .. Len(r) : r[j] \in Int
  OBVIOUS
<1>2. Bad = {}
  <2> SUFFICES ASSUME Bad # {} PROVE FALSE
    OBVIOUS
  <2>1. Bad \subseteq 1 .. Len(q)
    BY <1>1
  <2> HIDE DEF Bad
  <2>2. PICK k \in Bad : \A j \in Bad : k <= j
    BY <1>1, <2>1, LeastNumber
  <2>3. \A j \in Bad : k <= j
    BY <2>2
  <2> USE DEF Bad
  <2>4. k - 1 \in Nat /\ k \in i .. Len(q)
    BY <1>1
  <2>5. sum(q, k) = sum(q, k - 1) + q[k] /\ sum(q, k - 1) \in Int
    <3>1. \A j \in 1 .. (k - 1) + 1 : q[j] \in Int
      BY <1>1, <2>4
    <3>2. (k - 1) + 1 = k
      BY <2>4
    <3> QED
      BY <2>4, <3>1, <3>2, SumPrefix
  <2>6. CASE k = i
    <3>1. IsFiniteSet(1 .. k - 1)
      BY <2>4, FS_Interval
    <3>2. \A j \in 1 .. k - 1 : r[j] = q[j]
      BY <1>1, <2>4, <2>6
    <3>3. sum(r, k - 1) = sum(q, k - 1)
      <4> DEFINE S == 1 .. k - 1
      <4>1. IsFiniteSet(S) /\ \A j \in S : r[j] = q[j]
        BY <3>1, <3>2
      <4> HIDE DEF S
      <4>2. SumFunctionOnSet(r, S) = SumFunctionOnSet(q, S)
        BY <4>1, SumSame
      <4> QED
        BY <4>2 DEF S
    <3> QED
      BY <1>1, <2>4, <2>5, <2>6, <3>3
  <2>7. CASE k # i
    <3>1. k - 1 \in i .. Len(q)
      BY <2>4, <2>7
    <3>2. k - 1 \notin Bad
      <4> HIDE DEF Bad
      <4> QED
        BY <2>3, <2>4
    <3>6. sum(r, (k - 1) - 1) = sum(q, k - 1) - q[i]
      BY <3>1, <3>2
    <3>3. r[k - 1] = q[k]
      BY <1>1, <2>4, <2>7
    <3>4. sum(r, k - 1) = sum(r, (k - 1) - 1) + r[k - 1]
      <4>1. (k - 1) - 1 \in Nat /\ ((k - 1) - 1) + 1 = k - 1
        BY <2>4, <2>7
      <4>2. \A j \in 1 .. k - 1 : r[j] \in Int
        BY <1>1, <2>4
      <4> QED
        BY <4>1, <4>2, SumPrefix
    <3>5. q[k] \in Int /\ q[i] \in Int
      BY <1>1, <2>4
    <3> QED
      BY <2>5, <3>3, <3>4, <3>5, <3>6
  <2> QED
    BY <2>6, <2>7
<1>3. sum(r, Len(q) - 1) = sum(q, Len(q)) - q[i]
  BY <1>1, <1>2
<1> QED
  BY <1>1, <1>3 DEF SumFunction

\* What remains of a sequence has the values it had.
LEMMA RemoveAtIn ==
  ASSUME NEW E, NEW q \in Seq(E), NEW i \in 1 .. Len(q)
  PROVE  RemoveAt(q, i) \in Seq(E)
<1> DEFINE a == SubSeq(q, 1, i - 1)
           b == SubSeq(q, i + 1, Len(q))
<1>1. /\ \A j \in 1 .. i - 1 : q[j] \in E
      /\ \A j \in i + 1 .. Len(q) : q[j] \in E
      /\ i - 1 \in Int /\ i + 1 \in Int /\ Len(q) \in Int
  OBVIOUS
<1>2. a \in Seq(E) /\ b \in Seq(E)
  BY <1>1, SubSeqProperties
<1> HIDE DEF a, b
<1> QED
  BY <1>2, ConcatProperties DEF RemoveAt, a, b

LEMMA SumRemoveAt ==
  ASSUME NEW q \in Seq(Int), NEW i \in 1 .. Len(q)
  PROVE  /\ RemoveAt(q, i) \in Seq(Int)
         /\ SumFunction(RemoveAt(q, i)) = SumFunction(q) - q[i]
<1> DEFINE a == SubSeq(q, 1, i - 1)
           b == SubSeq(q, i + 1, Len(q))
           r == a \o b
<1>1. /\ a \in Seq(Int) /\ Len(a) = i - 1
      /\ b \in Seq(Int) /\ Len(b) = Len(q) - i
      /\ \A j \in 1 .. i - 1 : a[j] = q[j]
      /\ \A j \in 1 .. Len(q) - i : b[j] = q[i + j]
  BY SubSeqProperties
<1> HIDE DEF a, b
<1>2. /\ r \in Seq(Int) /\ Len(r) = Len(a) + Len(b)
      /\ \A j \in 1 .. Len(a) + Len(b) : r[j] = IF j <= Len(a) THEN a[j] ELSE b[j - Len(a)]
  BY <1>1, ConcatProperties
<1>3. Len(r) = Len(q) - 1 /\ Len(q) \in Nat /\ i \in Int
  BY <1>1, <1>2
<1>4. ASSUME NEW j \in 1 .. Len(r)
      PROVE  r[j] = IF j < i THEN q[j] ELSE q[j + 1]
  <2>1. CASE j < i
    BY <1>1, <1>2, <1>3, <2>1
  <2>2. CASE j >= i
    <3>1. j - Len(a) \in 1 .. Len(q) - i /\ i + (j - Len(a)) = j + 1 /\ ~(j <= Len(a))
      BY <1>1, <1>3, <2>2
    <3>2. r[j] = b[j - Len(a)]
      BY <1>2, <3>1
    <3>3. b[j - Len(a)] = q[j + 1]
      BY <1>1, <3>1
    <3> QED
      BY <1>3, <2>2, <3>2, <3>3
  <2> QED
    BY <1>3, <2>1, <2>2
<1> HIDE DEF r
<1> QED
  BY <1>2, <1>3, <1>4, SumWithout DEF RemoveAt, r, a, b

\* The sum of two sequences, one after the other.
LEMMA SumConcat ==
  ASSUME NEW a \in Seq(Int), NEW b \in Seq(Int)
  PROVE  SumFunction(a \o b) = SumFunction(a) + SumFunction(b)
<1> DEFINE r == a \o b
           m == Len(a)
           sum(f, k) == SumFunctionOnSet(f, 1 .. k)
           Bad == {k \in 1 .. Len(b) : sum(r, m + k) # sum(a, m) + sum(b, k)}
<1>1. /\ m \in Nat /\ Len(b) \in Nat
      /\ DOMAIN a = 1 .. m /\ DOMAIN b = 1 .. Len(b) /\ DOMAIN r = 1 .. m + Len(b)
      /\ \A i \in 1 .. m : a[i] \in Int /\ r[i] = a[i]
      /\ \A i \in 1 .. Len(b) : b[i] \in Int /\ r[m + i] = b[i]
      /\ \A i \in 1 .. m + Len(b) : r[i] \in Int
  OBVIOUS
<1> HIDE DEF r, m
<1>2. sum(r, m) = sum(a, m) /\ sum(a, m) \in Int
  <2> DEFINE S == 1 .. m
  <2>1. IsFiniteSet(S)
    BY <1>1, FS_Interval
  <2>3. \A i \in S : r[i] = a[i] /\ a[i] \in Int
    BY <1>1
  <2> HIDE DEF S
  <2>2. SumFunctionOnSet(r, S) = SumFunctionOnSet(a, S) /\ SumFunctionOnSet(a, S) \in Int
    BY <2>1, <2>3, SumSame, SumInt
  <2> QED
    BY <2>2 DEF S
<1>3. sum(b, 0) = 0
  <2>1. 1 .. 0 = {} /\ IsFiniteSet({})
    BY FS_EmptySet
  <2> QED
    BY <2>1, SumStep
<1>4. ASSUME NEW k \in 1 .. Len(b),
             sum(r, m + (k - 1)) = sum(a, m) + sum(b, k - 1)
      PROVE  sum(r, m + k) = sum(a, m) + sum(b, k)
  <2>1. k - 1 \in Nat /\ (k - 1) + 1 = k /\ m + (k - 1) \in Nat /\ (m + (k - 1)) + 1 = m + k
    BY <1>1
  <2>2. sum(b, k - 1) \in Int /\ sum(b, k) = sum(b, k - 1) + b[k]
    <3>1. \A i \in 1 .. (k - 1) + 1 : b[i] \in Int
      BY <1>1, <2>1
    <3> QED
      BY <2>1, <3>1, SumPrefix
  <2>3. sum(r, m + k) = sum(r, m + (k - 1)) + r[m + k]
    <3> DEFINE n == m + (k - 1)
    <3>1. n \in Nat /\ n + 1 = m + k /\ \A i \in 1 .. n + 1 : r[i] \in Int
      BY <1>1, <2>1
    <3> HIDE DEF n
    <3>2. SumFunctionOnSet(r, 1 .. n + 1) = SumFunctionOnSet(r, 1 .. n) + r[n + 1]
      BY <3>1, SumPrefix
    <3> QED
      BY <3>1, <3>2 DEF n
  <2>4. r[m + k] = b[k] /\ b[k] \in Int
    BY <1>1
  <2> QED
    BY <1>2, <1>4, <2>2, <2>3, <2>4
<1>5. Bad = {}
  <2> SUFFICES ASSUME Bad # {} PROVE FALSE
    OBVIOUS
  <2>1. Bad \in SUBSET (1 .. Len(b))
    OBVIOUS
  <2> HIDE DEF Bad
  <2>2. PICK k \in Bad : \A j \in Bad : k <= j
    BY <1>1, <2>1, LeastNumber
  <2>3. k \in 1 .. Len(b) /\ (k = 1 \/ k - 1 \in 1 .. Len(b)) /\ k - 1 \notin Bad
    BY <1>1, <2>1, <2>2
  <2> USE DEF Bad
  <2>4. CASE k = 1
    <3>1. k - 1 = 0 /\ m + (k - 1) = m
      BY <1>1, <2>4
    <3>2. sum(r, m + (k - 1)) = sum(a, m) + sum(b, k - 1)
      BY <1>2, <1>3, <3>1
    <3>3. sum(r, m + k) = sum(a, m) + sum(b, k)
      BY <1>4, <2>3, <3>2
    <3> QED
      BY <3>3
  <2>5. CASE k # 1
    BY <1>4, <2>3, <2>5
  <2> QED
    BY <2>4, <2>5
<1>6. sum(r, m + Len(b)) = sum(a, m) + sum(b, Len(b))
  <2>1. CASE Len(b) = 0
    BY <1>1, <1>2, <1>3, <2>1
  <2>2. CASE Len(b) # 0
    <3>1. Len(b) \in 1 .. Len(b)
      BY <1>1, <2>2
    <3>2. \A k \in 1 .. Len(b) : sum(r, m + k) = sum(a, m) + sum(b, k)
      BY <1>5
    <3> QED
      BY <3>1, <3>2
  <2> QED
    BY <2>1, <2>2
<1> QED
  BY <1>1, <1>6 DEF SumFunction, r

\* A set of numbers up to n that is not empty has a greatest one.
LEMMA GreatestNumber ==
  ASSUME NEW n \in Nat, NEW S \in SUBSET (0 .. n), S # {}
  PROVE  \E k \in S : \A j \in S : j <= k
<1> DEFINE Back == {i \in 1 .. n + 1 : n + 1 - i \in S}
<1>1. \A j \in S : n + 1 - j \in Back
  OBVIOUS
<1>2. Back # {} /\ Back \in SUBSET (1 .. n + 1) /\ n + 1 \in Nat
  <2>1. PICK j \in S : TRUE
    OBVIOUS
  <2>2. n + 1 - j \in Back
    BY <1>1
  <2>3. Back \subseteq 1 .. n + 1
    OBVIOUS
  <2>4. n + 1 \in Nat
    OBVIOUS
  <2> HIDE DEF Back
  <2> QED
    BY <2>2, <2>3, <2>4
<1> HIDE DEF Back
<1>3. PICK i \in Back : \A j \in Back : i <= j
  BY <1>2, LeastNumber
<1> USE DEF Back
<1>4. n + 1 - i \in S
  OBVIOUS
<1>5. ASSUME NEW j \in S PROVE j <= n + 1 - i
  <2>1. i <= n + 1 - j
    BY <1>1, <1>3
  <2> QED
    BY <2>1
<1> QED
  BY <1>4, <1>5

\* Counting: a set that has 0 and, with a number, the next one has all up to n.
LEMMA CountUp ==
  ASSUME NEW n \in Nat, NEW S, 0 \in S, \A i \in 1 .. n : i - 1 \in S => i \in S
  PROVE  \A i \in 0 .. n : i \in S
<1> DEFINE Bad == {i \in 1 .. n : i \notin S}
<1>1. Bad = {}
  <2> SUFFICES ASSUME Bad # {} PROVE FALSE
    OBVIOUS
  <2>1. Bad \in SUBSET (1 .. n)
    OBVIOUS
  <2>2. PICK k \in Bad : \A j \in Bad : k <= j
    <3> HIDE DEF Bad
    <3> QED
      BY <2>1, LeastNumber
  <2>3. k \in 1 .. n /\ (k = 1 \/ k - 1 \in 1 .. n)
    OBVIOUS
  <2>4. k - 1 \in S
    BY <2>2, <2>3
  <2> QED
    BY <2>3, <2>4
<1> QED
  BY <1>1

\* The name keeps the provers from rearranging it.
Cat(s, t) == s \o t

LEMMA CatAssociative ==
  ASSUME NEW E, NEW s \in Seq(E), NEW t \in Seq(E), NEW u \in Seq(E)
  PROVE  Cat(s, t) \in Seq(E) /\ Cat(Cat(s, t), u) = Cat(s, Cat(t, u))
BY ConcatProperties, ConcatAssociative DEF Cat

\* Three sequences put after another, one by one or all at once.
AllOrEachOfThree(q, x, y, z) == q \o ((x \o y) \o z) = ((q \o x) \o y) \o z

LEMMA RegroupThree ==
  ASSUME NEW E, NEW q \in Seq(E), NEW x \in Seq(E), NEW y \in Seq(E), NEW z \in Seq(E)
  PROVE  AllOrEachOfThree(q, x, y, z)
<1>1. Cat(x, y) \in Seq(E)
  BY CatAssociative
<1>2. Cat(Cat(q, x), y) = Cat(q, Cat(x, y))
  BY CatAssociative
<1>3. Cat(Cat(q, Cat(x, y)), z) = Cat(q, Cat(Cat(x, y), z))
  BY <1>1, CatAssociative
<1> QED
  BY <1>2, <1>3 DEF Cat, AllOrEachOfThree

\* Four sequences put after another, one by one or all at once.
AllOrEach(q, x, y, z, w) == q \o (((x \o y) \o z) \o w) = (((q \o x) \o y) \o z) \o w

LEMMA Regroup ==
  ASSUME NEW E, NEW q \in Seq(E), NEW x \in Seq(E), NEW y \in Seq(E), NEW z \in Seq(E),
         NEW w \in Seq(E)
  PROVE  AllOrEach(q, x, y, z, w)
<1>1. Cat(x, y) \in Seq(E) /\ Cat(Cat(x, y), z) \in Seq(E)
  BY CatAssociative
<1>2. Cat(Cat(q, x), y) = Cat(q, Cat(x, y))
  BY CatAssociative
<1>3. Cat(Cat(q, Cat(x, y)), z) = Cat(q, Cat(Cat(x, y), z))
  BY <1>1, CatAssociative
<1>4. Cat(Cat(q, Cat(Cat(x, y), z)), w) = Cat(q, Cat(Cat(Cat(x, y), z), w))
  BY <1>1, CatAssociative
<1> QED
  BY <1>2, <1>3, <1>4 DEF Cat, AllOrEach
=============================================================================

-------------------------- MODULE AllocPoolProofs --------------------------
(***************************************************************************)
(* The pool is whole after every call: for every number of bins, sizes of  *)
(* areas and requests, if no request leaves less than a header of a new    *)
(* area.                                                                   *)
(***************************************************************************)
EXTENDS AllocPool, SequenceTheorems, FiniteSetTheorems, WellFoundedInduction, TLAPS

-----------------------------------------------------------------------------
\* Every set of numbers has a least one.
LEMMA LeastNat ==
  ASSUME NEW S \in SUBSET Nat, S # {}
  PROVE  \E k \in S : \A m \in S : k <= m
  <1> DEFINE R == {ss \in Nat \X Nat : ss[1] < ss[2]}
  <1>1. IsWellFoundedOn(R, Nat)
    BY NatLessThanWellFounded DEF OpToRel
  <1>2. \E k \in S : \A m \in S : ~(<<m, k>> \in R)
    <2> HIDE DEF R
    <2> QED
      BY <1>1, WFMin
  <1>3. \A k, m \in Nat : ~(<<m, k>> \in R) => k <= m
    <2> SUFFICES ASSUME NEW k \in Nat, NEW m \in Nat, m < k PROVE <<m, k>> \in R
      OBVIOUS
    <2>1. <<m, k>> \in Nat \X Nat /\ <<m, k>>[1] = m /\ <<m, k>>[2] = k
      OBVIOUS
    <2> QED
      BY <2>1
  <1> HIDE DEF R
  <1> QED
    BY <1>2, <1>3

-----------------------------------------------------------------------------
(***************************************************************************)
(* The bin of a size.  BinValue is the recursion that BinIndex makes, as   *)
(* one function on all sizes.                                              *)
(***************************************************************************)
BinStep(f, m) == IF m < 2 * SmallBins
                 THEN SmallBins - PerOctave + m \div (SmallBins \div PerOctave)
                 ELSE PerOctave + f[m \div 2]
BinFunction(f, n) == f = [m \in 0 .. n |-> BinStep(f, m)]
BinValue == [n \in Nat |-> (CHOOSE f : BinFunction(f, n))[n]]

LEMMA Halved == \A m \in Nat : m >= 2 => m \div 2 \in 0 .. m - 1
  OBVIOUS

LEMMA BinIndexIs ==
  ASSUME NEW n \in Nat
  PROVE  BinIndex(n) = IF n < SmallBins THEN n ELSE IF BinValue[n] > LastBin THEN LastBin ELSE BinValue[n]
  BY DEF BinIndex, BinValue, BinFunction, BinStep

LEMMA BinFunctionExists ==
  ASSUME NEW n \in Nat
  PROVE  \E f : BinFunction(f, n)
  <1> DEFINE Bad == {k \in Nat : ~ \E f : BinFunction(f, k)}
  <1> SUFFICES ASSUME Bad # {} PROVE FALSE
    OBVIOUS
  <1>1. PICK k \in Bad : \A m \in Bad : k <= m
    <2>1. Bad \in SUBSET Nat
      OBVIOUS
    <2> HIDE DEF Bad
    <2> QED
      BY <2>1, LeastNat
  <1>2. SmallBins \in Nat /\ SmallBins > 0
    BY BinsAssumption
  <1>3. CASE k = 0
    <2>1. BinFunction([m \in 0 .. 0 |-> BinStep(0, 0)], 0)
      <3>1. \A m \in 0 .. 0 : BinStep([i \in 0 .. 0 |-> BinStep(0, 0)], m) = BinStep(0, 0)
        BY <1>2 DEF BinStep
      <3> QED
        BY <3>1 DEF BinFunction
    <2> QED
      BY <1>1, <1>3, <2>1
  <1>4. CASE k # 0
    <2>1. k \in Nat /\ k - 1 \in Nat /\ k - 1 \notin Bad
      <3>1. Bad \subseteq Nat
        OBVIOUS
      <3> HIDE DEF Bad
      <3> QED
        BY <1>1, <1>4, <3>1
    <2>2. PICK f : BinFunction(f, k - 1)
      BY <2>1
    <2> DEFINE g == [m \in 0 .. k |-> IF m = k THEN BinStep(f, k) ELSE f[m]]
    <2>3. \A m \in 0 .. k : g[m] = BinStep(g, m)
      <3> TAKE m \in 0 .. k
      <3>1. m >= 2 * SmallBins => m \div 2 \in 0 .. k - 1 /\ m \div 2 \in 0 .. k /\ m \div 2 # k
        BY <1>2, <2>1, Halved
      <3>2. m >= 2 * SmallBins => g[m \div 2] = f[m \div 2]
        BY <3>1
      <3>3. BinStep(g, m) = BinStep(f, m)
        <4> HIDE DEF g
        <4> QED
          BY <1>2, <2>1, <3>2 DEF BinStep
      <3>4. m # k => m \in 0 .. k - 1 /\ f[m] = BinStep(f, m)
        <4>1. m # k => m \in 0 .. k - 1
          BY <2>1
        <4> QED
          BY <2>2, <4>1 DEF BinFunction
      <3> QED
        BY <3>3, <3>4
    <2>4. BinFunction(g, k)
      BY <2>3 DEF BinFunction
    <2> QED
      BY <1>1, <2>4
  <1> QED
    BY <1>3, <1>4

\* The functions of two sizes agree where both are defined.
LEMMA BinFunctionsAgree ==
  ASSUME NEW n \in Nat, NEW m \in Nat, NEW f, NEW g, BinFunction(f, n), BinFunction(g, m),
         NEW j \in Nat, j <= n, j <= m
  PROVE  f[j] = g[j]
  <1> DEFINE Bad == {k \in Nat : k <= n /\ k <= m /\ f[k] # g[k]}
  <1> SUFFICES ASSUME Bad # {} PROVE FALSE
    OBVIOUS
  <1>1. PICK k \in Bad : \A i \in Bad : k <= i
    <2>1. Bad \in SUBSET Nat
      OBVIOUS
    <2> HIDE DEF Bad
    <2> QED
      BY <2>1, LeastNat
  <1>2. SmallBins \in Nat /\ SmallBins > 0
    BY BinsAssumption
  <1>3. f[k] = BinStep(f, k) /\ g[k] = BinStep(g, k)
    <2>1. k \in 0 .. n /\ k \in 0 .. m
      BY <1>1
    <2> HIDE DEF Bad
    <2>2. f[k] = BinStep(f, k)
      BY <2>1 DEF BinFunction
    <2>3. g[k] = BinStep(g, k)
      BY <2>1 DEF BinFunction
    <2> QED
      BY <2>2, <2>3
  <1>4. k >= 2 * SmallBins => f[k \div 2] = g[k \div 2]
    <2> SUFFICES ASSUME k >= 2 * SmallBins PROVE k \div 2 \in Nat /\ k \div 2 < k
      BY <1>1
    <2> QED
      BY <1>2, Halved
  <1>5. BinStep(f, k) = BinStep(g, k)
    BY <1>2, <1>4 DEF BinStep
  <1> QED
    BY <1>3, <1>5

LEMMA BinRecursion ==
  ASSUME NEW n \in Nat
  PROVE  BinValue[n] = BinStep(BinValue, n)
  <1>1. SmallBins \in Nat /\ SmallBins > 0
    BY BinsAssumption
  <1> DEFINE F(m) == CHOOSE f : BinFunction(f, m)
  <1>2. \A m \in Nat : BinFunction(F(m), m) /\ BinValue[m] = F(m)[m]
    BY BinFunctionExists DEF BinValue
  <1> HIDE DEF F
  <1>3. BinValue[n] = BinStep(F(n), n)
    BY <1>2 DEF BinFunction
  <1>4. CASE n >= 2 * SmallBins
    <2>1. n \div 2 \in Nat /\ n \div 2 <= n
      BY <1>1, <1>4, Halved
    <2>2. F(n)[n \div 2] = F(n \div 2)[n \div 2]
      BY <1>2, <2>1, BinFunctionsAgree
    <2>3. BinStep(F(n), n) = BinStep(BinValue, n)
      BY <1>1, <1>2, <1>4, <2>1, <2>2 DEF BinStep
    <2> QED
      BY <1>3, <2>3
  <1>5. CASE n < 2 * SmallBins
    BY <1>1, <1>3, <1>5 DEF BinStep
  <1> QED
    BY <1>1, <1>4, <1>5

LEMMA DivAtLeast ==
  ASSUME NEW n \in Nat, NEW w \in Nat, w > 0, NEW q \in Nat, q * w <= n
  PROVE  n \div w \in Nat /\ n \div w >= q
  OBVIOUS

LEMMA DivLessThan ==
  ASSUME NEW n \in Nat, NEW w \in Nat, w > 0, NEW q \in Nat, n < q * w
  PROVE  n \div w \in Nat /\ n \div w < q
  OBVIOUS

LEMMA DivMonotone ==
  ASSUME NEW n \in Nat, NEW w \in Nat, w > 0, NEW m \in Nat, m <= n
  PROVE  m \div w <= n \div w
  OBVIOUS

LEMMA DivExactly ==
  ASSUME NEW n \in Nat, NEW w \in Nat, w > 0, n % w = 0
  PROVE  n \div w \in Nat /\ n = w * (n \div w)
  OBVIOUS

\* The width of the first large bins.
LEMMA BinWidth ==
  /\ SmallBins \in Nat /\ PerOctave \in Nat /\ LastBin \in Nat
  /\ PerOctave > 0 /\ PerOctave <= SmallBins /\ SmallBins <= LastBin
  /\ SmallBins \div PerOctave \in Nat /\ SmallBins \div PerOctave > 0
  /\ SmallBins = PerOctave * (SmallBins \div PerOctave)
  <1>1. /\ SmallBins \in Nat /\ PerOctave \in Nat /\ LastBin \in Nat
        /\ PerOctave > 0 /\ PerOctave <= SmallBins /\ SmallBins <= LastBin
        /\ SmallBins % PerOctave = 0
    BY BinsAssumption
  <1>2. /\ SmallBins \div PerOctave \in Nat
        /\ SmallBins = PerOctave * (SmallBins \div PerOctave)
    BY <1>1, DivExactly
  <1> DEFINE w == SmallBins \div PerOctave
  <1>3. w \in Nat /\ SmallBins = PerOctave * w
    BY <1>1, <1>2
  <1> HIDE DEF w
  <1>4. w # 0
    <2> SUFFICES ASSUME w = 0 PROVE FALSE
      OBVIOUS
    <2>1. PerOctave * w = 0
      BY <1>1
    <2> QED
      BY <1>1, <1>3, <2>1
  <1>5. w > 0
    BY <1>3, <1>4
  <1> QED
    BY <1>1, <1>3, <1>5 DEF w

\* The sizes of an octave have PerOctave bins.
LEMMA FirstOctave ==
  ASSUME NEW n \in Nat, n < 2 * SmallBins
  PROVE  /\ BinValue[n] \in Nat
         /\ n >= SmallBins => BinValue[n] >= SmallBins
         /\ BinValue[n] < SmallBins + PerOctave
  <1> DEFINE w == SmallBins \div PerOctave
             q == n \div w
  <1>1. BinValue[n] = SmallBins - PerOctave + q
    BY BinRecursion DEF BinStep
  <1>2. w \in Nat /\ w > 0 /\ SmallBins = PerOctave * w /\ PerOctave \in Nat /\ PerOctave <= SmallBins
    BY BinWidth
  <1> HIDE DEF w
  <1>3. n < (2 * PerOctave) * w /\ 2 * PerOctave \in Nat
    BY <1>2
  <1>4. q \in Nat /\ q < 2 * PerOctave
    BY <1>2, <1>3, DivLessThan
  <1>5. n >= SmallBins => q >= PerOctave
    BY <1>2, DivAtLeast
  <1> HIDE DEF q
  <1> QED
    BY <1>1, <1>2, <1>4, <1>5

LEMMA LargeBins ==
  ASSUME NEW n \in Nat
  PROVE  BinValue[n] \in Nat /\ (n >= SmallBins => BinValue[n] >= SmallBins)
  <1> DEFINE Bad == {k \in Nat : ~(BinValue[k] \in Nat /\ (k >= SmallBins => BinValue[k] >= SmallBins))}
  <1> SUFFICES ASSUME Bad # {} PROVE FALSE
    OBVIOUS
  <1>1. PICK k \in Bad : \A i \in Bad : k <= i
    <2>1. Bad \in SUBSET Nat
      OBVIOUS
    <2> HIDE DEF Bad
    <2> QED
      BY <2>1, LeastNat
  <1>2. k >= 2 * SmallBins
    BY FirstOctave, BinWidth
  <1>3. BinValue[k] = PerOctave + BinValue[k \div 2]
    BY <1>2, BinRecursion, BinWidth DEF BinStep
  <1>4. k \div 2 \in Nat /\ k \div 2 < k /\ k \div 2 >= SmallBins
    BY <1>2, BinWidth
  <1>5. BinValue[k \div 2] \in Nat /\ BinValue[k \div 2] >= SmallBins
    BY <1>1, <1>4
  <1> QED
    BY <1>3, <1>5, BinWidth

\* A small bin has one size; every size has a bin.
LEMMA BinIndexFacts ==
  ASSUME NEW n \in Nat
  PROVE  /\ BinIndex(n) \in Index
         /\ BinIndex(n) < SmallBins => BinIndex(n) = n
         /\ n < SmallBins => BinIndex(n) = n
  BY BinIndexIs, LargeBins, BinWidth DEF Index

LEMMA BinValueMonotone ==
  ASSUME NEW n \in Nat, NEW m \in Nat, m <= n
  PROVE  BinValue[m] <= BinValue[n]
  <1> DEFINE Bad == {k \in Nat : \E i \in 0 .. k : ~(BinValue[i] <= BinValue[k])}
  <1> SUFFICES ASSUME Bad # {} PROVE FALSE
    OBVIOUS
  <1>1. PICK k \in Bad : \A j \in Bad : k <= j
    <2>1. Bad \in SUBSET Nat
      OBVIOUS
    <2> HIDE DEF Bad
    <2> QED
      BY <2>1, LeastNat
  <1>2. PICK i \in 0 .. k : ~(BinValue[i] <= BinValue[k])
    BY <1>1
  <1>3. k \in Nat /\ i \in Nat /\ i <= k
    OBVIOUS
  <1>4. \A j \in Nat : \A l \in 0 .. j : j < k => BinValue[l] <= BinValue[j]
    BY <1>1
  <1> HIDE DEF Bad
  <1>5. CASE k < 2 * SmallBins
    <2> DEFINE w == SmallBins \div PerOctave
    <2>1. BinValue[i] = SmallBins - PerOctave + i \div w /\ BinValue[k] = SmallBins - PerOctave + k \div w
      BY <1>3, <1>5, BinRecursion, BinWidth DEF BinStep
    <2>2. w \in Nat /\ w > 0
      BY BinWidth
    <2> HIDE DEF w
    <2>3. i \div w <= k \div w /\ i \div w \in Nat /\ k \div w \in Nat
      BY <1>3, <2>2, DivMonotone
    <2> QED
      BY <1>2, <2>1, <2>3, BinWidth
  <1>6. CASE k >= 2 * SmallBins
    <2>1. BinValue[k] = PerOctave + BinValue[k \div 2]
      BY <1>3, <1>6, BinRecursion, BinWidth DEF BinStep
    <2>2. k \div 2 \in Nat /\ k \div 2 < k /\ k \div 2 >= SmallBins
      BY <1>3, <1>6, BinWidth
    <2>3. BinValue[k \div 2] \in Nat /\ BinValue[i] \in Nat
      BY <1>3, <2>2, LargeBins
    <2>4. CASE i < 2 * SmallBins
      <3>1. BinValue[k \div 2] >= SmallBins
        BY <2>2, LargeBins
      <3>2. BinValue[i] < SmallBins + PerOctave
        BY <1>3, <2>4, FirstOctave
      <3> QED
        BY <1>2, <2>1, <2>3, <3>1, <3>2, BinWidth
    <2>5. CASE i >= 2 * SmallBins
      <3>1. BinValue[i] = PerOctave + BinValue[i \div 2]
        BY <1>3, <2>5, BinRecursion, BinWidth DEF BinStep
      <3>2. i \div 2 \in 0 .. k \div 2
        BY <1>3, <2>2
      <3>3. BinValue[i \div 2] <= BinValue[k \div 2]
        BY <1>4, <2>2, <3>2
      <3>4. BinValue[i \div 2] \in Nat
        BY <2>2, <3>2, LargeBins
      <3> QED
        BY <1>2, <2>1, <2>3, <3>1, <3>3, <3>4, BinWidth
    <2> QED
      BY <1>3, <2>4, <2>5, BinWidth
  <1> QED
    BY <1>3, <1>5, <1>6, BinWidth

\* Larger sizes are in later bins.
LEMMA BinMonotone ==
  ASSUME NEW n \in Nat, NEW m \in Nat, m <= n
  PROVE  BinIndex(m) <= BinIndex(n)
  <1>1. BinValue[m] <= BinValue[n]
    BY BinValueMonotone
  <1>2. BinValue[m] \in Nat /\ BinValue[n] \in Nat /\ (n >= SmallBins => BinValue[n] >= SmallBins)
    BY LargeBins
  <1> QED
    BY <1>1, <1>2, BinIndexIs, BinWidth

-----------------------------------------------------------------------------
(***************************************************************************)
(* What the operators on sequences return, position by position.           *)
(***************************************************************************)
LEMMA InsertAtIs ==
  ASSUME NEW S, NEW c \in Seq(S), NEW i \in 1 .. Len(c) + 1, NEW n \in S
  PROVE  InsertAt(c, i, n)
           = [k \in 1 .. Len(c) + 1 |-> IF k < i THEN c[k] ELSE IF k = i THEN n ELSE c[k - 1]]
  <1> DEFINE a == SubSeq(c, 1, i - 1)
             b == SubSeq(c, i, Len(c))
             d == InsertAt(c, i, n)
             e == [k \in 1 .. Len(c) + 1 |-> IF k < i THEN c[k] ELSE IF k = i THEN n ELSE c[k - 1]]
  <1>1. Len(c) \in Nat /\ \A k \in 1 .. Len(c) : c[k] \in S
    BY ElementOfSeq
  <1>2. a \in Seq(S) /\ Len(a) = i - 1 /\ \A k \in 1 .. i - 1 : a[k] = c[k]
    BY <1>1
  <1>3. b \in Seq(S) /\ Len(b) = Len(c) - i + 1 /\ \A k \in 1 .. Len(c) - i + 1 : b[k] = c[i + k - 1]
    BY <1>1
  <1>4. d = (a \o <<n>>) \o b
    BY DEF InsertAt
  <1> HIDE DEF a, b, d
  <1>5. /\ a \o <<n>> \in Seq(S) /\ Len(a \o <<n>>) = i
        /\ \A k \in 1 .. i : (a \o <<n>>)[k] = IF k < i THEN c[k] ELSE n
    BY <1>1, <1>2
  <1>6. /\ d \in Seq(S) /\ Len(d) = Len(c) + 1
        /\ \A k \in 1 .. Len(c) + 1 : d[k] = IF k <= i THEN (a \o <<n>>)[k] ELSE b[k - i]
    <2> DEFINE ab == a \o <<n>>
    <2> HIDE DEF ab
    <2>1. ab \in Seq(S) /\ Len(ab) = i /\ d = ab \o b
      BY <1>4, <1>5 DEF ab
    <2>2. b \in Seq(S)
      BY <1>3
    <2>3. /\ ab \o b \in Seq(S) /\ Len(ab \o b) = Len(ab) + Len(b)
          /\ \A k \in 1 .. Len(ab) + Len(b) : (ab \o b)[k] = IF k <= Len(ab) THEN ab[k] ELSE b[k - Len(ab)]
      BY <2>1, <2>2, ConcatProperties
    <2>4. Len(ab) + Len(b) = Len(c) + 1
      BY <1>1, <1>3, <2>1
    <2> QED
      BY <2>1, <2>3, <2>4 DEF ab
  <1>7. \A k \in 1 .. Len(c) + 1 : d[k] = e[k]
    <2> TAKE k \in 1 .. Len(c) + 1
    <2>1. CASE k <= i
      <3>1. k \in 1 .. i
        BY <1>1, <2>1
      <3> QED
        BY <1>1, <1>5, <1>6, <2>1, <3>1
    <2>2. CASE ~(k <= i)
      <3>1. k - i \in 1 .. Len(c) - i + 1 /\ i + (k - i) - 1 = k - 1
        BY <1>1, <2>2
      <3>2. b[k - i] = c[k - 1]
        BY <1>3, <3>1
      <3> QED
        BY <1>1, <1>6, <2>2, <3>2
    <2> QED
      BY <2>1, <2>2
  <1>8. e \in Seq(S) /\ Len(e) = Len(c) + 1
    <2>1. e \in [1 .. Len(c) + 1 -> S]
      BY <1>1
    <2> QED
      BY <1>1, <2>1, IsASeq
  <1> HIDE DEF e
  <1> QED
    BY <1>6, <1>7, <1>8, SeqEqual DEF d, e

LEMMA RemoveAtIs ==
  ASSUME NEW S, NEW c \in Seq(S), NEW i \in 1 .. Len(c)
  PROVE  RemoveAt(c, i) = [k \in 1 .. Len(c) - 1 |-> IF k < i THEN c[k] ELSE c[k + 1]]
  <1> DEFINE a == SubSeq(c, 1, i - 1)
             b == SubSeq(c, i + 1, Len(c))
             d == RemoveAt(c, i)
             e == [k \in 1 .. Len(c) - 1 |-> IF k < i THEN c[k] ELSE c[k + 1]]
  <1>1. Len(c) \in Nat /\ \A k \in 1 .. Len(c) : c[k] \in S
    BY ElementOfSeq
  <1>2. a \in Seq(S) /\ Len(a) = i - 1 /\ \A k \in 1 .. i - 1 : a[k] = c[k]
    BY <1>1
  <1>3. b \in Seq(S) /\ Len(b) = Len(c) - i /\ \A k \in 1 .. Len(c) - i : b[k] = c[i + k]
    BY <1>1
  <1>4. d = a \o b
    BY DEF RemoveAt
  <1> HIDE DEF a, b, d
  <1>5. /\ d \in Seq(S) /\ Len(d) = Len(c) - 1
        /\ \A k \in 1 .. Len(c) - 1 : d[k] = IF k <= i - 1 THEN a[k] ELSE b[k - (i - 1)]
    <2>1. a \in Seq(S) /\ b \in Seq(S)
      BY <1>2, <1>3
    <2>2. /\ a \o b \in Seq(S) /\ Len(a \o b) = Len(a) + Len(b)
          /\ \A k \in 1 .. Len(a) + Len(b) : (a \o b)[k] = IF k <= Len(a) THEN a[k] ELSE b[k - Len(a)]
      BY <2>1, ConcatProperties
    <2>3. Len(a) + Len(b) = Len(c) - 1 /\ Len(a) = i - 1
      BY <1>1, <1>2, <1>3
    <2> QED
      BY <1>4, <2>2, <2>3
  <1>6. \A k \in 1 .. Len(c) - 1 : d[k] = e[k]
    BY <1>1, <1>2, <1>3, <1>5
  <1>7. e \in Seq(S) /\ Len(e) = Len(c) - 1
    <2>1. e \in [1 .. Len(c) - 1 -> S]
      BY <1>1
    <2> QED
      BY <1>1, <2>1, IsASeq
  <1> HIDE DEF e
  <1> QED
    BY <1>5, <1>6, <1>7, SeqEqual DEF d, e

\* One more at the front.
LEMMA FrontIs ==
  ASSUME NEW S, NEW c \in Seq(S), NEW n \in S
  PROVE  /\ <<n>> \o c \in Seq(S) /\ Len(<<n>> \o c) = Len(c) + 1
         /\ \A k \in 1 .. Len(c) + 1 : (<<n>> \o c)[k] = IF k = 1 THEN n ELSE c[k - 1]
  <1>1. <<n>> \in Seq(S) /\ Len(<<n>>) = 1 /\ <<n>>[1] = n
    OBVIOUS
  <1> DEFINE a == <<n>>
  <1> HIDE DEF a
  <1>2. a \in Seq(S) /\ Len(a) = 1 /\ a[1] = n
    BY <1>1 DEF a
  <1>3. /\ a \o c \in Seq(S) /\ Len(a \o c) = Len(a) + Len(c)
        /\ \A k \in 1 .. Len(a) + Len(c) : (a \o c)[k] = IF k <= Len(a) THEN a[k] ELSE c[k - Len(a)]
    BY <1>2, ConcatProperties
  <1>4. Len(c) \in Nat
    OBVIOUS
  <1>5. \A k \in 1 .. Len(c) + 1 : (a \o c)[k] = IF k = 1 THEN n ELSE c[k - 1]
    BY <1>2, <1>3, <1>4
  <1> QED
    BY <1>2, <1>3, <1>4, <1>5 DEF a

\* A set of positions from the first on is counted by its last.
LEMMA Counted ==
  ASSUME NEW L \in Nat, NEW P \in SUBSET (1 .. L), \A j, k \in 1 .. L : j < k /\ k \in P => j \in P
  PROVE  Cardinality(P) \in 0 .. L /\ P = 1 .. Cardinality(P)
  <1> DEFINE Out == {m \in Nat : m + 1 \notin P}
  <1>1. PICK m \in Out : \A j \in Out : m <= j
    <2>1. L \in Out /\ Out \in SUBSET Nat
      OBVIOUS
    <2> HIDE DEF Out
    <2> QED
      BY <2>1, LeastNat
  <1>2. m \in Nat /\ m + 1 \notin P
    OBVIOUS
  <1>3. \A k \in 1 .. m : k \in P
    <2> SUFFICES ASSUME NEW k \in 1 .. m, k \notin P PROVE FALSE
      OBVIOUS
    <2>1. k - 1 \in Out /\ k - 1 < m
      OBVIOUS
    <2> QED
      BY <1>1, <2>1
  <1>4. m <= L
    <2>1. L \in Out
      OBVIOUS
    <2> QED
      BY <1>1, <2>1
  <1> HIDE DEF Out
  <1>5. \A k \in P : k <= m
    <2> SUFFICES ASSUME NEW k \in P, k > m PROVE FALSE
      BY <1>2
    <2>1. m + 1 \in 1 .. L /\ k \in 1 .. L
      BY <1>2
    <2>2. m + 1 = k \/ m + 1 < k
      BY <1>2, <2>1
    <2> QED
      BY <1>2, <2>1, <2>2
  <1>6. P = 1 .. m
    <2>1. \A k \in P : k \in 1 .. L /\ k <= m
      BY <1>5
    <2>2. P \subseteq 1 .. m
      BY <1>2, <2>1
    <2> QED
      BY <1>3, <2>2
  <1>7. Cardinality(1 .. m) = m
    BY <1>2, FS_Interval
  <1> QED
    BY <1>2, <1>4, <1>6, <1>7

-----------------------------------------------------------------------------
(***************************************************************************)
(* The bins of a pool hold the chunks F.                                   *)
(***************************************************************************)
Record(p) == p = [tag |-> p.tag, prevTag |-> p.prevTag, areas |-> p.areas, areaMore |-> p.areaMore,
                  bins |-> p.bins, marked |-> p.marked]

InBin(p, F, i, b) ==
  /\ \A k \in 1 .. Len(b) : b[k] \in F /\ BinIndex(p.tag[b[k]].size) = i
  /\ \A j, k \in 1 .. Len(b) : j < k => b[j] # b[k] /\ p.tag[b[j]].size >= p.tag[b[k]].size
  /\ \A c \in F : BinIndex(p.tag[c].size) = i => \E k \in 1 .. Len(b) : b[k] = c

Binned(p, F) ==
  /\ p.bins \in [Index -> Seq(Nat)] /\ p.marked \subseteq Index
  /\ \A c \in F : c \in Nat /\ p.tag[c].size \in Nat
  /\ \A i \in Index : (i \in p.marked <=> p.bins[i] # <<>>) /\ InBin(p, F, i, p.bins[i])

\* All but the bins and their bits.
SameTags(p, q) == q.tag = p.tag /\ q.prevTag = p.prevTag /\ q.areas = p.areas /\ q.areaMore = p.areaMore

BinSet(p, q, i, b) ==
  /\ q.bins = [p.bins EXCEPT ![i] = b]
  /\ q.marked = IF b = <<>> THEN p.marked \ {i} ELSE p.marked \union {i}

\* F and G are the same but for chunks of the bin i.
SameBut(p, F, G, i) ==
  /\ \A c \in G : c \in Nat /\ p.tag[c].size \in Nat
  /\ \A c \in (F \ G) \union (G \ F) : BinIndex(p.tag[c].size) = i

\* The other bins are not about the chunks of the changed bin.
LEMMA BinChanged ==
  ASSUME NEW p, NEW F, Binned(p, F), NEW q, SameTags(p, q), NEW i \in Index, NEW b \in Seq(Nat), NEW G,
         BinSet(p, q, i, b), SameBut(p, F, G, i), InBin(p, G, i, b)
  PROVE  Binned(q, G)
  <1>1. q.bins \in [Index -> Seq(Nat)] /\ q.marked \subseteq Index
    BY DEF Binned, BinSet
  <1>2. \A j \in Index : (j \in q.marked <=> q.bins[j] # <<>>) /\ InBin(q, G, j, q.bins[j])
    <2> TAKE j \in Index
    <2>1. CASE j = i
      <3>1. q.bins[i] = b
        BY DEF Binned, BinSet
      <3>2. InBin(q, G, i, b)
        BY DEF InBin, SameTags
      <3> QED
        BY <2>1, <3>1, <3>2 DEF Binned, BinSet
    <2>2. CASE j # i
      <3>1. q.bins[j] = p.bins[j] /\ (j \in q.marked <=> j \in p.marked)
        BY <2>2 DEF Binned, BinSet
      <3>2. InBin(p, F, j, p.bins[j]) /\ (j \in p.marked <=> p.bins[j] # <<>>)
        BY DEF Binned
      <3>3. InBin(p, G, j, p.bins[j])
        BY <2>2, <3>2 DEF InBin, SameBut
      <3>4. InBin(q, G, j, p.bins[j])
        BY <3>3 DEF InBin, SameTags
      <3> QED
        BY <3>1, <3>2, <3>4
    <2> QED
      BY <2>1, <2>2
  <1> QED
    BY <1>1, <1>2 DEF Binned, SameTags, SameBut

\* The bins are a matter of the sizes of the chunks in them.
LEMMA BinnedSame ==
  ASSUME NEW p, NEW F, Binned(p, F), NEW q, q.bins = p.bins, q.marked = p.marked,
         \A c \in F : q.tag[c].size = p.tag[c].size
  PROVE  Binned(q, F)
  <1>1. \A i \in Index : InBin(q, F, i, p.bins[i])
    <2> TAKE i \in Index
    <2> DEFINE b == p.bins[i]
    <2>1. InBin(p, F, i, b)
      BY DEF Binned
    <2> HIDE DEF b
    <2>2. \A k \in 1 .. Len(b) : b[k] \in F /\ q.tag[b[k]].size = p.tag[b[k]].size
      BY <2>1 DEF InBin
    <2>3. InBin(q, F, i, b)
      BY <2>1, <2>2 DEF InBin
    <2> QED
      BY <2>3 DEF b
  <1> QED
    BY <1>1 DEF Binned

LEMMA NoBinEmpty ==
  ASSUME NEW b \in Seq(Nat)
  PROVE  Len(b) \in Nat /\ (b = <<>> <=> Len(b) = 0)
  BY EmptySeq

LEMMA LinkFreeBins ==
  ASSUME NEW p, Record(p), NEW F, Binned(p, F), NEW c \in Nat, c \notin F, p.tag[c].size \in Nat
  PROVE  LET q == LinkFree(p, c) IN Record(q) /\ SameTags(p, q) /\ Binned(q, F \union {c})
  <1> DEFINE n == p.tag[c].size
             i == BinIndex(n)
             b == p.bins[i]
             q == LinkFree(p, c)
             G == F \union {c}
             P == {k \in DOMAIN b : p.tag[b[k]].size > n}
             X == [p EXCEPT !.bins[i] = <<c>> \o b, !.marked = @ \union {i}]
             Y == [p EXCEPT !.bins[i] = InsertAt(b, Cardinality(P) + 1, c)]
  <1>0. q = IF i < SmallBins \/ b = <<>> THEN X ELSE Y
    BY DEF LinkFree
  <1> HIDE DEF q, X, Y
  <1>1. i \in Index /\ (i < SmallBins => i = n) /\ \A m \in Nat : BinIndex(m) < SmallBins => BinIndex(m) = m
    BY BinIndexFacts
  <1>2. b \in Seq(Nat) /\ Len(b) \in Nat /\ InBin(p, F, i, b) /\ (i \in p.marked <=> b # <<>>)
    BY <1>1 DEF Binned
  <1>3. \A d \in G : d \in Nat /\ p.tag[d].size \in Nat
    BY DEF Binned
  <1>4. p.bins \in [Index -> Seq(Nat)]
    BY DEF Binned
  <1> HIDE DEF G
  <1>5. \A d \in (F \ G) \union (G \ F) : BinIndex(p.tag[d].size) = i
    BY DEF G
  <1>6. CASE i < SmallBins \/ b = <<>>
    <2> DEFINE e == <<c>> \o b
    <2>1. q = [p EXCEPT !.bins[i] = e, !.marked = @ \union {i}]
      BY <1>0, <1>6 DEF X
    <2>2. /\ e \in Seq(Nat) /\ Len(e) = Len(b) + 1
          /\ \A k \in 1 .. Len(b) + 1 : e[k] = IF k = 1 THEN c ELSE b[k - 1]
      <3> HIDE DEF b
      <3> QED
        BY <1>2, FrontIs
    <2> HIDE DEF e
    <2>3. \A k \in 1 .. Len(b) : b[k] \in F /\ p.tag[b[k]].size = n
      <3>1. CASE b = <<>>
        BY <3>1
      <3>2. CASE i < SmallBins
        <4> HIDE DEF i, b, n
        <4>1. \A k \in 1 .. Len(b) : b[k] \in F /\ BinIndex(p.tag[b[k]].size) = i
          BY <1>2 DEF InBin
        <4> QED
          BY <1>1, <1>3, <3>2, <4>1 DEF G
      <3> QED
        BY <1>6, <3>1, <3>2
    <2>4. InBin(p, G, i, e)
      <3> HIDE DEF i, b
      <3>0. /\ Len(b) \in Nat /\ Len(e) = Len(b) + 1
            /\ \A k \in 1 .. Len(b) + 1 : e[k] = IF k = 1 THEN c ELSE b[k - 1]
        BY <1>2, <2>2
      <3>1. \A k \in 1 .. Len(e) : k = 1 \/ (k - 1 \in 1 .. Len(b) /\ e[k] = b[k - 1])
        <4> HIDE DEF n
        <4> QED
          BY <3>0
      <3>2. \A k \in 1 .. Len(e) : e[k] \in G /\ BinIndex(p.tag[e[k]].size) = i /\ p.tag[e[k]].size = n
        <4> SUFFICES ASSUME NEW k \in 1 .. Len(e)
                     PROVE  e[k] \in G /\ BinIndex(p.tag[e[k]].size) = i /\ p.tag[e[k]].size = n
          OBVIOUS
        <4>1. c \in G /\ \A d \in F : d \in G
          BY DEF G
        <4>2. CASE k = 1
          <5>1. e[k] = c
            BY <3>0, <4>2
          <5>2. p.tag[c].size = n /\ BinIndex(p.tag[c].size) = i
            BY DEF i
          <5> HIDE DEF n
          <5> QED
            BY <4>1, <5>1, <5>2
        <4>3. CASE k # 1
          <5>1. k - 1 \in 1 .. Len(b) /\ e[k] = b[k - 1]
            BY <3>1, <4>3
          <5>2. b[k - 1] \in F /\ p.tag[b[k - 1]].size = n
            BY <2>3, <5>1
          <5>3. BinIndex(n) = i
            BY DEF i
          <5> HIDE DEF n
          <5> QED
            BY <4>1, <5>1, <5>2, <5>3
        <4> QED
          BY <4>2, <4>3
      <3>3. \A j, k \in 1 .. Len(e) : j < k => e[j] # e[k]
        <4> SUFFICES ASSUME NEW j \in 1 .. Len(e), NEW k \in 1 .. Len(e), j < k PROVE e[j] # e[k]
          OBVIOUS
        <4>1. k - 1 \in 1 .. Len(b) /\ e[k] = b[k - 1]
          <5>1. k # 1
            BY <3>0
          <5> QED
            BY <3>1, <5>1
        <4>2. CASE j = 1
          BY <1>2, <2>2, <2>3, <4>1, <4>2
        <4>3. CASE j # 1
          <5>1. j - 1 \in 1 .. Len(b) /\ e[j] = b[j - 1]
            BY <3>1, <4>3
          <5>2. j - 1 < k - 1
            BY <3>0
          <5>3. \A x, y \in 1 .. Len(b) : x < y => b[x] # b[y]
            BY <1>2 DEF InBin
          <5> QED
            BY <4>1, <5>1, <5>2, <5>3
        <4> QED
          BY <4>2, <4>3
      <3>4. \A d \in G : BinIndex(p.tag[d].size) = i => \E k \in 1 .. Len(e) : e[k] = d
        <4> SUFFICES ASSUME NEW d \in G, BinIndex(p.tag[d].size) = i PROVE \E k \in 1 .. Len(e) : e[k] = d
          OBVIOUS
        <4>1. CASE d = c
          BY <1>2, <2>2, <4>1
        <4>2. CASE d \in F
          <5>1. PICK k \in 1 .. Len(b) : b[k] = d
            BY <1>2, <4>2 DEF InBin
          <5>2. k + 1 \in 1 .. Len(b) + 1 /\ k + 1 # 1 /\ (k + 1) - 1 = k
            BY <1>2
          <5> QED
            BY <2>2, <5>1, <5>2
        <4> QED
          BY <4>1, <4>2 DEF G
      <3>5. n \in Nat
        OBVIOUS
      <3> QED
        BY <3>2, <3>3, <3>4, <3>5 DEF InBin
    <2>5. /\ Record(q) /\ SameTags(p, q)
          /\ q.bins = [p.bins EXCEPT ![i] = e] /\ q.marked = p.marked \union {i}
      <3> HIDE DEF i, b
      <3> QED
        BY <1>1, <1>4, <2>1 DEF Record, SameTags
    <2>6. e # <<>>
      BY <1>2, <2>2
    <2> HIDE DEF q, i, b
    <2>7. BinSet(p, q, i, e) /\ SameBut(p, F, G, i)
      BY <1>3, <1>5, <2>5, <2>6 DEF BinSet, SameBut
    <2>8. Binned(q, G)
      BY <1>1, <2>2, <2>4, <2>5, <2>7, BinChanged
    <2> QED
      BY <2>5, <2>8 DEF q, G
  <1>7. CASE ~(i < SmallBins \/ b = <<>>)
    <2> DEFINE r == Cardinality(P) + 1
               e == InsertAt(b, r, c)
    <2>1. q = [p EXCEPT !.bins[i] = e]
      BY <1>0, <1>7 DEF Y
    <2>2. P \in SUBSET (1 .. Len(b)) /\ \A k \in 1 .. Len(b) : k \in P <=> p.tag[b[k]].size > n
      <3>1. DOMAIN b = 1 .. Len(b)
        <4> HIDE DEF b
        <4> QED
          BY <1>2
      <3>2. \A k : k \in P <=> k \in DOMAIN b /\ p.tag[b[k]].size > n
        OBVIOUS
      <3> HIDE DEF P, b, n
      <3> QED
        BY <3>1, <3>2
    <2>3. \A k \in 1 .. Len(b) : b[k] \in F /\ p.tag[b[k]].size \in Nat
      BY <1>2 DEF InBin, Binned
    <2> HIDE DEF P, b, i
    <2>4. \A j, k \in 1 .. Len(b) : j < k /\ k \in P => j \in P
      <3>1. \A j, k \in 1 .. Len(b) : j < k => p.tag[b[j]].size >= p.tag[b[k]].size
        BY <1>2 DEF InBin
      <3> SUFFICES ASSUME NEW j \in 1 .. Len(b), NEW k \in 1 .. Len(b), j < k, k \in P PROVE j \in P
        OBVIOUS
      <3>2. p.tag[b[k]].size > n /\ p.tag[b[j]].size >= p.tag[b[k]].size
        BY <2>2, <3>1
      <3>3. p.tag[b[j]].size \in Nat /\ p.tag[b[k]].size \in Nat /\ n \in Nat
        BY <2>3
      <3>4. \A x, y, z \in Nat : y > z /\ x >= y => x > z
        OBVIOUS
      <3>5. p.tag[b[j]].size > n
        BY <3>2, <3>3, <3>4
      <3> QED
        BY <2>2, <3>5
    <2>5. Cardinality(P) \in 0 .. Len(b) /\ P = 1 .. Cardinality(P)
      BY <1>2, <2>2, <2>4, Counted
    <2>6. r \in 1 .. Len(b) + 1 /\ \A k \in 1 .. Len(b) : k < r <=> p.tag[b[k]].size > n
      <3>1. \A k \in 1 .. Len(b) : k < r <=> k \in P
        BY <1>2, <2>5
      <3> QED
        BY <1>2, <2>2, <2>5, <3>1
    <2> HIDE DEF r
    <2>7. e = [k \in 1 .. Len(b) + 1 |-> IF k < r THEN b[k] ELSE IF k = r THEN c ELSE b[k - 1]]
      BY <1>2, <2>6, InsertAtIs
    <2> HIDE DEF e
    <2>8. e \in Seq(Nat) /\ Len(e) = Len(b) + 1
      <3>1. e \in [1 .. Len(b) + 1 -> Nat]
        <4>1. \A k \in 1 .. Len(b) : b[k] \in Nat
          BY <1>2
        <4> QED
          BY <1>2, <2>6, <2>7, <4>1
      <3> QED
        BY <1>2, <3>1, IsASeq
    <2>9. \A k \in 1 .. Len(e) :
            /\ k < r => k \in 1 .. Len(b) /\ e[k] = b[k]
            /\ k = r => e[k] = c
            /\ k > r => k - 1 \in 1 .. Len(b) /\ e[k] = b[k - 1] /\ ~(k - 1 < r)
      BY <1>2, <2>6, <2>7, <2>8
    <2>10. InBin(p, G, i, e)
      <3>1. \A k \in 1 .. Len(e) : e[k] \in G /\ BinIndex(p.tag[e[k]].size) = i
        <4> SUFFICES ASSUME NEW k \in 1 .. Len(e) PROVE e[k] \in G /\ BinIndex(p.tag[e[k]].size) = i
          OBVIOUS
        <4>1. \A j \in 1 .. Len(b) : b[j] \in F /\ BinIndex(p.tag[b[j]].size) = i
          BY <1>2 DEF InBin
        <4>2. BinIndex(p.tag[c].size) = i
          BY DEF i
        <4>3. k < r \/ k = r \/ k > r
          BY <1>2, <2>6, <2>8
        <4> QED
          BY <2>9, <4>1, <4>2, <4>3 DEF G
      <3>2. \A j, k \in 1 .. Len(e) : j < k => e[j] # e[k] /\ p.tag[e[j]].size >= p.tag[e[k]].size
        <4> SUFFICES ASSUME NEW j \in 1 .. Len(e), NEW k \in 1 .. Len(e), j < k
                     PROVE  e[j] # e[k] /\ p.tag[e[j]].size >= p.tag[e[k]].size
          OBVIOUS
        <4>0. \A x, y \in 1 .. Len(b) : x < y => b[x] # b[y] /\ p.tag[b[x]].size >= p.tag[b[y]].size
          BY <1>2 DEF InBin
        <4>1. j \in Nat /\ k \in Nat /\ r \in Nat
          BY <1>2, <2>6, <2>8
        <4>2. CASE k < r
          BY <2>9, <4>0, <4>1, <4>2
        <4>3. CASE k = r
          <5>1. e[k] = c /\ j \in 1 .. Len(b) /\ e[j] = b[j] /\ p.tag[b[j]].size > n /\ b[j] \in F
            BY <2>3, <2>6, <2>9, <4>1, <4>3
          <5> QED
            BY <2>3, <5>1
        <4>4. CASE k > r
          <5>1. k - 1 \in 1 .. Len(b) /\ e[k] = b[k - 1] /\ ~(p.tag[b[k - 1]].size > n) /\ b[k - 1] \in F
            BY <2>3, <2>6, <2>9, <4>1, <4>4
          <5>2. CASE j < r
            <6>1. j \in 1 .. Len(b) /\ e[j] = b[j] /\ j < k - 1
              BY <2>9, <4>1, <4>4, <5>2
            <6> QED
              BY <4>0, <5>1, <6>1
          <5>3. CASE j = r
            <6>1. e[j] = c
              BY <2>9, <5>3
            <6> QED
              BY <2>3, <5>1, <6>1
          <5>4. CASE j > r
            <6>1. j - 1 \in 1 .. Len(b) /\ e[j] = b[j - 1] /\ j - 1 < k - 1
              BY <2>9, <4>1, <5>4
            <6> QED
              BY <4>0, <5>1, <6>1
          <5> QED
            BY <4>1, <5>2, <5>3, <5>4
        <4> QED
          BY <4>1, <4>2, <4>3, <4>4
      <3>3. \A d \in G : BinIndex(p.tag[d].size) = i => \E k \in 1 .. Len(e) : e[k] = d
        <4> SUFFICES ASSUME NEW d \in G, BinIndex(p.tag[d].size) = i PROVE \E k \in 1 .. Len(e) : e[k] = d
          OBVIOUS
        <4>1. CASE d = c
          BY <2>6, <2>8, <2>9, <4>1
        <4>2. CASE d \in F
          <5>1. PICK k \in 1 .. Len(b) : b[k] = d
            BY <1>2, <4>2 DEF InBin
          <5>2. CASE k < r
            <6>1. k \in 1 .. Len(b) + 1 /\ e[k] = b[k]
              BY <1>2, <2>7, <5>2
            <6> QED
              BY <2>8, <5>1, <6>1
          <5>3. CASE ~(k < r)
            <6>1. k + 1 \in 1 .. Len(b) + 1 /\ ~(k + 1 < r) /\ k + 1 # r /\ (k + 1) - 1 = k
              BY <1>2, <2>6, <5>3
            <6>2. e[k + 1] = b[k]
              BY <2>7, <6>1
            <6> QED
              BY <2>8, <5>1, <6>1, <6>2
          <5> QED
            BY <5>2, <5>3
        <4> QED
          BY <4>1, <4>2 DEF G
      <3> QED
        BY <3>1, <3>2, <3>3 DEF InBin
    <2>11. Record(q) /\ SameTags(p, q) /\ q.bins = [p.bins EXCEPT ![i] = e] /\ q.marked = p.marked
      <3> HIDE DEF q
      <3> QED
        BY <1>1, <1>4, <2>1 DEF Record, SameTags
    <2>12. e # <<>> /\ i \in p.marked
      BY <1>2, <1>7, <2>8
    <2> HIDE DEF q
    <2>13. BinSet(p, q, i, e) /\ SameBut(p, F, G, i)
      BY <1>3, <1>5, <2>11, <2>12 DEF BinSet, SameBut
    <2>14. Binned(q, G)
      BY <1>1, <2>8, <2>10, <2>11, <2>13, BinChanged
    <2> QED
      BY <2>11, <2>14 DEF q, G
  <1> QED
    BY <1>6, <1>7

LEMMA UnlinkFreeBins ==
  ASSUME NEW p, Record(p), NEW F, Binned(p, F), NEW c \in F
  PROVE  LET q == UnlinkFree(p, c) IN Record(q) /\ SameTags(p, q) /\ Binned(q, F \ {c})
  <1> DEFINE n == p.tag[c].size
             i == BinIndex(n)
             b == p.bins[i]
             q == UnlinkFree(p, c)
             r == CHOOSE k \in DOMAIN b : b[k] = c
             e == RemoveAt(b, r)
             G == F \ {c}
  <1>1. i \in Index /\ c \in Nat /\ n \in Nat
    BY BinIndexFacts DEF Binned
  <1>2. b \in Seq(Nat) /\ Len(b) \in Nat /\ InBin(p, F, i, b) /\ (i \in p.marked <=> b # <<>>)
    BY <1>1 DEF Binned
  <1>3. q = [p EXCEPT !.bins[i] = e, !.marked = IF e = <<>> THEN @ \ {i} ELSE @]
    BY DEF UnlinkFree
  <1>4. p.bins \in [Index -> Seq(Nat)]
    BY DEF Binned
  <1>5. r \in 1 .. Len(b) /\ b[r] = c
    <2>1. \E k \in 1 .. Len(b) : b[k] = c
      <3> HIDE DEF b, n
      <3> QED
        BY <1>2 DEF InBin, n
    <2>2. DOMAIN b = 1 .. Len(b)
      BY <1>2
    <2> HIDE DEF b
    <2> QED
      BY <2>1, <2>2
  <1> HIDE DEF r, q
  <1>6. SameBut(p, F, G, i)
    BY DEF SameBut, Binned
  <1> HIDE DEF b, i, n, G
  <1>7. e = [k \in 1 .. Len(b) - 1 |-> IF k < r THEN b[k] ELSE b[k + 1]]
    BY <1>2, <1>5, RemoveAtIs
  <1> HIDE DEF e
  <1>8. e \in Seq(Nat) /\ Len(e) = Len(b) - 1
    <2>1. Len(b) - 1 \in Nat /\ \A k \in 1 .. Len(b) : b[k] \in Nat
      BY <1>2, <1>5
    <2>2. e \in [1 .. Len(b) - 1 -> Nat]
      BY <1>5, <1>7, <2>1
    <2> QED
      BY <2>1, <2>2, IsASeq
  <1>a. r \in Nat /\ 1 <= r /\ r <= Len(b) /\ Len(b) \in Nat
    BY <1>2, <1>5
  <1>9. \A k \in 1 .. Len(e) :
          /\ k < r => k \in 1 .. Len(b) /\ e[k] = b[k]
          /\ ~(k < r) => k + 1 \in 1 .. Len(b) /\ e[k] = b[k + 1] /\ k + 1 > r
    BY <1>a, <1>7, <1>8
  <1>10. \A j, k \in 1 .. Len(b) : j < k => b[j] # b[k] /\ p.tag[b[j]].size >= p.tag[b[k]].size
    BY <1>2 DEF InBin
  <1>11. InBin(p, G, i, e)
    <2>1. \A k \in 1 .. Len(b) : k # r => b[k] \in G /\ BinIndex(p.tag[b[k]].size) = i
      <3> SUFFICES ASSUME NEW k \in 1 .. Len(b), k # r PROVE b[k] \in G /\ BinIndex(p.tag[b[k]].size) = i
        OBVIOUS
      <3>1. b[k] \in F /\ BinIndex(p.tag[b[k]].size) = i
        BY <1>2 DEF InBin
      <3>2. k < r \/ r < k
        BY <1>2, <1>5
      <3>3. b[k] # c
        BY <1>5, <1>10, <3>2
      <3> QED
        BY <3>1, <3>3 DEF G
    <2>2. \A k \in 1 .. Len(e) : e[k] \in G /\ BinIndex(p.tag[e[k]].size) = i
      <3> SUFFICES ASSUME NEW k \in 1 .. Len(e) PROVE e[k] \in G /\ BinIndex(p.tag[e[k]].size) = i
        OBVIOUS
      <3>1. k < r => k \in 1 .. Len(b) /\ k # r /\ e[k] = b[k]
        BY <1>a, <1>8, <1>9
      <3>2. ~(k < r) => k + 1 \in 1 .. Len(b) /\ k + 1 # r /\ e[k] = b[k + 1]
        BY <1>a, <1>8, <1>9
      <3> QED
        BY <2>1, <3>1, <3>2
    <2>3. \A j, k \in 1 .. Len(e) : j < k => e[j] # e[k] /\ p.tag[e[j]].size >= p.tag[e[k]].size
      <3> SUFFICES ASSUME NEW j \in 1 .. Len(e), NEW k \in 1 .. Len(e), j < k
                   PROVE  e[j] # e[k] /\ p.tag[e[j]].size >= p.tag[e[k]].size
        OBVIOUS
      <3> DEFINE x == IF j < r THEN j ELSE j + 1
                 y == IF k < r THEN k ELSE k + 1
      <3>1. x \in 1 .. Len(b) /\ y \in 1 .. Len(b) /\ e[j] = b[x] /\ e[k] = b[y]
        BY <1>9
      <3>2. x < y
        BY <1>a, <1>8
      <3> HIDE DEF x, y
      <3> QED
        BY <1>10, <3>1, <3>2
    <2>4. \A d \in G : BinIndex(p.tag[d].size) = i => \E k \in 1 .. Len(e) : e[k] = d
      <3> SUFFICES ASSUME NEW d \in G, BinIndex(p.tag[d].size) = i PROVE \E k \in 1 .. Len(e) : e[k] = d
        OBVIOUS
      <3>1. PICK k \in 1 .. Len(b) : b[k] = d
        BY <1>2 DEF InBin, G
      <3>2. k # r
        BY <1>5, <3>1 DEF G
      <3>3. CASE k < r
        <4>1. k \in 1 .. Len(b) - 1 /\ e[k] = b[k]
          BY <1>2, <1>5, <1>7, <3>3
        <4> QED
          BY <1>8, <3>1, <4>1
      <3>4. CASE r < k
        <4>1. k - 1 \in 1 .. Len(b) - 1 /\ ~(k - 1 < r) /\ (k - 1) + 1 = k
          BY <1>2, <1>5, <3>4
        <4>2. e[k - 1] = b[k]
          BY <1>7, <4>1
        <4> QED
          BY <1>8, <3>1, <4>1, <4>2
      <3> QED
        BY <1>a, <3>2, <3>3, <3>4
    <2> QED
      BY <2>2, <2>3, <2>4 DEF InBin
  <1>12. /\ Record(q) /\ SameTags(p, q) /\ q.bins = [p.bins EXCEPT ![i] = e]
         /\ q.marked = IF e = <<>> THEN p.marked \ {i} ELSE p.marked
    BY <1>1, <1>3, <1>4 DEF Record, SameTags
  <1>13. BinSet(p, q, i, e)
    <2>1. b # <<>>
      BY <1>2, <1>5
    <2>2. i \in p.marked
      BY <1>2, <2>1
    <2> QED
      BY <1>12, <2>2 DEF BinSet
  <1>14. Binned(q, G)
    BY <1>1, <1>6, <1>8, <1>11, <1>12, <1>13, BinChanged
  <1> QED
    BY <1>12, <1>14 DEF q, G

-----------------------------------------------------------------------------
(***************************************************************************)
(* The layout of the areas: the headers divide each area into chunks, both *)
(* copies of a size agree, and marks delimit the area.                     *)
(***************************************************************************)
TagSet == {t \in [size : Nat, used : BOOLEAN] : t.size = 0 => t.used}
End(p, k) == Base(k) + p.areas[k]

AreasFit(p) ==
  /\ DOMAIN p.areas \subseteq Areas \union {0}
  /\ \A k \in DOMAIN p.areas : p.areas[k] \in MinSize .. (Stride - 1)

TagsFit(p) ==
  /\ DOMAIN p.tag \subseteq Nat /\ DOMAIN p.prevTag = DOMAIN p.tag
  /\ \A a \in DOMAIN p.tag : p.tag[a] \in TagSet /\ p.prevTag[a] \in TagSet

MarksSet(p) ==
  \A k \in DOMAIN p.areas :
    /\ Base(k) \in DOMAIN p.tag /\ p.prevTag[Base(k)] = EndMark
    /\ End(p, k) \in DOMAIN p.tag /\ p.tag[End(p, k)] = EndMark

InAreas(p) ==
  \A a \in DOMAIN p.tag :
    \E k \in DOMAIN p.areas : /\ Base(k) <= a /\ a <= End(p, k)
                              /\ p.tag[a].size = 0 => a = End(p, k)
                              /\ p.prevTag[a].size = 0 => a = Base(k)

\* After a header comes the one that its size says, with the same size before it.
Forward(p) ==
  \A c \in DOMAIN p.tag :
    p.tag[c].size > 0 =>
      /\ c + p.tag[c].size \in DOMAIN p.tag
      /\ p.prevTag[c + p.tag[c].size] = p.tag[c]
      /\ \A d \in DOMAIN p.tag : d <= c \/ d >= c + p.tag[c].size

Backward(p) ==
  \A e \in DOMAIN p.tag :
    p.prevTag[e].size > 0 =>
      /\ e - p.prevTag[e].size \in DOMAIN p.tag
      /\ p.tag[e - p.prevTag[e].size] = p.prevTag[e]

Layout(p) == AreasFit(p) /\ TagsFit(p) /\ MarksSet(p) /\ InAreas(p) /\ Forward(p) /\ Backward(p)

\* All but the headers.
SameBins(p, q) == q.areas = p.areas /\ q.areaMore = p.areaMore /\ q.bins = p.bins /\ q.marked = p.marked

LEMMA WrittenIs ==
  ASSUME NEW f, NEW X, NEW v
  PROVE  /\ DOMAIN Written(f, X, v) = DOMAIN f \union X
         /\ \A x \in DOMAIN f \union X : Written(f, X, v)[x] = IF x \in X THEN v ELSE f[x]
  BY DEF Written

LEMMA TagIs ==
  ASSUME NEW n \in Nat, NEW used \in BOOLEAN, n = 0 => used
  PROVE  Tag(n, used) \in TagSet /\ Tag(n, used).size = n /\ (Tag(n, used).used <=> used)
  BY DEF Tag, TagSet

LEMMA TagFields ==
  ASSUME NEW t \in TagSet
  PROVE  /\ t.size \in Nat /\ t.used \in BOOLEAN /\ t = Tag(t.size, t.used)
         /\ t = EndMark <=> t.size = 0
         /\ t.size = 0 => t.used
  BY DEF TagSet, Tag, EndMark

LEMMA EndMarkIs == EndMark \in TagSet /\ EndMark.size = 0 /\ EndMark.used
  BY DEF EndMark, Tag, TagSet

\* What SetSize writes and forgets.
LEMMA SetSizeIs ==
  ASSUME NEW p, Record(p), NEW c, NEW n, NEW used
  PROVE  LET q == SetSize(p, c, n, used)
         IN  /\ Record(q) /\ SameBins(p, q)
             /\ DOMAIN q.tag = {a \in DOMAIN p.tag : a <= c \/ a >= c + n} \union {c}
             /\ q.tag[c] = Tag(n, used)
             /\ \A a \in DOMAIN p.tag : (a <= c \/ a >= c + n) /\ a # c => q.tag[a] = p.tag[a]
             /\ DOMAIN q.prevTag = {a \in DOMAIN p.prevTag : a <= c \/ a >= c + n} \union {c + n}
             /\ q.prevTag[c + n] = Tag(n, used)
             /\ \A a \in DOMAIN p.prevTag : (a <= c \/ a >= c + n) /\ a # c + n => q.prevTag[a] = p.prevTag[a]
  <1> DEFINE q == SetSize(p, c, n, used)
             kept == {a \in DOMAIN p.tag : a <= c \/ a >= c + n}
             keptPrev == {a \in DOMAIN p.prevTag : a <= c \/ a >= c + n}
             T == Written(Restrict(p.tag, kept), {c}, Tag(n, used))
             P == Written(Restrict(p.prevTag, keptPrev), {c + n}, Tag(n, used))
  <1>1. q = [p EXCEPT !.tag = T, !.prevTag = P]
    BY DEF SetSize
  <1>2. /\ DOMAIN T = kept \union {c} /\ T[c] = Tag(n, used)
        /\ \A a \in kept : a # c => T[a] = p.tag[a]
    BY DEF Written, Restrict
  <1>3. /\ DOMAIN P = keptPrev \union {c + n} /\ P[c + n] = Tag(n, used)
        /\ \A a \in keptPrev : a # c + n => P[a] = p.prevTag[a]
    BY DEF Written, Restrict
  <1> HIDE DEF T, P, q
  <1>4. Record(q) /\ SameBins(p, q) /\ q.tag = T /\ q.prevTag = P
    BY <1>1 DEF Record, SameBins
  <1> QED
    BY <1>2, <1>3, <1>4 DEF q

LEMMA BasesApart ==
  ASSUME NEW j \in Nat, NEW k \in Nat, j < k
  PROVE  Base(j) \in Nat /\ Base(k) \in Nat /\ Base(j) + Stride <= Base(k)
  <1>1. Stride \in Nat
    BY SizesAssumption
  <1>2. \E d \in Nat : k = (j + 1) + d
    <2>1. k - (j + 1) \in Nat /\ k = (j + 1) + (k - (j + 1))
      OBVIOUS
    <2> QED
      BY <2>1
  <1>3. PICK d \in Nat : k = (j + 1) + d
    BY <1>2
  <1>4. k * Stride = j * Stride + Stride + d * Stride
    BY <1>1, <1>3
  <1>5. d * Stride \in Nat /\ j * Stride \in Nat
    BY <1>1
  <1> QED
    BY <1>1, <1>4, <1>5 DEF Base

LEMMA AreaFacts ==
  ASSUME NEW p, AreasFit(p), NEW k \in DOMAIN p.areas
  PROVE  /\ k \in Nat /\ Base(k) \in Nat /\ End(p, k) \in Nat /\ p.areas[k] \in Nat
         /\ Base(k) + MinSize <= End(p, k) /\ End(p, k) < Base(k) + Stride /\ Stride \in Nat
         /\ MinSize = 2
  <1>1. k \in Nat /\ Stride \in Nat /\ p.areas[k] \in MinSize .. (Stride - 1)
    <2>1. Areas \subseteq Nat /\ Stride \in Nat
      BY SizesAssumption
    <2>2. k \in Areas \union {0} /\ p.areas[k] \in MinSize .. (Stride - 1)
      BY DEF AreasFit
    <2>3. k \in Nat
      <3>1. CASE k = 0
        BY <3>1
      <3>2. CASE k \in Areas
        BY <2>1, <3>2
      <3> QED
        BY <2>2, <3>1, <3>2
    <2> QED
      BY <2>1, <2>2, <2>3
  <1>2. k * Stride \in Nat
    BY <1>1
  <1> QED
    BY <1>1, <1>2 DEF Base, End, MinSize

\* Areas do not overlap.
LEMMA OneArea ==
  ASSUME NEW p, AreasFit(p), NEW j \in DOMAIN p.areas, NEW k \in DOMAIN p.areas, NEW a \in Nat,
         Base(j) <= a, a <= End(p, j), Base(k) <= a, a <= End(p, k)
  PROVE  j = k
  <1>1. /\ j \in Nat /\ Base(j) \in Nat /\ End(p, j) \in Nat /\ End(p, j) < Base(j) + Stride
        /\ k \in Nat /\ Base(k) \in Nat /\ End(p, k) \in Nat /\ End(p, k) < Base(k) + Stride
        /\ Stride \in Nat
    BY AreaFacts
  <1>2. j < k => Base(j) + Stride <= Base(k)
    BY <1>1, BasesApart
  <1>3. k < j => Base(k) + Stride <= Base(j)
    BY <1>1, BasesApart
  <1> QED
    BY <1>1, <1>2, <1>3

-----------------------------------------------------------------------------
(***************************************************************************)
(* The span from d to e is divided anew: the headers strictly inside are   *)
(* those of I, all else is as it was.                                      *)
(***************************************************************************)
SpanOf(p, d, e) ==
  /\ d \in DOMAIN p.tag /\ e \in DOMAIN p.tag /\ d < e
  /\ \E k \in DOMAIN p.areas : Base(k) <= d /\ e <= End(p, k)

Outside(p, q, d, e, I) ==
  /\ DOMAIN q.tag = {a \in DOMAIN p.tag : a <= d \/ a >= e} \union I
  /\ DOMAIN q.prevTag = DOMAIN q.tag
  /\ \A a \in DOMAIN p.tag : a < d \/ a >= e => q.tag[a] = p.tag[a]
  /\ \A a \in DOMAIN p.tag : a <= d \/ a > e => q.prevTag[a] = p.prevTag[a]
  /\ q.areas = p.areas

Divided(q, d, e, I) ==
  /\ I \subseteq (d + 1) .. (e - 1)
  /\ \A c \in I \union {d} :
       /\ q.tag[c] \in TagSet /\ q.tag[c].size > 0
       /\ c + q.tag[c].size \in I \union {e}
       /\ q.prevTag[c + q.tag[c].size] = q.tag[c]
       /\ \A x \in I : x <= c \/ x >= c + q.tag[c].size
  /\ \A x \in I \union {e} :
       /\ q.prevTag[x] \in TagSet /\ q.prevTag[x].size > 0
       /\ x - q.prevTag[x].size \in I \union {d}
       /\ q.tag[x - q.prevTag[x].size] = q.prevTag[x]

LEMMA Graft ==
  ASSUME NEW p, Layout(p), NEW d, NEW e, SpanOf(p, d, e), NEW q, NEW I,
         Outside(p, q, d, e, I), Divided(q, d, e, I)
  PROVE  Layout(q)
  <1> DEFINE D == DOMAIN p.tag
             O == {a \in D : a <= d \/ a >= e}
  <1>1. /\ d \in Nat /\ e \in Nat /\ d < e /\ d \in D /\ e \in D /\ D \subseteq Nat
        /\ DOMAIN p.prevTag = D /\ I \subseteq Nat /\ \A x \in I : d < x /\ x < e
        /\ d \in O /\ e \in O /\ O \subseteq D
    BY DEF Layout, TagsFit, SpanOf, Divided
  <1>2. PICK k \in DOMAIN p.areas : Base(k) <= d /\ e <= End(p, k)
    BY DEF SpanOf
  <1>3. \A j \in DOMAIN p.areas : j \in Nat /\ Base(j) \in Nat /\ End(p, j) \in Nat
    BY AreaFacts DEF Layout
  <1>4. /\ DOMAIN q.tag = O \union I /\ DOMAIN q.prevTag = O \union I
        /\ \A a \in O : a # d => q.tag[a] = p.tag[a]
        /\ \A a \in O : a # e => q.prevTag[a] = p.prevTag[a]
        /\ q.areas = p.areas
    <2>1. \A a \in O : (a # d => a < d \/ a >= e) /\ (a # e => a <= d \/ a > e)
      BY <1>1
    <2> QED
      BY <2>1 DEF Outside
  <1>5. \A j \in DOMAIN p.areas : End(q, j) = End(p, j)
    BY <1>4 DEF End
  \* An area that is met inside of the span is the area of the span.
  <1>6. \A j \in DOMAIN p.areas : \A a \in Nat :
          Base(j) <= a /\ a <= End(p, j) /\ d <= a /\ a <= e => j = k
    <2> SUFFICES ASSUME NEW j \in DOMAIN p.areas, NEW a \in Nat,
                        Base(j) <= a, a <= End(p, j), d <= a, a <= e
                 PROVE  j = k
      OBVIOUS
    <2>1. Base(k) <= a /\ a <= End(p, k)
      BY <1>1, <1>2, <1>3
    <2> QED
      BY <2>1, OneArea DEF Layout
  <1>7. AreasFit(q)
    BY <1>4 DEF AreasFit, Layout
  <1>8. TagsFit(q)
    <2>1. \A a \in D : p.tag[a] \in TagSet /\ p.prevTag[a] \in TagSet
      BY DEF Layout, TagsFit
    <2>2. \A a \in O \union I : q.tag[a] \in TagSet
      <3>1. \A c \in I \union {d} : q.tag[c] \in TagSet
        BY DEF Divided
      <3> QED
        BY <1>1, <1>4, <2>1, <3>1
    <2>3. \A a \in O \union I : q.prevTag[a] \in TagSet
      <3>1. \A c \in I \union {e} : q.prevTag[c] \in TagSet
        BY DEF Divided
      <3> QED
        BY <1>1, <1>4, <2>1, <3>1
    <2> QED
      BY <1>1, <1>4, <2>2, <2>3 DEF TagsFit
  <1>9. MarksSet(q)
    <2> SUFFICES ASSUME NEW j \in DOMAIN p.areas
                 PROVE  /\ Base(j) \in O /\ q.prevTag[Base(j)] = EndMark
                        /\ End(p, j) \in O /\ q.tag[End(p, j)] = EndMark
      BY <1>4, <1>5 DEF MarksSet
    <2>1. /\ Base(j) \in D /\ p.prevTag[Base(j)] = EndMark
          /\ End(p, j) \in D /\ p.tag[End(p, j)] = EndMark
          /\ Base(j) <= End(p, j)
      <3>1. Base(j) + 2 <= End(p, j)
        BY AreaFacts DEF Layout
      <3> QED
        BY <1>3, <3>1 DEF Layout, MarksSet
    <2>2. ~(d < Base(j) /\ Base(j) <= e)
      <3> SUFFICES ASSUME d < Base(j), Base(j) <= e PROVE FALSE
        OBVIOUS
      <3>1. j = k
        BY <1>1, <1>3, <1>6, <2>1
      <3> QED
        BY <1>1, <1>2, <1>3, <3>1
    <2>3. ~(d <= End(p, j) /\ End(p, j) < e)
      <3> SUFFICES ASSUME d <= End(p, j), End(p, j) < e PROVE FALSE
        OBVIOUS
      <3>1. j = k
        BY <1>1, <1>3, <1>6, <2>1
      <3> QED
        BY <1>1, <1>2, <1>3, <3>1
    <2>4. Base(j) \in O /\ Base(j) # e /\ End(p, j) \in O /\ End(p, j) # d
      BY <1>1, <1>3, <2>1, <2>2, <2>3
    <2> QED
      BY <1>4, <2>1, <2>4
  <1>10. InAreas(q)
    <2> SUFFICES ASSUME NEW a \in O \union I
                 PROVE  \E j \in DOMAIN p.areas : /\ Base(j) <= a /\ a <= End(p, j)
                                                  /\ q.tag[a].size = 0 => a = End(p, j)
                                                  /\ q.prevTag[a].size = 0 => a = Base(j)
      BY <1>4, <1>5 DEF InAreas
    <2>1. CASE a \in I
      <3>1. q.tag[a].size > 0 /\ q.prevTag[a].size > 0 /\ q.tag[a] \in TagSet /\ q.prevTag[a] \in TagSet
        BY <2>1 DEF Divided
      <3>2. q.tag[a].size # 0 /\ q.prevTag[a].size # 0
        BY <3>1, TagFields
      <3>3. Base(k) <= a /\ a <= End(p, k)
        BY <1>1, <1>2, <1>3, <2>1
      <3> QED
        BY <3>2, <3>3
    <2>2. CASE a \in O
      <3>1. PICK j \in DOMAIN p.areas : /\ Base(j) <= a /\ a <= End(p, j)
                                        /\ p.tag[a].size = 0 => a = End(p, j)
                                        /\ p.prevTag[a].size = 0 => a = Base(j)
        BY <2>2 DEF Layout, InAreas
      <3>2. q.tag[d] \in TagSet /\ q.tag[d].size > 0 /\ q.prevTag[e] \in TagSet /\ q.prevTag[e].size > 0
        BY DEF Divided
      <3>3. q.tag[d].size # 0 /\ q.prevTag[e].size # 0
        BY <3>2, TagFields
      <3> QED
        BY <1>4, <2>2, <3>1, <3>3
    <2> QED
      BY <2>1, <2>2
  <1>11. Forward(q)
    <2> SUFFICES ASSUME NEW c \in O \union I, q.tag[c].size > 0
                 PROVE  /\ c + q.tag[c].size \in O \union I
                        /\ q.prevTag[c + q.tag[c].size] = q.tag[c]
                        /\ \A x \in O \union I : x <= c \/ x >= c + q.tag[c].size
      BY <1>4 DEF Forward
    <2> DEFINE s == q.tag[c].size
    <2>1. CASE c \in I \union {d}
      <3>1. /\ q.tag[c] \in TagSet /\ s > 0 /\ c + s \in I \union {e} /\ q.prevTag[c + s] = q.tag[c]
            /\ \A x \in I : x <= c \/ x >= c + s
        BY <2>1 DEF Divided
      <3>2. s \in Nat
        BY <3>1, TagFields
      <3> HIDE DEF s
      <3>3. \A x \in O : x <= c \/ x >= c + s
        BY <1>1, <2>1, <3>1, <3>2
      <3>4. c + s \in O \union I
        BY <1>1, <3>1
      <3> QED
        BY <3>1, <3>3, <3>4 DEF s
    <2>2. CASE c \in O /\ c # d
      <3>1. q.tag[c] = p.tag[c] /\ c \in D /\ c \in Nat /\ (c < d \/ c >= e)
        BY <1>1, <1>4, <2>2
      <3>2. /\ c + s \in D /\ p.prevTag[c + s] = p.tag[c]
            /\ \A x \in D : x <= c \/ x >= c + s
        BY <3>1 DEF Layout, Forward
      <3>3. s \in Nat /\ s > 0
        BY <3>1, TagFields DEF Layout, TagsFit
      <3> HIDE DEF s
      <3>4. c + s <= d \/ (c >= e /\ c + s > e)
        BY <1>1, <3>1, <3>2, <3>3
      <3>5. c + s \in O /\ c + s # e
        BY <1>1, <3>2, <3>3, <3>4
      <3>6. \A x \in I : x <= c \/ x >= c + s
        <4> SUFFICES ASSUME NEW x \in I PROVE x <= c \/ x >= c + s
          OBVIOUS
        <4>1. x \in Nat /\ d < x /\ x < e
          BY <1>1
        <4> QED
          BY <1>1, <3>1, <3>3, <3>4, <4>1
      <3>7. q.prevTag[c + s] = q.tag[c]
        BY <1>4, <3>1, <3>2, <3>5
      <3> QED
        BY <3>2, <3>5, <3>6, <3>7 DEF s
    <2> QED
      BY <2>1, <2>2
  <1>12. Backward(q)
    <2> SUFFICES ASSUME NEW x \in O \union I, q.prevTag[x].size > 0
                 PROVE  /\ x - q.prevTag[x].size \in O \union I
                        /\ q.tag[x - q.prevTag[x].size] = q.prevTag[x]
      BY <1>4 DEF Backward
    <2> DEFINE s == q.prevTag[x].size
    <2>1. CASE x \in I \union {e}
      <3>1. x - s \in I \union {d} /\ q.tag[x - s] = q.prevTag[x]
        BY <2>1 DEF Divided
      <3> QED
        BY <1>1, <3>1
    <2>2. CASE x \in O /\ x # e
      <3>1. q.prevTag[x] = p.prevTag[x] /\ x \in D /\ x \in Nat /\ (x <= d \/ x > e)
        BY <1>1, <1>4, <2>2
      <3>2. x - s \in D /\ p.tag[x - s] = p.prevTag[x]
        BY <3>1 DEF Layout, Backward
      <3>3. s \in Nat /\ s > 0 /\ p.tag[x - s].size = s
        BY <3>1, <3>2, TagFields DEF Layout, TagsFit
      <3>4. \A y \in D : y <= x - s \/ y >= (x - s) + s
        BY <3>2, <3>3 DEF Layout, Forward
      <3> HIDE DEF s
      <3>5. x - s < d \/ x - s >= e
        BY <1>1, <3>1, <3>2, <3>3, <3>4
      <3>6. x - s \in O /\ x - s # d
        BY <1>1, <3>2, <3>5
      <3> QED
        BY <1>4, <3>1, <3>2, <3>6 DEF s
    <2> QED
      BY <2>1, <2>2
  <1> QED
    BY <1>7, <1>8, <1>9, <1>10, <1>11, <1>12 DEF Layout

\* SetSize makes one chunk of a span.
InOne(p, q, d, e, whole) ==
  /\ Record(q) /\ SameBins(p, q) /\ Layout(q) /\ Outside(p, q, d, e, {})
  /\ q.tag[d] = whole /\ q.prevTag[e] = whole

LEMMA Merge ==
  ASSUME NEW p, Record(p), Layout(p), NEW d, NEW e, SpanOf(p, d, e), NEW used \in BOOLEAN
  PROVE  InOne(p, SetSize(p, d, e - d, used), d, e, Tag(e - d, used))
  <1> DEFINE q == SetSize(p, d, e - d, used)
  <1>1. /\ d \in Nat /\ e \in Nat /\ d < e /\ d \in DOMAIN p.tag /\ e \in DOMAIN p.tag
        /\ DOMAIN p.tag \subseteq Nat /\ DOMAIN p.prevTag = DOMAIN p.tag /\ d + (e - d) = e
        /\ e - d \in Nat /\ e - d > 0
    BY DEF Layout, TagsFit, SpanOf
  <1>2. /\ Record(q) /\ SameBins(p, q)
        /\ DOMAIN q.tag = {a \in DOMAIN p.tag : a <= d \/ a >= e} \union {d}
        /\ q.tag[d] = Tag(e - d, used)
        /\ \A a \in DOMAIN p.tag : (a <= d \/ a >= e) /\ a # d => q.tag[a] = p.tag[a]
        /\ DOMAIN q.prevTag = {a \in DOMAIN p.prevTag : a <= d \/ a >= e} \union {e}
        /\ q.prevTag[e] = Tag(e - d, used)
        /\ \A a \in DOMAIN p.prevTag : (a <= d \/ a >= e) /\ a # e => q.prevTag[a] = p.prevTag[a]
    <2> DEFINE n == e - d
    <2>1. /\ Record(SetSize(p, d, n, used)) /\ SameBins(p, SetSize(p, d, n, used))
          /\ DOMAIN SetSize(p, d, n, used).tag = {a \in DOMAIN p.tag : a <= d \/ a >= d + n} \union {d}
          /\ SetSize(p, d, n, used).tag[d] = Tag(n, used)
          /\ \A a \in DOMAIN p.tag : (a <= d \/ a >= d + n) /\ a # d => SetSize(p, d, n, used).tag[a] = p.tag[a]
          /\ DOMAIN SetSize(p, d, n, used).prevTag = {a \in DOMAIN p.prevTag : a <= d \/ a >= d + n} \union {d + n}
          /\ SetSize(p, d, n, used).prevTag[d + n] = Tag(n, used)
          /\ \A a \in DOMAIN p.prevTag :
               (a <= d \/ a >= d + n) /\ a # d + n => SetSize(p, d, n, used).prevTag[a] = p.prevTag[a]
      <3> HIDE DEF n
      <3> QED
        BY SetSizeIs
    <2>2. d + n = e
      BY <1>1
    <2> QED
      BY <2>1, <2>2
  <1> HIDE DEF q
  <1>3. Outside(p, q, d, e, {})
    <2>1. \A a \in DOMAIN p.tag : (a < d => a <= d /\ a # d) /\ (a >= e => a # d) /\ (a > e => a >= e /\ a # e) /\ (a <= d => a # e)
      BY <1>1
    <2>2. DOMAIN q.tag = {a \in DOMAIN p.tag : a <= d \/ a >= e} /\ DOMAIN q.prevTag = DOMAIN q.tag
      BY <1>1, <1>2
    <2> QED
      BY <1>1, <1>2, <2>1, <2>2 DEF Outside, SameBins
  <1>4. Divided(q, d, e, {})
    <2>1. Tag(e - d, used) \in TagSet /\ Tag(e - d, used).size = e - d
      BY <1>1, TagIs
    <2>2. q.tag[d].size = e - d /\ q.prevTag[e].size = e - d /\ e - (e - d) = d
      BY <1>1, <1>2, <2>1
    <2> QED
      BY <1>1, <1>2, <2>1, <2>2 DEF Divided
  <1>5. Layout(q)
    BY <1>3, <1>4, Graft
  <1> QED
    BY <1>2, <1>3, <1>5 DEF q, InOne

InTwo(p, r, q, d, m, e, first, second) ==
  /\ Record(q) /\ SameBins(r, q) /\ Layout(q) /\ Outside(p, q, d, e, {m})
  /\ q.tag[d] = first /\ q.prevTag[m] = first
  /\ q.tag[m] = second /\ q.prevTag[e] = second

\* SetSize twice makes two chunks of a span; the bins may change between.
LEMMA Cut ==
  ASSUME NEW p, Record(p), Layout(p), NEW d, NEW e, SpanOf(p, d, e), NEW m, d < m, m < e, m \in Nat,
         NEW used \in BOOLEAN, NEW rest \in BOOLEAN,
         NEW r, Record(r), SameTags(SetSize(p, m, e - m, rest), r)
  PROVE  InTwo(p, r, SetSize(r, d, m - d, used), d, m, e, Tag(m - d, used), Tag(e - m, rest))
  <1> DEFINE q == SetSize(r, d, m - d, used)
             o == SetSize(p, m, e - m, rest)
  <1>1. /\ d \in Nat /\ e \in Nat /\ m \in Nat /\ d \in DOMAIN p.tag /\ e \in DOMAIN p.tag
        /\ DOMAIN p.tag \subseteq Nat /\ DOMAIN p.prevTag = DOMAIN p.tag
        /\ d + (m - d) = m /\ m + (e - m) = e
        /\ e - m \in Nat /\ e - m > 0 /\ m - d \in Nat /\ m - d > 0
    BY DEF Layout, TagsFit, SpanOf
  <1>2. /\ SameBins(p, o)
        /\ DOMAIN o.tag = {a \in DOMAIN p.tag : a <= m \/ a >= e} \union {m}
        /\ o.tag[m] = Tag(e - m, rest)
        /\ \A a \in DOMAIN p.tag : (a <= m \/ a >= e) /\ a # m => o.tag[a] = p.tag[a]
        /\ DOMAIN o.prevTag = {a \in DOMAIN p.prevTag : a <= m \/ a >= e} \union {e}
        /\ o.prevTag[e] = Tag(e - m, rest)
        /\ \A a \in DOMAIN p.prevTag : (a <= m \/ a >= e) /\ a # e => o.prevTag[a] = p.prevTag[a]
    <2> DEFINE n == e - m
               s == SetSize(p, m, n, rest)
    <2>1. /\ SameBins(p, s)
          /\ DOMAIN s.tag = {a \in DOMAIN p.tag : a <= m \/ a >= m + n} \union {m}
          /\ s.tag[m] = Tag(n, rest)
          /\ \A a \in DOMAIN p.tag : (a <= m \/ a >= m + n) /\ a # m => s.tag[a] = p.tag[a]
          /\ DOMAIN s.prevTag = {a \in DOMAIN p.prevTag : a <= m \/ a >= m + n} \union {m + n}
          /\ s.prevTag[m + n] = Tag(n, rest)
          /\ \A a \in DOMAIN p.prevTag :
               (a <= m \/ a >= m + n) /\ a # m + n => s.prevTag[a] = p.prevTag[a]
      <3> HIDE DEF n
      <3> QED
        BY SetSizeIs
    <2>2. m + n = e /\ s = o
      BY <1>1
    <2> HIDE DEF s, o, n
    <2> QED
      BY <2>1, <2>2 DEF n
  <1>3. /\ Record(q) /\ SameBins(r, q)
        /\ DOMAIN q.tag = {a \in DOMAIN r.tag : a <= d \/ a >= m} \union {d}
        /\ q.tag[d] = Tag(m - d, used)
        /\ \A a \in DOMAIN r.tag : (a <= d \/ a >= m) /\ a # d => q.tag[a] = r.tag[a]
        /\ DOMAIN q.prevTag = {a \in DOMAIN r.prevTag : a <= d \/ a >= m} \union {m}
        /\ q.prevTag[m] = Tag(m - d, used)
        /\ \A a \in DOMAIN r.prevTag : (a <= d \/ a >= m) /\ a # m => q.prevTag[a] = r.prevTag[a]
    <2> DEFINE n == m - d
               s == SetSize(r, d, n, used)
    <2>1. /\ Record(s) /\ SameBins(r, s)
          /\ DOMAIN s.tag = {a \in DOMAIN r.tag : a <= d \/ a >= d + n} \union {d}
          /\ s.tag[d] = Tag(n, used)
          /\ \A a \in DOMAIN r.tag : (a <= d \/ a >= d + n) /\ a # d => s.tag[a] = r.tag[a]
          /\ DOMAIN s.prevTag = {a \in DOMAIN r.prevTag : a <= d \/ a >= d + n} \union {d + n}
          /\ s.prevTag[d + n] = Tag(n, used)
          /\ \A a \in DOMAIN r.prevTag :
               (a <= d \/ a >= d + n) /\ a # d + n => s.prevTag[a] = r.prevTag[a]
      <3> HIDE DEF n
      <3> QED
        BY SetSizeIs
    <2>2. d + n = m /\ s = q
      BY <1>1
    <2> HIDE DEF s, q, n
    <2> QED
      BY <2>1, <2>2 DEF n
  <1>4. r.tag = o.tag /\ r.prevTag = o.prevTag /\ r.areas = p.areas
    BY <1>2 DEF SameTags, SameBins
  <1> HIDE DEF q, o
  <1>5. Outside(p, q, d, e, {m})
    <2>1. DOMAIN q.tag = {a \in DOMAIN p.tag : a <= d \/ a >= e} \union {m}
      <3>1. \A a \in DOMAIN q.tag : a \in {x \in DOMAIN p.tag : x <= d \/ x >= e} \union {m}
        BY <1>1, <1>2, <1>3, <1>4
      <3>2. \A a \in {x \in DOMAIN p.tag : x <= d \/ x >= e} \union {m} : a \in DOMAIN q.tag
        BY <1>1, <1>2, <1>3, <1>4
      <3> QED
        BY <3>1, <3>2
    <2>2. DOMAIN q.prevTag = {a \in DOMAIN p.tag : a <= d \/ a >= e} \union {m}
      <3>1. \A a \in DOMAIN q.prevTag : a \in {x \in DOMAIN p.tag : x <= d \/ x >= e} \union {m}
        BY <1>1, <1>2, <1>3, <1>4
      <3>2. \A a \in {x \in DOMAIN p.tag : x <= d \/ x >= e} \union {m} : a \in DOMAIN q.prevTag
        BY <1>1, <1>2, <1>3, <1>4
      <3> QED
        BY <3>1, <3>2
    <2>3. \A a \in DOMAIN p.tag : a < d \/ a >= e => q.tag[a] = p.tag[a]
      <3> SUFFICES ASSUME NEW a \in DOMAIN p.tag, a < d \/ a >= e PROVE q.tag[a] = p.tag[a]
        OBVIOUS
      <3>1. (a <= m \/ a >= e) /\ a # m /\ (a <= d \/ a >= m) /\ a # d
        BY <1>1
      <3> QED
        BY <1>2, <1>3, <1>4, <3>1
    <2>4. \A a \in DOMAIN p.tag : a <= d \/ a > e => q.prevTag[a] = p.prevTag[a]
      <3> SUFFICES ASSUME NEW a \in DOMAIN p.tag, a <= d \/ a > e PROVE q.prevTag[a] = p.prevTag[a]
        OBVIOUS
      <3>1. (a <= m \/ a >= e) /\ a # e /\ (a <= d \/ a >= m) /\ a # m
        BY <1>1
      <3> QED
        BY <1>1, <1>2, <1>3, <1>4, <3>1
    <2>5. q.areas = p.areas
      BY <1>3, <1>4 DEF SameBins
    <2> QED
      BY <2>1, <2>2, <2>3, <2>4, <2>5 DEF Outside
  <1>6. q.tag[m] = Tag(e - m, rest) /\ q.prevTag[e] = Tag(e - m, rest)
    <2>1. m \in DOMAIN r.tag /\ m # d /\ e \in DOMAIN r.prevTag /\ e >= m /\ e # m
      BY <1>1, <1>2, <1>4
    <2> QED
      BY <1>1, <1>2, <1>3, <1>4, <2>1
  <1>7. Divided(q, d, e, {m})
    <2>1. Tag(e - m, rest) \in TagSet /\ Tag(e - m, rest).size = e - m
      BY <1>1, TagIs
    <2>2. Tag(m - d, used) \in TagSet /\ Tag(m - d, used).size = m - d
      BY <1>1, TagIs
    <2>3. /\ q.tag[d].size = m - d /\ q.prevTag[m].size = m - d /\ m - (m - d) = d
          /\ q.tag[m].size = e - m /\ q.prevTag[e].size = e - m /\ e - (e - m) = m
      BY <1>1, <1>3, <1>6, <2>1, <2>2
    <2>4. {m} \subseteq (d + 1) .. (e - 1)
      BY <1>1
    <2>5. \A c \in {m, d} :
            /\ q.tag[c] \in TagSet /\ q.tag[c].size > 0
            /\ c + q.tag[c].size \in {m, e}
            /\ q.prevTag[c + q.tag[c].size] = q.tag[c]
            /\ \A x \in {m} : x <= c \/ x >= c + q.tag[c].size
      BY <1>1, <1>3, <1>6, <2>1, <2>2, <2>3
    <2>6. \A x \in {m, e} :
            /\ q.prevTag[x] \in TagSet /\ q.prevTag[x].size > 0
            /\ x - q.prevTag[x].size \in {m, d}
            /\ q.tag[x - q.prevTag[x].size] = q.prevTag[x]
      BY <1>1, <1>3, <1>6, <2>1, <2>2, <2>3
    <2>7. {m} \union {d} = {m, d} /\ {m} \union {e} = {m, e}
      OBVIOUS
    <2> QED
      BY <2>4, <2>5, <2>6, <2>7 DEF Divided
  <1>8. Layout(q)
    BY <1>5, <1>7, Graft
  <1> QED
    BY <1>3, <1>5, <1>6, <1>8 DEF q, InTwo

-----------------------------------------------------------------------------
(***************************************************************************)
(* The free and the used chunks of a pool, and the neighbours of a chunk.  *)
(***************************************************************************)
FreeIn(p, X) == {c \in X : ~p.tag[c].used}
UsedIn(p, X) == {c \in X : p.tag[c].used /\ p.tag[c].size > 0}
FreeOf(p) == FreeIn(p, DOMAIN p.tag)
UsedOf(p) == UsedIn(p, DOMAIN p.tag)
OutsideOf(S, d, e) == {c \in S : c < d \/ c >= e}

Coalesced(p) ==
  \A c \in FreeOf(p) : /\ p.tag[c].size >= MinSize
                       /\ p.prevTag[c].used /\ p.tag[c + p.tag[c].size].used

Sound(p) == Record(p) /\ Layout(p) /\ Coalesced(p) /\ Binned(p, FreeOf(p))

\* Sound, but for the free chunk c that is in no bin.
Loose(p, c) ==
  Record(p) /\ Layout(p) /\ Coalesced(p) /\ c \in FreeOf(p) /\ Binned(p, FreeOf(p) \ {c})

LEMMA ChunkFacts ==
  ASSUME NEW p, Layout(p), NEW c \in DOMAIN p.tag, p.tag[c].size > 0 \/ ~p.tag[c].used
  PROVE  LET n == p.tag[c].size
         IN  /\ c \in Nat /\ n \in Nat /\ n > 0 /\ p.tag[c].used \in BOOLEAN
             /\ c + n \in DOMAIN p.tag /\ p.prevTag[c + n] = p.tag[c]
             /\ \A a \in DOMAIN p.tag : a <= c \/ a >= c + n
             /\ SpanOf(p, c, c + n)
  <1> DEFINE n == p.tag[c].size
  <1>1. /\ c \in Nat /\ n \in Nat /\ n > 0 /\ p.tag[c].used \in BOOLEAN /\ DOMAIN p.tag \subseteq Nat
    BY TagFields DEF Layout, TagsFit
  <1>2. /\ c + n \in DOMAIN p.tag /\ p.prevTag[c + n] = p.tag[c]
        /\ \A a \in DOMAIN p.tag : a <= c \/ a >= c + n
    BY <1>1 DEF Layout, Forward
  <1>3. PICK k \in DOMAIN p.areas : Base(k) <= c /\ c <= End(p, k)
    BY DEF Layout, InAreas
  <1>4. End(p, k) \in Nat /\ End(p, k) \in DOMAIN p.tag /\ p.tag[End(p, k)] = EndMark
    BY AreaFacts DEF Layout, MarksSet
  <1>5. End(p, k) # c
    BY <1>1, <1>4, EndMarkIs
  <1>6. c + n <= End(p, k)
    BY <1>1, <1>2, <1>3, <1>4, <1>5
  <1>7. SpanOf(p, c, c + n)
    BY <1>1, <1>2, <1>3, <1>6 DEF SpanOf
  <1> QED
    BY <1>1, <1>2, <1>7

LEMMA BeforeFacts ==
  ASSUME NEW p, Layout(p), NEW e \in DOMAIN p.tag, p.prevTag[e].size > 0 \/ ~p.prevTag[e].used
  PROVE  LET n == p.prevTag[e].size
         IN  /\ e \in Nat /\ n \in Nat /\ n > 0 /\ e - n \in Nat /\ (e - n) + n = e
             /\ e - n \in DOMAIN p.tag /\ p.tag[e - n] = p.prevTag[e]
  <1> DEFINE n == p.prevTag[e].size
  <1>1. e \in Nat /\ n \in Nat /\ n > 0 /\ DOMAIN p.tag \subseteq Nat
    BY TagFields DEF Layout, TagsFit
  <1>2. e - n \in DOMAIN p.tag /\ p.tag[e - n] = p.prevTag[e]
    BY <1>1 DEF Layout, Backward
  <1> QED
    BY <1>1, <1>2

LEMMA SpanJoined ==
  ASSUME NEW p, Layout(p), NEW c, NEW d, NEW e, SpanOf(p, c, d), SpanOf(p, d, e)
  PROVE  SpanOf(p, c, e)
  <1>1. PICK j \in DOMAIN p.areas : Base(j) <= c /\ d <= End(p, j)
    BY DEF SpanOf
  <1>2. PICK k \in DOMAIN p.areas : Base(k) <= d /\ e <= End(p, k)
    BY DEF SpanOf
  <1>3. c \in Nat /\ d \in Nat /\ e \in Nat /\ c < d /\ d < e
    BY DEF SpanOf, Layout, TagsFit
  <1>4. Base(j) \in Nat /\ Base(k) \in Nat /\ End(p, j) \in Nat /\ End(p, k) \in Nat /\ AreasFit(p)
    BY AreaFacts DEF Layout
  <1>5. Base(j) <= d /\ d <= End(p, k)
    BY <1>1, <1>2, <1>3, <1>4
  <1>6. j = k
    BY <1>1, <1>2, <1>3, <1>4, <1>5, OneArea
  <1> QED
    BY <1>1, <1>2, <1>3, <1>6 DEF SpanOf

LEMMA SameTagsKeep ==
  ASSUME NEW p, NEW q, SameTags(p, q)
  PROVE  /\ Layout(p) => Layout(q)
         /\ Coalesced(p) => Coalesced(q)
         /\ FreeOf(q) = FreeOf(p) /\ UsedOf(q) = UsedOf(p)
         /\ \A d, e : SpanOf(p, d, e) => SpanOf(q, d, e)
  <1> USE DEF SameTags
  <1>1. FreeOf(q) = FreeOf(p) /\ UsedOf(q) = UsedOf(p)
    BY DEF FreeOf, UsedOf, FreeIn, UsedIn
  <1>2. Coalesced(p) => Coalesced(q)
    BY <1>1 DEF Coalesced
  <1>3. \A k : End(q, k) = End(p, k)
    BY DEF End
  <1>4. \A d, e : SpanOf(p, d, e) => SpanOf(q, d, e)
    BY <1>3 DEF SpanOf
  <1>5. Layout(p) => Layout(q)
    <2> SUFFICES ASSUME Layout(p) PROVE Layout(q)
      OBVIOUS
    <2>1. AreasFit(q) /\ TagsFit(q) /\ Forward(q) /\ Backward(q)
      BY DEF Layout, AreasFit, TagsFit, Forward, Backward
    <2>2. MarksSet(q)
      BY <1>3 DEF Layout, MarksSet
    <2>3. InAreas(q)
      BY <1>3 DEF Layout, InAreas
    <2> QED
      BY <2>1, <2>2, <2>3 DEF Layout
  <1> QED
    BY <1>1, <1>2, <1>4, <1>5

Inside(I, d, e) == I \subseteq (d + 1) .. (e - 1)

Redivided(p, q, d, e, I) ==
  /\ FreeOf(q) = OutsideOf(FreeOf(p), d, e) \union FreeIn(q, I \union {d})
  /\ UsedOf(q) = OutsideOf(UsedOf(p), d, e) \union UsedIn(q, I \union {d})
  /\ \A c \in DOMAIN p.tag : c < d \/ c >= e => q.tag[c] = p.tag[c]

\* A span that is divided anew, seen as chunks.
LEMMA Views ==
  ASSUME NEW p, Layout(p), NEW d, NEW e, SpanOf(p, d, e), NEW q, Layout(q), NEW I,
         Inside(I, d, e), Outside(p, q, d, e, I)
  PROVE  Redivided(p, q, d, e, I)
  <1>1. d \in Nat /\ e \in Nat /\ d < e /\ DOMAIN p.tag \subseteq Nat /\ d \in DOMAIN p.tag
    BY DEF SpanOf, Layout, TagsFit
  <1>2. /\ DOMAIN q.tag = {a \in DOMAIN p.tag : a <= d \/ a >= e} \union I
        /\ \A a \in DOMAIN p.tag : a < d \/ a >= e => q.tag[a] = p.tag[a]
    BY DEF Outside
  <1>3. DOMAIN q.tag = {a \in DOMAIN p.tag : a < d \/ a >= e} \union (I \union {d})
    <2>1. \A a \in DOMAIN q.tag : a \in {b \in DOMAIN p.tag : b < d \/ b >= e} \union (I \union {d})
      BY <1>1, <1>2
    <2>2. \A a \in {b \in DOMAIN p.tag : b < d \/ b >= e} \union (I \union {d}) : a \in DOMAIN q.tag
      BY <1>1, <1>2 DEF Inside
    <2> QED
      BY <2>1, <2>2
  <1>4. \A a \in I \union {d} : ~(a < d \/ a >= e)
    BY <1>1 DEF Inside
  <1>5. FreeOf(q) = OutsideOf(FreeOf(p), d, e) \union FreeIn(q, I \union {d})
    BY <1>2, <1>3 DEF FreeOf, FreeIn, OutsideOf
  <1>6. UsedOf(q) = OutsideOf(UsedOf(p), d, e) \union UsedIn(q, I \union {d})
    BY <1>2, <1>3 DEF UsedOf, UsedIn, OutsideOf
  <1> QED
    BY <1>2, <1>5, <1>6 DEF Redivided

\* The chunks of the span, and its neighbours, decide whether free chunks touch.
LEMMA KeptCoalesced ==
  ASSUME NEW p, Layout(p), Coalesced(p), NEW d, NEW e, SpanOf(p, d, e), NEW q, Layout(q), NEW I,
         Inside(I, d, e), Outside(p, q, d, e, I),
         p.prevTag[d].used \/ q.tag[d].used,
         p.tag[e].used \/ q.prevTag[e].used,
         \A c \in I \union {d} :
           ~q.tag[c].used => q.tag[c].size >= MinSize /\ q.prevTag[c].used /\ q.tag[c + q.tag[c].size].used
  PROVE  Coalesced(q)
  <1>1. d \in Nat /\ e \in Nat /\ d < e /\ DOMAIN p.tag \subseteq Nat /\ d \in DOMAIN p.tag /\ e \in DOMAIN p.tag
    BY DEF SpanOf, Layout, TagsFit
  <1>2. /\ \A a \in DOMAIN p.tag : a < d \/ a >= e => q.tag[a] = p.tag[a]
        /\ \A a \in DOMAIN p.tag : a <= d \/ a > e => q.prevTag[a] = p.prevTag[a]
    BY DEF Outside
  <1>3. FreeOf(q) = OutsideOf(FreeOf(p), d, e) \union FreeIn(q, I \union {d})
    <2>1. Redivided(p, q, d, e, I)
      BY Views
    <2> QED
      BY <2>1 DEF Redivided
  <1>4. ASSUME NEW c \in FreeOf(p), c < d \/ c >= e
        PROVE  q.tag[c].size >= MinSize /\ q.prevTag[c].used /\ q.tag[c + q.tag[c].size].used
    <2> DEFINE n == p.tag[c].size
    <2>1. c \in DOMAIN p.tag /\ ~p.tag[c].used /\ n >= MinSize /\ p.prevTag[c].used /\ p.tag[c + n].used
      BY DEF FreeOf, FreeIn, Coalesced
    <2>2. /\ c \in Nat /\ n \in Nat /\ n > 0 /\ c + n \in DOMAIN p.tag /\ p.prevTag[c + n] = p.tag[c]
          /\ d <= c \/ d >= c + n
      BY <1>1, <2>1, ChunkFacts
    <2>3. q.tag[c] = p.tag[c]
      BY <1>2, <1>4, <2>1
    <2>4. q.prevTag[c].used
      <3>1. CASE c = e
        BY <3>1, <2>1
      <3>2. CASE c # e
        <4>1. c <= d \/ c > e
          BY <1>1, <1>4, <2>2, <3>2
        <4> QED
          BY <1>2, <2>1, <4>1
      <3> QED
        BY <3>1, <3>2
    <2>5. q.tag[c + n].used
      <3>1. CASE c + n = d
        BY <2>1, <2>2, <3>1
      <3>2. CASE c + n # d
        <4>1. c + n < d \/ c + n >= e
          BY <1>1, <1>4, <2>2, <3>2
        <4> QED
          BY <1>2, <2>1, <2>2, <4>1
      <3> QED
        BY <3>1, <3>2
    <2> QED
      BY <2>1, <2>3, <2>4, <2>5
  <1> QED
    BY <1>3, <1>4 DEF Coalesced, OutsideOf, FreeIn

LEMMA ChunkAlone ==
  ASSUME NEW p, Layout(p), NEW c \in DOMAIN p.tag, p.tag[c].size > 0 \/ ~p.tag[c].used
  PROVE  LET e == c + p.tag[c].size
         IN  /\ OutsideOf(FreeOf(p), c, e) = FreeOf(p) \ {c}
             /\ OutsideOf(UsedOf(p), c, e) = UsedOf(p) \ {c}
             /\ \A a \in DOMAIN p.tag : a = c \/ a < c \/ a >= e
  <1> DEFINE e == c + p.tag[c].size
  <1>1. c \in Nat /\ e \in Nat /\ c < e /\ DOMAIN p.tag \subseteq Nat /\ \A a \in DOMAIN p.tag : a <= c \/ a >= e
    BY ChunkFacts DEF Layout, TagsFit
  <1> HIDE DEF e
  <1>2. \A a \in DOMAIN p.tag : (a = c \/ a < c \/ a >= e) /\ (a < c \/ a >= e <=> a # c)
    BY <1>1
  <1>3. FreeOf(p) \subseteq DOMAIN p.tag /\ UsedOf(p) \subseteq DOMAIN p.tag
    BY DEF FreeOf, UsedOf, FreeIn, UsedIn
  <1>4. \A S : S \subseteq DOMAIN p.tag => OutsideOf(S, c, e) = S \ {c}
    BY <1>2 DEF OutsideOf
  <1> QED
    BY <1>2, <1>3, <1>4 DEF e

-----------------------------------------------------------------------------
(***************************************************************************)
(* Alloc.  q is p with one more chunk in use, c, which is n units, or one  *)
(* more.                                                                   *)
(***************************************************************************)
Given(p, q, c, n) ==
  /\ Sound(q)
  /\ c \in Nat /\ c \notin UsedOf(p) /\ UsedOf(q) = UsedOf(p) \union {c}
  /\ \A u \in UsedOf(p) : q.tag[u] = p.tag[u]
  /\ q.tag[c].size \in {n, n + 1}
  /\ q.areaMore = p.areaMore /\ DOMAIN p.areas \subseteq DOMAIN q.areas

LEMMA SplitGives ==
  ASSUME NEW p, NEW c, Loose(p, c), NEW n \in Nat, n > 0, p.tag[c].size - n >= MinSize
  PROVE  Split(p, c, n).chunk = {c} /\ Given(p, Split(p, c, n).pool, c, n)
  <1> DEFINE no == FALSE
             yes == TRUE
             e == c + p.tag[c].size
             m == c + n
             o == SetSize(p, m, e - m, no)
             r == LinkFree(o, m)
             q == SetSize(r, c, m - c, yes)
             F == FreeOf(p) \ {c}
  <1>1. Record(p) /\ Layout(p) /\ Coalesced(p) /\ c \in FreeOf(p) /\ Binned(p, F)
    BY DEF Loose
  <1>2. c \in DOMAIN p.tag /\ ~p.tag[c].used
    BY <1>1 DEF FreeOf, FreeIn
  <1>3. /\ c \in Nat /\ p.tag[c].size \in Nat /\ SpanOf(p, c, e) /\ e \in DOMAIN p.tag
        /\ DOMAIN p.tag \subseteq Nat /\ DOMAIN p.prevTag = DOMAIN p.tag
    BY <1>1, <1>2, ChunkFacts DEF Layout, TagsFit
  <1>4. /\ e \in Nat /\ m \in Nat /\ c < m /\ m < e /\ e - m \in Nat /\ e - m >= MinSize /\ e - m > 0
        /\ p.tag[c].size - n = e - m /\ n = m - c /\ m + (e - m) = e
    BY <1>3 DEF MinSize
  <1>5. Split(p, c, n) = [pool |-> q, chunk |-> {c}]
    BY <1>4 DEF Split
  <1>6. /\ OutsideOf(FreeOf(p), c, e) = F
        /\ OutsideOf(UsedOf(p), c, e) = UsedOf(p) \ {c}
        /\ \A a \in DOMAIN p.tag : a = c \/ a < c \/ a >= e
    BY <1>1, <1>2, ChunkAlone
  <1>7. \A x \in F : x \in DOMAIN p.tag /\ (x < c \/ x >= e)
    BY <1>6 DEF FreeOf, FreeIn
  <1>t. /\ Tag(e - m, no).size = e - m /\ ~Tag(e - m, no).used
        /\ Tag(m - c, yes).size = m - c /\ Tag(m - c, yes).used
        /\ yes \in BOOLEAN /\ no \in BOOLEAN
    BY DEF Tag
  <1> HIDE DEF e, F, yes, no
  <1>8. /\ Record(o) /\ SameBins(p, o) /\ o.tag[m] = Tag(e - m, no)
        /\ \A a \in DOMAIN p.tag : (a <= m \/ a >= e) /\ a # m => o.tag[a] = p.tag[a]
    <2> DEFINE k == e - m
    <2>1. /\ Record(SetSize(p, m, k, no)) /\ SameBins(p, SetSize(p, m, k, no))
          /\ SetSize(p, m, k, no).tag[m] = Tag(k, no)
          /\ \A a \in DOMAIN p.tag : (a <= m \/ a >= m + k) /\ a # m => SetSize(p, m, k, no).tag[a] = p.tag[a]
      <3> HIDE DEF k, m
      <3> QED
        BY <1>1, SetSizeIs
    <2>2. m + k = e
      BY <1>4
    <2> QED
      BY <2>1, <2>2
  <1> HIDE DEF o
  <1>9. \A x \in F : o.tag[x] = p.tag[x] /\ x # m
    <2> SUFFICES ASSUME NEW x \in F PROVE o.tag[x] = p.tag[x] /\ x # m
      OBVIOUS
    <2>1. x \in DOMAIN p.tag /\ x \in Nat /\ (x < c \/ x >= e)
      BY <1>3, <1>7
    <2>2. (x <= m \/ x >= e) /\ x # m
      BY <1>3, <1>4, <2>1
    <2> QED
      BY <1>8, <2>1, <2>2
  <1>10. Binned(o, F)
    <2>1. o.bins = p.bins /\ o.marked = p.marked /\ \A x \in F : o.tag[x].size = p.tag[x].size
      BY <1>8, <1>9 DEF SameBins
    <2> QED
      BY <1>1, <2>1, BinnedSame
  <1>11. o.tag[m].size = e - m
    BY <1>8, <1>t
  <1>12. Record(r) /\ SameTags(o, r) /\ Binned(r, F \union {m})
    BY <1>4, <1>8, <1>9, <1>10, <1>11, LinkFreeBins
  <1> HIDE DEF r
  <1>13. /\ Record(q) /\ SameBins(r, q) /\ Layout(q) /\ Outside(p, q, c, e, {m})
         /\ q.tag[c] = Tag(m - c, yes) /\ q.prevTag[m] = Tag(m - c, yes)
         /\ q.tag[m] = Tag(e - m, no) /\ q.prevTag[e] = Tag(e - m, no)
    <2> HIDE DEF m
    <2>1. SameTags(SetSize(p, m, e - m, no), r)
      BY <1>12 DEF o
    <2>2. InTwo(p, r, q, c, m, e, Tag(m - c, yes), Tag(e - m, no))
      BY <1>1, <1>3, <1>4, <1>12, <1>t, <2>1, Cut
    <2> HIDE DEF q
    <2> QED
      BY <2>2 DEF InTwo
  <1> HIDE DEF q, m
  <1>14. Inside({m}, c, e)
    BY <1>3, <1>4 DEF Inside
  <1>15. Redivided(p, q, c, e, {m})
    BY <1>1, <1>3, <1>13, <1>14, Views
  <1>16. /\ q.tag[c].size = m - c /\ q.tag[c].used /\ q.tag[m].size = e - m /\ ~q.tag[m].used
         /\ q.prevTag[m].used
    BY <1>13, <1>t
  <1>17. FreeIn(q, {m} \union {c}) = {m} /\ UsedIn(q, {m} \union {c}) = {c}
    <2>1. q.tag[c].size > 0
      BY <1>3, <1>4, <1>16
    <2> QED
      BY <1>16, <2>1 DEF FreeIn, UsedIn
  <1>18. c \notin UsedOf(p)
    BY <1>2 DEF UsedOf, UsedIn
  <1>19. FreeOf(q) = F \union {m} /\ UsedOf(q) = UsedOf(p) \union {c}
    BY <1>6, <1>15, <1>17, <1>18 DEF Redivided
  <1>20. \A x \in DOMAIN p.tag : x # c => q.tag[x] = p.tag[x]
    BY <1>6, <1>15 DEF Redivided
  <1>21. Binned(q, F \union {m})
    <2>1. q.bins = r.bins /\ q.marked = r.marked
      BY <1>13 DEF SameBins
    <2>2. \A x \in F : q.tag[x].size = r.tag[x].size
      <3> SUFFICES ASSUME NEW x \in F PROVE q.tag[x] = r.tag[x]
        OBVIOUS
      <3>1. q.tag[x] = p.tag[x]
        BY <1>7, <1>15 DEF Redivided
      <3> QED
        BY <1>9, <1>12, <3>1 DEF SameTags
    <2>3. q.tag[m].size = r.tag[m].size
      BY <1>8, <1>12, <1>13 DEF SameTags
    <2>4. \A x \in F \union {m} : q.tag[x].size = r.tag[x].size
      BY <2>2, <2>3
    <2> QED
      BY <1>12, <2>1, <2>4, BinnedSame
  <1>22. p.prevTag[c].used /\ p.tag[e].used /\ q.tag[e] = p.tag[e]
    <2>1. e # c
      BY <1>3, <1>4
    <2> QED
      BY <1>1, <1>3, <1>20, <2>1 DEF Coalesced, e
  <1>23. Coalesced(q)
    <2>1. \A x \in {m} \union {c} :
            ~q.tag[x].used => q.tag[x].size >= MinSize /\ q.prevTag[x].used /\ q.tag[x + q.tag[x].size].used
      BY <1>4, <1>16, <1>22
    <2> QED
      BY <1>1, <1>3, <1>13, <1>14, <1>22, <2>1, KeptCoalesced
  <1>24. Sound(q)
    BY <1>13, <1>19, <1>21, <1>23 DEF Sound
  <1>25. q.areaMore = p.areaMore /\ q.areas = p.areas
    BY <1>8, <1>12, <1>13 DEF SameBins, SameTags
  <1>26. \A u \in UsedOf(p) : q.tag[u] = p.tag[u]
    BY <1>18, <1>20 DEF UsedOf, UsedIn
  <1>27. Given(p, q, c, n)
    BY <1>3, <1>4, <1>16, <1>18, <1>19, <1>24, <1>25, <1>26 DEF Given
  <1> QED
    BY <1>5, <1>27

LEMMA WholeGives ==
  ASSUME NEW p, NEW c, Loose(p, c), NEW n \in Nat, p.tag[c].size \in {n, n + 1}
  PROVE  Whole(p, c).chunk = {c} /\ Given(p, Whole(p, c).pool, c, n)
  <1> DEFINE yes == TRUE
             e == c + p.tag[c].size
             q == SetSize(p, c, e - c, yes)
             F == FreeOf(p) \ {c}
  <1>1. Record(p) /\ Layout(p) /\ Coalesced(p) /\ c \in FreeOf(p) /\ Binned(p, F)
    BY DEF Loose
  <1>2. c \in DOMAIN p.tag /\ ~p.tag[c].used
    BY <1>1 DEF FreeOf, FreeIn
  <1>3. c \in Nat /\ p.tag[c].size \in Nat /\ p.tag[c].size > 0 /\ SpanOf(p, c, e) /\ e \in DOMAIN p.tag
    BY <1>1, <1>2, ChunkFacts
  <1>4. e \in Nat /\ p.tag[c].size = e - c /\ e - c \in Nat /\ e - c > 0
    BY <1>3
  <1>5. Whole(p, c) = [pool |-> q, chunk |-> {c}]
    BY <1>4 DEF Whole
  <1>6. /\ OutsideOf(FreeOf(p), c, e) = F
        /\ OutsideOf(UsedOf(p), c, e) = UsedOf(p) \ {c}
        /\ \A a \in DOMAIN p.tag : a = c \/ a < c \/ a >= e
    BY <1>1, <1>2, ChunkAlone
  <1>7. \A x \in F : x \in DOMAIN p.tag /\ (x < c \/ x >= e)
    BY <1>6 DEF FreeOf, FreeIn
  <1>8. Tag(e - c, yes).size = e - c /\ Tag(e - c, yes).used /\ yes \in BOOLEAN
    BY DEF Tag
  <1>9. p.prevTag[c].used /\ p.tag[e].used
    BY <1>1 DEF Coalesced
  <1> HIDE DEF e, F, yes
  <1>10. InOne(p, q, c, e, Tag(e - c, yes))
    BY <1>1, <1>3, <1>8, Merge
  <1> HIDE DEF q
  <1>11. /\ Record(q) /\ SameBins(p, q) /\ Layout(q) /\ Outside(p, q, c, e, {})
         /\ q.tag[c] = Tag(e - c, yes) /\ q.prevTag[e] = Tag(e - c, yes)
    BY <1>10 DEF InOne
  <1>12. Redivided(p, q, c, e, {})
    <2>1. Inside({}, c, e)
      BY DEF Inside
    <2> QED
      BY <1>1, <1>3, <1>11, <2>1, Views
  <1>13. FreeIn(q, {} \union {c}) = {} /\ UsedIn(q, {} \union {c}) = {c}
    BY <1>4, <1>8, <1>11 DEF FreeIn, UsedIn
  <1>14. c \notin UsedOf(p)
    BY <1>2 DEF UsedOf, UsedIn
  <1>15. FreeOf(q) = F /\ UsedOf(q) = UsedOf(p) \union {c}
    BY <1>6, <1>12, <1>13, <1>14 DEF Redivided
  <1>16. \A x \in DOMAIN p.tag : x # c => q.tag[x] = p.tag[x]
    BY <1>6, <1>12 DEF Redivided
  <1>17. Binned(q, F)
    <2>1. q.bins = p.bins /\ q.marked = p.marked /\ \A x \in F : q.tag[x].size = p.tag[x].size
      BY <1>7, <1>11, <1>12 DEF SameBins, Redivided
    <2> QED
      BY <1>1, <2>1, BinnedSame
  <1>18. Coalesced(q)
    <2>1. Inside({}, c, e)
      BY DEF Inside
    <2>2. \A x \in {} \union {c} :
            ~q.tag[x].used => q.tag[x].size >= MinSize /\ q.prevTag[x].used /\ q.tag[x + q.tag[x].size].used
      BY <1>8, <1>11
    <2>3. p.prevTag[c].used \/ q.tag[c].used
      BY <1>9
    <2>4. p.tag[e].used \/ q.prevTag[e].used
      BY <1>9
    <2> QED
      BY <1>1, <1>3, <1>11, <2>1, <2>2, <2>3, <2>4, KeptCoalesced
  <1>19. Sound(q)
    BY <1>11, <1>15, <1>17, <1>18 DEF Sound
  <1>20. q.areaMore = p.areaMore /\ q.areas = p.areas
    BY <1>11 DEF SameBins
  <1>21. \A u \in UsedOf(p) : q.tag[u] = p.tag[u]
    BY <1>14, <1>16 DEF UsedOf, UsedIn
  <1>22. q.tag[c].size \in {n, n + 1}
    BY <1>4, <1>8, <1>11
  <1>23. Given(p, q, c, n)
    BY <1>3, <1>14, <1>15, <1>19, <1>20, <1>21, <1>22 DEF Given
  <1> QED
    BY <1>5, <1>23

LEMMA TakeFreeGives ==
  ASSUME NEW p, Sound(p), NEW c \in FreeOf(p), NEW n \in Nat, n > 0, p.tag[c].size >= n
  PROVE  TakeFree(p, c, n).chunk = {c} /\ Given(p, TakeFree(p, c, n).pool, c, n)
  <1> DEFINE u == UnlinkFree(p, c)
  <1>1. Record(p) /\ Layout(p) /\ Coalesced(p) /\ Binned(p, FreeOf(p))
    BY DEF Sound
  <1>2. Record(u) /\ SameTags(p, u) /\ Binned(u, FreeOf(p) \ {c})
    BY <1>1, UnlinkFreeBins
  <1>3. p.tag[c].size \in Nat
    BY <1>1 DEF Binned
  <1>4. TakeFree(p, c, n) = IF p.tag[c].size - n >= MinSize THEN Split(u, c, n) ELSE Whole(u, c)
    BY DEF TakeFree
  <1> HIDE DEF u
  <1>5. Layout(u) /\ Coalesced(u) /\ FreeOf(u) = FreeOf(p) /\ UsedOf(u) = UsedOf(p)
    BY <1>1, <1>2, SameTagsKeep
  <1>6. Loose(u, c)
    BY <1>2, <1>5 DEF Loose
  <1>7. \A q : Given(u, q, c, n) => Given(p, q, c, n)
    BY <1>2, <1>5 DEF Given, SameTags
  <1>8. CASE p.tag[c].size - n >= MinSize
    <2>1. u.tag[c].size - n >= MinSize
      BY <1>2, <1>8 DEF SameTags
    <2>2. Split(u, c, n).chunk = {c} /\ Given(u, Split(u, c, n).pool, c, n)
      BY <1>6, <2>1, SplitGives
    <2> QED
      BY <1>4, <1>7, <1>8, <2>2
  <1>9. CASE ~(p.tag[c].size - n >= MinSize)
    <2>1. u.tag[c].size \in {n, n + 1}
      BY <1>2, <1>3, <1>9 DEF SameTags, MinSize
    <2>2. Whole(u, c).chunk = {c} /\ Given(u, Whole(u, c).pool, c, n)
      BY <1>6, <2>1, WholeGives
    <2> QED
      BY <1>4, <1>7, <1>9, <2>2
  <1> QED
    BY <1>8, <1>9

-----------------------------------------------------------------------------
(***************************************************************************)
(* A new area is one free chunk that is in no bin yet.                     *)
(***************************************************************************)
AreaAdded(p, q, k, n) ==
  /\ Record(q)
  /\ DOMAIN q.tag = DOMAIN p.tag \union {Base(k), Base(k) + n} /\ DOMAIN q.prevTag = DOMAIN q.tag
  /\ q.tag[Base(k)] = Tag(n, FALSE) /\ q.tag[Base(k) + n] = EndMark
  /\ q.prevTag[Base(k)] = EndMark /\ q.prevTag[Base(k) + n] = Tag(n, FALSE)
  /\ \A a \in DOMAIN p.tag : q.tag[a] = p.tag[a] /\ q.prevTag[a] = p.prevTag[a]
  /\ DOMAIN q.areas = DOMAIN p.areas \union {k} /\ q.areas[k] = n
  /\ \A j \in DOMAIN p.areas : q.areas[j] = p.areas[j]
  /\ q.areaMore = p.areaMore /\ q.bins = p.bins /\ q.marked = p.marked

\* No header is where the area is going to be.
Vacant(p, k) == \A a \in DOMAIN p.tag : a < Base(k) \/ a >= Base(k) + Stride

LEMMA AreaPlace ==
  ASSUME NEW k \in Areas \union {0}
  PROVE  k \in Nat /\ Base(k) \in Nat /\ Stride \in Nat
  <1>1. Areas \subseteq Nat /\ Stride \in Nat
    BY SizesAssumption
  <1>2. k \in Nat
    <2>1. CASE k = 0
      BY <2>1
    <2>2. CASE k \in Areas
      BY <1>1, <2>2
    <2> QED
      BY <2>1, <2>2
  <1> QED
    BY <1>1, <1>2 DEF Base

LEMMA VacantPlace ==
  ASSUME NEW p, Layout(p), NEW k \in Areas \union {0}, k \notin DOMAIN p.areas
  PROVE  Vacant(p, k)
  <1> SUFFICES ASSUME NEW a \in DOMAIN p.tag PROVE a < Base(k) \/ a >= Base(k) + Stride
    BY DEF Vacant
  <1>1. k \in Nat /\ Base(k) \in Nat /\ Stride \in Nat /\ a \in Nat
    BY AreaPlace DEF Layout, TagsFit
  <1>2. PICK j \in DOMAIN p.areas : Base(j) <= a /\ a <= End(p, j)
    BY DEF Layout, InAreas
  <1>3. j \in Nat /\ Base(j) \in Nat /\ End(p, j) \in Nat /\ End(p, j) < Base(j) + Stride
    BY AreaFacts DEF Layout
  <1>4. j < k => Base(j) + Stride <= Base(k)
    BY <1>1, <1>3, BasesApart
  <1>5. k < j => Base(k) + Stride <= Base(j)
    BY <1>1, <1>3, BasesApart
  <1> QED
    BY <1>1, <1>2, <1>3, <1>4, <1>5

LEMMA NewAreaIs ==
  ASSUME NEW p, Record(p), Layout(p), NEW k \in Areas \union {0}, k \notin DOMAIN p.areas,
         NEW n \in MinSize .. (Stride - 1)
  PROVE  AreaAdded(p, NewArea(p, k, n), k, n)
  <1> DEFINE no == FALSE
             b == Base(k)
             T == Written(p.tag, {b + n}, EndMark)
             P == Written(p.prevTag, {b}, EndMark)
             A == Written(p.areas, {k}, n)
             o == [p EXCEPT !.tag = T, !.prevTag = P, !.areas = A]
             q == SetSize(o, b, n, no)
  <1>1. b \in Nat /\ n \in Nat /\ n > 0 /\ n < Stride /\ Stride \in Nat
    BY AreaPlace DEF MinSize
  <1>2. /\ DOMAIN p.tag \subseteq Nat /\ DOMAIN p.prevTag = DOMAIN p.tag
        /\ \A a \in DOMAIN p.tag : a < b \/ a >= b + Stride
    BY VacantPlace DEF Layout, TagsFit, Vacant
  <1>3. NewArea(p, k, n) = q
    BY DEF NewArea
  <1>4. Record(o) /\ o.tag = T /\ o.prevTag = P /\ o.areas = A
        /\ o.areaMore = p.areaMore /\ o.bins = p.bins /\ o.marked = p.marked
    <2> DEFINE o1 == [p EXCEPT !.tag = T, !.prevTag = P]
    <2>1. o1 = [p EXCEPT !.tag = T, !.prevTag = P] /\ o = [o1 EXCEPT !.areas = A]
      OBVIOUS
    <2> HIDE DEF T, P, A, o, o1
    <2>2. /\ Record(o1) /\ o1.tag = T /\ o1.prevTag = P
          /\ o1.areaMore = p.areaMore /\ o1.bins = p.bins /\ o1.marked = p.marked
      BY <2>1 DEF Record
    <2> QED
      BY <2>1, <2>2 DEF Record
  <1>5. /\ DOMAIN T = DOMAIN p.tag \union {b + n} /\ T[b + n] = EndMark
        /\ \A a \in DOMAIN p.tag : a # b + n => T[a] = p.tag[a]
    BY DEF Written
  <1>6. /\ DOMAIN P = DOMAIN p.prevTag \union {b} /\ P[b] = EndMark
        /\ \A a \in DOMAIN p.prevTag : a # b => P[a] = p.prevTag[a]
    BY DEF Written
  <1>7. /\ DOMAIN A = DOMAIN p.areas \union {k} /\ A[k] = n
        /\ \A j \in DOMAIN p.areas : A[j] = p.areas[j]
    BY DEF Written
  <1> HIDE DEF T, P, A, o, b, no
  <1>8. /\ Record(q) /\ SameBins(o, q)
        /\ DOMAIN q.tag = {a \in DOMAIN o.tag : a <= b \/ a >= b + n} \union {b}
        /\ q.tag[b] = Tag(n, no)
        /\ \A a \in DOMAIN o.tag : (a <= b \/ a >= b + n) /\ a # b => q.tag[a] = o.tag[a]
        /\ DOMAIN q.prevTag = {a \in DOMAIN o.prevTag : a <= b \/ a >= b + n} \union {b + n}
        /\ q.prevTag[b + n] = Tag(n, no)
        /\ \A a \in DOMAIN o.prevTag : (a <= b \/ a >= b + n) /\ a # b + n => q.prevTag[a] = o.prevTag[a]
    BY <1>4, SetSizeIs
  <1> HIDE DEF q
  <1>9. \A a \in DOMAIN p.tag : (a <= b \/ a >= b + n) /\ a # b /\ a # b + n
    BY <1>1, <1>2
  <1>10. b <= b /\ b + n >= b + n /\ b + n # b
    BY <1>1
  <1>11. DOMAIN q.tag = DOMAIN p.tag \union {b, b + n}
    BY <1>4, <1>5, <1>8, <1>9, <1>10
  <1>12. DOMAIN q.prevTag = DOMAIN q.tag
    BY <1>2, <1>4, <1>6, <1>8, <1>9, <1>10, <1>11
  <1>13. q.tag[b + n] = EndMark /\ q.prevTag[b] = EndMark
    BY <1>4, <1>5, <1>6, <1>8, <1>10
  <1>14. \A a \in DOMAIN p.tag : q.tag[a] = p.tag[a] /\ q.prevTag[a] = p.prevTag[a]
    BY <1>2, <1>4, <1>5, <1>6, <1>8, <1>9
  <1>15. /\ DOMAIN q.areas = DOMAIN p.areas \union {k} /\ q.areas[k] = n
         /\ \A j \in DOMAIN p.areas : q.areas[j] = p.areas[j]
         /\ q.areaMore = p.areaMore /\ q.bins = p.bins /\ q.marked = p.marked
    BY <1>4, <1>7, <1>8 DEF SameBins
  <1> QED
    BY <1>3, <1>8, <1>11, <1>12, <1>13, <1>14, <1>15 DEF AreaAdded, b, no

LEMMA AddedLayout ==
  ASSUME NEW p, Layout(p), NEW k \in Areas \union {0}, k \notin DOMAIN p.areas,
         NEW n \in MinSize .. (Stride - 1), NEW q, AreaAdded(p, q, k, n)
  PROVE  Layout(q)
  <1> DEFINE b == Base(k)
             e == b + n
             D == DOMAIN p.tag
  <1>1. b \in Nat /\ n \in Nat /\ n > 0 /\ n < Stride /\ Stride \in Nat /\ e \in Nat /\ b < e /\ e < b + Stride
    BY AreaPlace DEF MinSize
  <1>2. /\ D \subseteq Nat /\ DOMAIN p.prevTag = D
        /\ \A a \in D : a < b \/ a > e
    <2>1. \A a \in D : a \in Nat /\ (a < b \/ a >= b + Stride)
      BY VacantPlace DEF Layout, TagsFit, Vacant
    <2> QED
      BY <1>1, <2>1 DEF Layout, TagsFit
  <1>3. Tag(n, FALSE) \in TagSet /\ Tag(n, FALSE).size = n /\ EndMark \in TagSet /\ EndMark.size = 0
    BY <1>1, EndMarkIs DEF Tag, TagSet
  <1>4. /\ DOMAIN q.tag = D \union {b, e} /\ DOMAIN q.prevTag = D \union {b, e}
        /\ q.tag[b].size = n /\ q.tag[b] = Tag(n, FALSE) /\ q.tag[e] = EndMark /\ q.tag[e].size = 0
        /\ q.prevTag[b] = EndMark /\ q.prevTag[b].size = 0 /\ q.prevTag[e] = Tag(n, FALSE) /\ q.prevTag[e].size = n
        /\ \A a \in D : q.tag[a] = p.tag[a] /\ q.prevTag[a] = p.prevTag[a]
    BY <1>3 DEF AreaAdded
  <1>5. /\ DOMAIN q.areas = DOMAIN p.areas \union {k} /\ q.areas[k] = n
        /\ \A j \in DOMAIN p.areas : q.areas[j] = p.areas[j]
    BY DEF AreaAdded
  <1>6. End(q, k) = e /\ \A j \in DOMAIN p.areas : End(q, j) = End(p, j)
    BY <1>5 DEF End
  <1> HIDE DEF b, e, D
  <1>7. AreasFit(q)
    BY <1>5 DEF Layout, AreasFit
  <1>8. TagsFit(q)
    BY <1>1, <1>2, <1>3, <1>4 DEF Layout, TagsFit, D
  <1>9. MarksSet(q)
    BY <1>4, <1>5, <1>6 DEF Layout, MarksSet, D, b
  <1>10. InAreas(q)
    <2> SUFFICES ASSUME NEW a \in DOMAIN q.tag
                 PROVE  \E j \in DOMAIN q.areas : /\ Base(j) <= a /\ a <= End(q, j)
                                                  /\ q.tag[a].size = 0 => a = End(q, j)
                                                  /\ q.prevTag[a].size = 0 => a = Base(j)
      BY DEF InAreas
    <2>1. CASE a \in D
      <3>1. PICK j \in DOMAIN p.areas : /\ Base(j) <= a /\ a <= End(p, j)
                                        /\ p.tag[a].size = 0 => a = End(p, j)
                                        /\ p.prevTag[a].size = 0 => a = Base(j)
        BY <2>1 DEF Layout, InAreas, D
      <3>2. j \in DOMAIN q.areas /\ End(q, j) = End(p, j)
        BY <1>5, <1>6
      <3>3. q.tag[a] = p.tag[a] /\ q.prevTag[a] = p.prevTag[a]
        BY <1>4, <2>1
      <3> QED
        BY <3>1, <3>2, <3>3
    <2>2. CASE a = b
      <3>1. b <= b /\ b <= e /\ q.tag[b].size # 0
        BY <1>1, <1>4
      <3>2. k \in DOMAIN q.areas /\ Base(k) <= a /\ a <= End(q, k) /\ a = Base(k) /\ q.tag[a].size # 0
        BY <1>5, <1>6, <2>2, <3>1 DEF b
      <3> QED
        BY <3>2
    <2>3. CASE a = e
      <3>a. b <= e /\ e <= e /\ n # 0
        BY <1>1
      <3>1. b <= e /\ e <= e /\ q.prevTag[e].size # 0
        BY <1>4, <3>a
      <3>2. k \in DOMAIN q.areas /\ Base(k) <= a /\ a <= End(q, k) /\ a = End(q, k) /\ q.prevTag[a].size # 0
        BY <1>5, <1>6, <2>3, <3>1 DEF b
      <3> QED
        BY <3>2
    <2> QED
      BY <1>4, <2>1, <2>2, <2>3
  <1>11. Forward(q)
    <2> SUFFICES ASSUME NEW c \in DOMAIN q.tag, q.tag[c].size > 0
                 PROVE  /\ c + q.tag[c].size \in DOMAIN q.tag
                        /\ q.prevTag[c + q.tag[c].size] = q.tag[c]
                        /\ \A a \in DOMAIN q.tag : a <= c \/ a >= c + q.tag[c].size
      BY DEF Forward
    <2>1. CASE c \in D
      <3> DEFINE m == p.tag[c].size
      <3>1. /\ c \in Nat /\ m \in Nat /\ m > 0 /\ c + m \in D /\ p.prevTag[c + m] = p.tag[c]
            /\ \A a \in D : a <= c \/ a >= c + m
            /\ SpanOf(p, c, c + m)
        BY <1>4, <2>1, ChunkFacts DEF D
      <3>2. q.tag[c] = p.tag[c]
        BY <1>4, <2>1
      <3>3. PICK j \in DOMAIN p.areas : Base(j) <= c /\ c + m <= End(p, j)
        BY <3>1 DEF SpanOf
      <3>4. j \in Nat /\ Base(j) \in Nat /\ End(p, j) \in Nat /\ End(p, j) < Base(j) + Stride
        BY AreaFacts DEF Layout
      <3>5. (j < k => Base(j) + Stride <= b) /\ (k < j => b + Stride <= Base(j)) /\ j # k
        BY <3>4, AreaPlace, BasesApart DEF b
      <3>6. k \in Nat
        BY AreaPlace
      <3>7. (b <= c \/ b >= c + m) /\ (e <= c \/ e >= c + m)
        <4> HIDE DEF m
        <4>1. CASE j < k
          BY <1>1, <3>1, <3>3, <3>4, <3>5, <4>1
        <4>2. CASE k < j
          BY <1>1, <3>1, <3>3, <3>4, <3>5, <4>2
        <4> QED
          BY <3>4, <3>5, <3>6, <4>1, <4>2
      <3> QED
        BY <1>4, <3>1, <3>2, <3>7
    <2>2. CASE c = b
      <3>1. \A a \in DOMAIN q.tag : a <= b \/ a >= e
        <4>1. b <= b /\ e >= e /\ \A a \in D : a <= b \/ a >= e
          BY <1>1, <1>2
        <4> QED
          BY <1>4, <4>1
      <3> QED
        BY <1>4, <2>2, <3>1 DEF e
    <2>3. CASE c = e
      BY <1>4, <2>3
    <2> QED
      BY <1>4, <2>1, <2>2, <2>3
  <1>12. Backward(q)
    <2> SUFFICES ASSUME NEW x \in DOMAIN q.tag, q.prevTag[x].size > 0
                 PROVE  /\ x - q.prevTag[x].size \in DOMAIN q.tag
                        /\ q.tag[x - q.prevTag[x].size] = q.prevTag[x]
      BY DEF Backward
    <2>1. CASE x \in D
      <3>1. q.prevTag[x] = p.prevTag[x]
        BY <1>4, <2>1
      <3>2. /\ x - p.prevTag[x].size \in D
            /\ p.tag[x - p.prevTag[x].size] = p.prevTag[x]
        BY <2>1, <3>1, BeforeFacts DEF D
      <3> QED
        BY <1>4, <3>1, <3>2
    <2>2. CASE x = b
      BY <1>4, <2>2
    <2>3. CASE x = e
      <3>1. e - n = b
        BY <1>1 DEF e
      <3> QED
        BY <1>4, <2>3, <3>1
    <2> QED
      BY <1>4, <2>1, <2>2, <2>3
  <1> QED
    BY <1>7, <1>8, <1>9, <1>10, <1>11, <1>12 DEF Layout

LEMMA AddedLoose ==
  ASSUME NEW p, Sound(p), NEW k \in Areas \union {0}, k \notin DOMAIN p.areas,
         NEW n \in MinSize .. (Stride - 1), NEW q, AreaAdded(p, q, k, n)
  PROVE  /\ Loose(q, Base(k)) /\ UsedOf(q) = UsedOf(p) /\ q.tag[Base(k)].size = n
         /\ \A u \in UsedOf(p) : q.tag[u] = p.tag[u]
  <1> DEFINE b == Base(k)
  <1>1. Record(p) /\ Layout(p) /\ Coalesced(p) /\ Binned(p, FreeOf(p))
    BY DEF Sound
  <1>2. Layout(q)
    BY <1>1, AddedLayout
  <1>3. b \in Nat /\ n \in Nat /\ n >= MinSize /\ Stride \in Nat /\ n < Stride /\ n > 0 /\ b + n \in Nat /\ b + n # b
    BY AreaPlace DEF MinSize
  <1>4. b \notin DOMAIN p.tag /\ b + n \notin DOMAIN p.tag
    <2>1. \A a \in DOMAIN p.tag : a \in Nat /\ (a < b \/ a >= b + Stride)
      BY <1>1, VacantPlace DEF Layout, TagsFit, Vacant
    <2> QED
      BY <1>3, <2>1
  <1>5. /\ Tag(n, FALSE).size = n /\ ~Tag(n, FALSE).used /\ EndMark.used /\ EndMark.size = 0
    BY DEF Tag, EndMark
  <1>6. /\ DOMAIN q.tag = DOMAIN p.tag \union {b, b + n}
        /\ q.tag[b] = Tag(n, FALSE) /\ q.tag[b + n] = EndMark
        /\ q.prevTag[b] = EndMark
        /\ \A a \in DOMAIN p.tag : q.tag[a] = p.tag[a] /\ q.prevTag[a] = p.prevTag[a]
    BY DEF AreaAdded
  <1> HIDE DEF b
  <1>7. FreeOf(q) = FreeOf(p) \union {b} /\ b \notin FreeOf(p)
    BY <1>4, <1>5, <1>6 DEF FreeOf, FreeIn
  <1>8. UsedOf(q) = UsedOf(p)
    <2>a. ~q.tag[b].used /\ q.tag[b + n].size = 0
      BY <1>5, <1>6
    <2>1. ~q.tag[b].used /\ ~(q.tag[b + n].size > 0)
      BY <2>a
    <2>2. \A a \in DOMAIN q.tag :
            q.tag[a].used /\ q.tag[a].size > 0 <=> a \in DOMAIN p.tag /\ p.tag[a].used /\ p.tag[a].size > 0
      BY <1>4, <1>6, <2>1
    <2>3. DOMAIN p.tag \subseteq DOMAIN q.tag
      BY <1>6
    <2> QED
      BY <2>2, <2>3 DEF UsedOf, UsedIn
  <1>9. Coalesced(q)
    <2>1. ASSUME NEW c \in FreeOf(p)
          PROVE  q.tag[c].size >= MinSize /\ q.prevTag[c].used /\ q.tag[c + q.tag[c].size].used
      <3>1. c \in DOMAIN p.tag /\ ~p.tag[c].used
        BY DEF FreeOf, FreeIn
      <3>2. c + p.tag[c].size \in DOMAIN p.tag
        BY <1>1, <3>1, ChunkFacts
      <3>3. /\ q.tag[c] = p.tag[c] /\ q.prevTag[c] = p.prevTag[c]
            /\ q.tag[c + p.tag[c].size] = p.tag[c + p.tag[c].size]
        BY <1>6, <3>1, <3>2
      <3>4. p.tag[c].size >= MinSize /\ p.prevTag[c].used /\ p.tag[c + p.tag[c].size].used
        BY <1>1 DEF Coalesced
      <3> QED
        BY <3>3, <3>4
    <2>2. q.tag[b].size >= MinSize /\ q.prevTag[b].used /\ q.tag[b + q.tag[b].size].used
      BY <1>3, <1>5, <1>6
    <2> QED
      BY <1>7, <2>1, <2>2 DEF Coalesced
  <1>10. Binned(q, FreeOf(p))
    <2>1. \A c \in FreeOf(p) : q.tag[c].size = p.tag[c].size
      BY <1>6 DEF FreeOf, FreeIn
    <2>2. q.bins = p.bins /\ q.marked = p.marked
      BY DEF AreaAdded
    <2> QED
      BY <1>1, <2>1, <2>2, BinnedSame
  <1>11. Loose(q, b)
    <2>1. FreeOf(q) \ {b} = FreeOf(p)
      BY <1>7
    <2>2. Record(q)
      BY DEF AreaAdded
    <2> QED
      BY <1>2, <1>7, <1>9, <1>10, <2>1, <2>2 DEF Loose
  <1> QED
    BY <1>5, <1>6, <1>8, <1>11 DEF b, UsedOf, UsedIn

LEMMA Linked ==
  ASSUME NEW p, NEW c, Loose(p, c)
  PROVE  Sound(LinkFree(p, c)) /\ SameTags(p, LinkFree(p, c))
  <1> DEFINE q == LinkFree(p, c)
             F == FreeOf(p) \ {c}
  <1>1. Record(p) /\ Layout(p) /\ Coalesced(p) /\ c \in FreeOf(p) /\ Binned(p, F)
    BY DEF Loose
  <1>2. c \in Nat /\ p.tag[c].size \in Nat /\ c \notin F /\ F \union {c} = FreeOf(p)
    BY <1>1, ChunkFacts DEF FreeOf, FreeIn
  <1>3. Record(q) /\ SameTags(p, q) /\ Binned(q, F \union {c})
    <2> HIDE DEF F
    <2> QED
      BY <1>1, <1>2, LinkFreeBins
  <1> HIDE DEF q
  <1>4. Layout(q) /\ Coalesced(q) /\ FreeOf(q) = FreeOf(p)
    BY <1>1, <1>3, SameTagsKeep
  <1>5. Sound(q)
    BY <1>2, <1>3, <1>4 DEF Sound
  <1> QED
    BY <1>3, <1>5 DEF q

LEMMA EmptyIsSound ==
  ASSUME NEW more
  PROVE  LET p == EmptyPool(more)
         IN  Sound(p) /\ DOMAIN p.areas = {} /\ UsedOf(p) = {} /\ p.areaMore = more
  <1> DEFINE p == EmptyPool(more)
  <1>1. /\ p.tag = <<>> /\ p.prevTag = <<>> /\ p.areas = <<>> /\ p.areaMore = more
        /\ p.bins = [i \in Index |-> <<>>] /\ p.marked = {} /\ Record(p)
    BY DEF EmptyPool, Record
  <1> HIDE DEF p
  <1>2. DOMAIN p.tag = {} /\ DOMAIN p.prevTag = {} /\ DOMAIN p.areas = {}
    BY <1>1
  <1>3. FreeOf(p) = {} /\ UsedOf(p) = {}
    BY <1>2 DEF FreeOf, UsedOf, FreeIn, UsedIn
  <1>4. Layout(p)
    BY <1>2 DEF Layout, AreasFit, TagsFit, MarksSet, InAreas, Forward, Backward
  <1>5. Coalesced(p)
    BY <1>3 DEF Coalesced
  <1>6. Binned(p, {})
    <2>1. \A i \in Index : p.bins[i] = <<>> /\ InBin(p, {}, i, <<>>)
      BY <1>1 DEF InBin
    <2>2. p.bins \in [Index -> Seq(Nat)] /\ p.marked = {}
      BY <1>1
    <2> QED
      BY <2>1, <2>2 DEF Binned
  <1> QED
    BY <1>1, <1>2, <1>3, <1>4, <1>5, <1>6 DEF Sound, p

\* No request leaves less than a chunk of a new area; AllocPool_tails shows what comes of it.
NoShortTails == \A n \in Sizes, more \in AreaMores : n <= more => more - n >= MinSize

\* A pool that does not grow has its area from the start.
Grown(p) == p.areaMore \in AreaMores /\ (p.areaMore = 0 /\ AreaInit # 0 => DOMAIN p.areas # {})

\* What Take returns: nothing, or a chunk.
Taken(p, r, n) ==
  \/ r.chunk = {} /\ r.pool = p
  \/ \E c \in Nat : r.chunk = {c} /\ Given(p, r.pool, c, n)

LEMMA TakeNewGives ==
  ASSUME NEW p, Sound(p), Grown(p), NoShortTails, NEW n \in Sizes
  PROVE  Taken(p, TakeNew(p, n), n)
  <1> DEFINE places == Areas \ DOMAIN p.areas
             k == CHOOSE k \in places : \A j \in places : k <= j
             size == IF n > p.areaMore THEN n ELSE p.areaMore
             q == NewArea(p, k, size)
  <1>1. CASE places = {} \/ (p.areaMore = 0 /\ (DOMAIN p.areas # {} \/ n > AreaInit))
    BY <1>1 DEF TakeNew, Nothing, Taken
  <1>2. CASE ~(places = {} \/ (p.areaMore = 0 /\ (DOMAIN p.areas # {} \/ n > AreaInit)))
    <2>1. /\ n \in Nat /\ n >= MinSize /\ n \in MinSize .. (Stride - 1) /\ MinSize = 2
          /\ p.areaMore \in AreaMores
          /\ p.areaMore \in {0} \union (MinSize .. (Stride - 1))
      BY SizesAssumption DEF Grown, MinSize
    <2>2. p.areaMore # 0
      <3> SUFFICES ASSUME p.areaMore = 0 PROVE FALSE
        OBVIOUS
      <3>1. DOMAIN p.areas = {} /\ ~(n > AreaInit)
        BY <1>2
      <3>2. AreaInit = 0
        BY <3>1 DEF Grown
      <3> QED
        BY <2>1, <3>1, <3>2
    <2>3. p.areaMore \in MinSize .. (Stride - 1) /\ p.areaMore \in Nat
      BY <2>1, <2>2
    <2>4. k \in places
      <3>1. places \in SUBSET Nat /\ places # {}
        BY <1>2, SizesAssumption
      <3>2. \E j \in places : \A i \in places : j <= i
        <4> HIDE DEF places
        <4> QED
          BY <3>1, LeastNat
      <3> HIDE DEF places
      <3> QED
        BY <3>2
    <2>5. TakeNew(p, n) = IF n > p.areaMore THEN Whole(q, Base(k)) ELSE Split(q, Base(k), n)
      BY <1>2, <2>2 DEF TakeNew
    <2> HIDE DEF k, places, q
    <2>6. k \in Areas \union {0} /\ k \notin DOMAIN p.areas
      BY <2>4 DEF places
    <2>7. size \in MinSize .. (Stride - 1)
      BY <2>1, <2>3
    <2> HIDE DEF size
    <2>8. AreaAdded(p, q, k, size)
      BY <2>6, <2>7, NewAreaIs DEF q, Sound
    <2>9. /\ Loose(q, Base(k)) /\ UsedOf(q) = UsedOf(p) /\ q.tag[Base(k)].size = size
          /\ \A u \in UsedOf(p) : q.tag[u] = p.tag[u]
      BY <2>6, <2>7, <2>8, AddedLoose
    <2>10. q.areaMore = p.areaMore /\ DOMAIN p.areas \subseteq DOMAIN q.areas
      BY <2>8 DEF AreaAdded
    <2>11. \A c, r : Given(q, r, c, n) => Given(p, r, c, n)
      BY <2>9, <2>10 DEF Given
    <2>12. Base(k) \in Nat
      BY <2>6, AreaPlace
    <2>13. CASE n > p.areaMore
      <3>1. q.tag[Base(k)].size \in {n, n + 1}
        BY <2>9, <2>13 DEF size
      <3>2. Whole(q, Base(k)).chunk = {Base(k)} /\ Given(q, Whole(q, Base(k)).pool, Base(k), n)
        BY <2>1, <2>9, <3>1, WholeGives
      <3> QED
        BY <2>5, <2>11, <2>12, <2>13, <3>2 DEF Taken
    <2>14. CASE ~(n > p.areaMore)
      <3>1. n <= p.areaMore /\ n > 0
        BY <2>1, <2>3, <2>14
      <3>2. p.areaMore - n >= MinSize
        BY <2>1, <3>1 DEF NoShortTails
      <3>3. q.tag[Base(k)].size - n >= MinSize
        BY <2>9, <2>14, <3>2 DEF size
      <3>4. Split(q, Base(k), n).chunk = {Base(k)} /\ Given(q, Split(q, Base(k), n).pool, Base(k), n)
        BY <2>1, <2>9, <3>1, <3>3, SplitGives
      <3> QED
        BY <2>5, <2>11, <2>12, <2>14, <3>4 DEF Taken
    <2> QED
      BY <2>13, <2>14
  <1> QED
    BY <1>1, <1>2

-----------------------------------------------------------------------------
(***************************************************************************)
(* The search through the bins.                                            *)
(***************************************************************************)
Enough(p, n) == {c \in FreeOf(p) : p.tag[c].size >= n}

LEMMA LastOf ==
  ASSUME NEW L \in Nat, NEW S \in SUBSET (1 .. L), S # {}
  PROVE  \E k \in S : \A j \in S : j <= k
  <1> DEFINE T == {L - k : k \in S}
  <1>1. T \in SUBSET Nat /\ T # {}
    <2>1. \A k \in S : L - k \in Nat
      OBVIOUS
    <2>2. \A t \in T : t \in Nat
      BY <2>1
    <2>3. PICK k \in S : TRUE
      OBVIOUS
    <2>4. L - k \in T
      OBVIOUS
    <2> QED
      BY <2>2, <2>4
  <1>2. PICK t \in T : \A u \in T : t <= u
    <2> HIDE DEF T
    <2> QED
      BY <1>1, LeastNat
  <1>3. PICK k \in S : t = L - k
    OBVIOUS
  <1>4. \A j \in S : j <= k
    <2> SUFFICES ASSUME NEW j \in S PROVE j <= k
      OBVIOUS
    <2>1. L - j \in T
      OBVIOUS
    <2>2. L - k <= L - j
      BY <1>2, <1>3, <2>1
    <2> QED
      BY <2>2
  <1> QED
    BY <1>4

Fits(p, n, i) == {k \in DOMAIN p.bins[i] : p.tag[p.bins[i][k]].size >= n}

LEMMA FirstFitIs ==
  ASSUME NEW p, Binned(p, FreeOf(p)), NEW n \in Nat
  PROVE  LET found == {i \in Searched(p, n) : Fits(p, n, i) # {}}
         IN  \/ found = {} /\ FirstFit(p, n) = {}
             \/ \E i \in found : \E k \in Fits(p, n, i) :
                  /\ \A j \in found : i <= j
                  /\ \A j \in Fits(p, n, i) : j <= k
                  /\ FirstFit(p, n) = {p.bins[i][k]}
  <1> DEFINE fits(i) == {k \in DOMAIN p.bins[i] : p.tag[p.bins[i][k]].size >= n}
             found == {i \in Searched(p, n) : fits(i) # {}}
             bin == CHOOSE i \in found : \A k \in found : i <= k
             last == CHOOSE k \in fits(bin) : \A j \in fits(bin) : j <= k
  <1>1. \A i : fits(i) = Fits(p, n, i)
    BY DEF Fits
  <1>2. FirstFit(p, n) = IF found = {} THEN {} ELSE {p.bins[bin][last]}
    BY DEF FirstFit
  <1>a. found = {i \in Searched(p, n) : Fits(p, n, i) # {}}
    BY <1>1
  <1>3. CASE found = {}
    <2> HIDE DEF found
    <2>1. FirstFit(p, n) = {}
      BY <1>2, <1>3
    <2>2. {i \in Searched(p, n) : Fits(p, n, i) # {}} = {}
      BY <1>a, <1>3
    <2> QED
      BY <2>1, <2>2, Zenon
  <1>4. CASE found # {}
    <2>1. Searched(p, n) \subseteq Index
      <3>1. BinIndex(n) \in Index /\ p.marked \subseteq Index
        BY BinIndexFacts DEF Binned
      <3>2. BinIndex(n) < SmallBins - 1 => BinIndex(n) + 1 \in Index
        BY <3>1, BinsAssumption DEF Index
      <3> QED
        BY <3>1, <3>2 DEF Searched
    <2>2. found \in SUBSET Nat
      BY <2>1 DEF Index
    <2>3. bin \in found /\ \A k \in found : bin <= k
      <3> HIDE DEF found
      <3>1. \E i \in found : \A k \in found : i <= k
        BY <1>4, <2>2, LeastNat
      <3> QED
        BY <3>1
    <2> HIDE DEF bin, fits
    <2>4. bin \in Index /\ fits(bin) # {}
      BY <2>1, <2>3
    <2> USE DEF fits
    <2> HIDE DEF found
    <2>5. p.bins[bin] \in Seq(Nat)
      BY <2>4 DEF Binned
    <2>6. fits(bin) \in SUBSET (1 .. Len(p.bins[bin])) /\ Len(p.bins[bin]) \in Nat
      BY <2>5
    <2>7. last \in fits(bin) /\ \A j \in fits(bin) : j <= last
      <3> HIDE DEF fits
      <3>1. \E k \in fits(bin) : \A j \in fits(bin) : j <= k
        BY <2>4, <2>6, LastOf
      <3> QED
        BY <3>1
    <2> HIDE DEF fits, last
    <2> QED
      BY <1>1, <1>2, <1>4, <1>a, <2>3, <2>7
  <1> QED
    BY <1>3, <1>4

\* The smallest of the free chunks that are large enough.
LEMMA FirstFitBest ==
  ASSUME NEW p, Binned(p, FreeOf(p)), NEW n \in Nat
  PROVE  \/ Enough(p, n) = {} /\ FirstFit(p, n) = {}
         \/ \E c \in Enough(p, n) : /\ FirstFit(p, n) = {c}
                                    /\ \A d \in Enough(p, n) : p.tag[c].size <= p.tag[d].size
  <1> DEFINE found == {i \in Searched(p, n) : Fits(p, n, i) # {}}
             bin(c) == BinIndex(p.tag[c].size)
  <1>1. \A c \in FreeOf(p) : c \in Nat /\ p.tag[c].size \in Nat
    BY DEF Binned
  <1>2. \A i \in Index : /\ (i \in p.marked <=> p.bins[i] # <<>>) /\ InBin(p, FreeOf(p), i, p.bins[i])
                         /\ p.bins[i] \in Seq(Nat)
    BY DEF Binned
  <1>3. Searched(p, n) \subseteq Index
    <2>1. BinIndex(n) \in Index /\ p.marked \subseteq Index
      BY BinIndexFacts DEF Binned
    <2>2. BinIndex(n) < SmallBins - 1 => BinIndex(n) + 1 \in Index
      BY <2>1, BinsAssumption DEF Index
    <2> QED
      BY <2>1, <2>2 DEF Searched
  <1>4. \A i \in Index : \A k \in Fits(p, n, i) :
          p.bins[i][k] \in Enough(p, n) /\ bin(p.bins[i][k]) = i /\ k \in 1 .. Len(p.bins[i])
    <2> TAKE i \in Index
    <2> TAKE k \in Fits(p, n, i)
    <2>1. k \in 1 .. Len(p.bins[i]) /\ p.tag[p.bins[i][k]].size >= n
      BY <1>2 DEF Fits
    <2> QED
      BY <1>2, <2>1 DEF Enough, InBin
  <1>5. ASSUME NEW d \in Enough(p, n)
        PROVE  /\ bin(d) \in found
               /\ \E k \in Fits(p, n, bin(d)) : p.bins[bin(d)][k] = d
    <2>1. d \in FreeOf(p) /\ p.tag[d].size >= n /\ p.tag[d].size \in Nat
      BY <1>1 DEF Enough
    <2>2. bin(d) \in Index
      BY <2>1, BinIndexFacts
    <2>3. PICK k \in 1 .. Len(p.bins[bin(d)]) : p.bins[bin(d)][k] = d
      BY <1>2, <2>1, <2>2 DEF InBin
    <2>4. k \in Fits(p, n, bin(d))
      <3>1. p.bins[bin(d)] \in Seq(Nat)
        BY <1>2, <2>2
      <3> HIDE DEF bin
      <3>2. k \in DOMAIN p.bins[bin(d)]
        BY <2>3, <3>1
      <3> QED
        BY <2>1, <2>3, <3>2 DEF Fits
    <2>5. BinIndex(n) <= bin(d)
      BY <2>1, BinMonotone
    <2>6. bin(d) \in p.marked
      <3>1. p.bins[bin(d)] # <<>>
        BY <2>3
      <3> QED
        BY <1>2, <2>2, <3>1
    <2>7. bin(d) \in Searched(p, n)
      <3>1. bin(d) = BinIndex(n) \/ bin(d) > BinIndex(n)
        <4>1. bin(d) \in Nat /\ BinIndex(n) \in Nat
          BY <2>2, BinIndexFacts DEF Index
        <4> HIDE DEF bin
        <4> QED
          BY <2>5, <4>1
      <3> QED
        BY <2>6, <3>1 DEF Searched
    <2> QED
      BY <2>3, <2>4, <2>7
  <1>6. CASE found = {} /\ FirstFit(p, n) = {}
    BY <1>5, <1>6
  <1>7. CASE \E i \in found : \E k \in Fits(p, n, i) :
               /\ \A j \in found : i <= j
               /\ \A j \in Fits(p, n, i) : j <= k
               /\ FirstFit(p, n) = {p.bins[i][k]}
    <2>0. PICK i \in found : \E k \in Fits(p, n, i) :
                               /\ \A j \in found : i <= j
                               /\ \A j \in Fits(p, n, i) : j <= k
                               /\ FirstFit(p, n) = {p.bins[i][k]}
      BY <1>7
    <2>1. PICK k \in Fits(p, n, i) : /\ \A j \in found : i <= j
                                     /\ \A j \in Fits(p, n, i) : j <= k
                                     /\ FirstFit(p, n) = {p.bins[i][k]}
      BY <2>0
    <2> DEFINE c == p.bins[i][k]
    <2>2. i \in Index /\ i \in Nat
      BY <1>3 DEF Index
    <2>3. c \in Enough(p, n) /\ bin(c) = i /\ k \in 1 .. Len(p.bins[i])
      BY <1>4, <2>2
    <2>4. ASSUME NEW d \in Enough(p, n) PROVE p.tag[c].size <= p.tag[d].size
      <3>1. c \in FreeOf(p) /\ d \in FreeOf(p) /\ p.tag[c].size \in Nat /\ p.tag[d].size \in Nat
        BY <1>1, <2>3 DEF Enough
      <3>2. bin(d) \in found /\ i <= bin(d) /\ bin(d) \in Nat
        <4>1. bin(d) \in found
          BY <1>5
        <4>2. bin(d) \in Nat
          BY <1>3, <4>1 DEF Index
        <4> QED
          BY <2>1, <4>1, <4>2
      <3>3. PICK j \in Fits(p, n, bin(d)) : p.bins[bin(d)][j] = d
        BY <1>5
      <3>4. CASE bin(d) = i
        <4>1. j <= k /\ j \in 1 .. Len(p.bins[i]) /\ p.bins[i][j] = d /\ k \in 1 .. Len(p.bins[i])
          BY <1>4, <2>1, <2>2, <2>3, <3>3, <3>4
        <4>2. CASE j = k
          BY <3>1, <4>1, <4>2
        <4>3. CASE j < k
          <5>1. InBin(p, FreeOf(p), i, p.bins[i])
            BY <1>2, <2>2
          <5> QED
            BY <4>1, <4>3, <5>1, <3>1 DEF InBin
        <4>4. j = k \/ j < k
          BY <4>1
        <4> QED
          BY <4>2, <4>3, <4>4
      <3>5. CASE bin(d) # i
        <4>1. i < bin(d)
          <5> HIDE DEF bin
          <5> QED
            BY <2>2, <3>2, <3>5
        <4>2. p.tag[d].size <= p.tag[c].size => bin(d) <= bin(c)
          BY <3>1, BinMonotone
        <4>3. ~(p.tag[d].size <= p.tag[c].size)
          <5> HIDE DEF bin, c
          <5> QED
            BY <2>2, <2>3, <3>2, <4>1, <4>2
        <4> QED
          BY <3>1, <4>3
      <3> QED
        BY <3>4, <3>5
    <2> QED
      BY <2>1, <2>3, <2>4
  <1> QED
    BY <1>6, <1>7, FirstFitIs

LEMMA TakeGives ==
  ASSUME NEW p, Sound(p), Grown(p), NoShortTails, NEW n \in Sizes
  PROVE  Taken(p, Take(p, n), n)
  <1>1. n \in Nat /\ n > 0
    BY SizesAssumption DEF MinSize
  <1>2. Binned(p, FreeOf(p))
    BY DEF Sound
  <1>3. CASE Enough(p, n) = {} /\ FirstFit(p, n) = {}
    BY <1>3, TakeNewGives DEF Take
  <1>4. ASSUME NEW c \in Enough(p, n), FirstFit(p, n) = {c} PROVE Taken(p, Take(p, n), n)
    <2>1. c \in FreeOf(p) /\ p.tag[c].size >= n /\ c \in Nat
      BY <1>2 DEF Enough, Binned
    <2>2. Take(p, n) = TakeFree(p, c, n)
      BY <1>4 DEF Take
    <2>3. TakeFree(p, c, n).chunk = {c} /\ Given(p, TakeFree(p, c, n).pool, c, n)
      BY <1>1, <2>1, TakeFreeGives
    <2> QED
      BY <2>1, <2>2, <2>3 DEF Taken
  <1> QED
    BY <1>1, <1>2, <1>3, <1>4, FirstFitBest

-----------------------------------------------------------------------------
(***************************************************************************)
(* An area that is one free chunk is given back.                           *)
(***************************************************************************)
InPlace(k, a) == a \in Base(k) .. (Base(k) + Stride - 1)

LEMMA OnePlace ==
  ASSUME NEW j \in Nat, NEW k \in Nat, NEW a \in Nat, InPlace(j, a), InPlace(k, a)
  PROVE  j = k
  <1>1. Stride \in Nat /\ Base(j) \in Nat /\ Base(k) \in Nat
    BY SizesAssumption DEF Base
  <1>2. Base(j) <= a /\ a < Base(j) + Stride /\ Base(k) <= a /\ a < Base(k) + Stride
    BY <1>1 DEF InPlace
  <1>3. j < k => Base(j) + Stride <= Base(k)
    BY BasesApart
  <1>4. k < j => Base(k) + Stride <= Base(j)
    BY BasesApart
  <1> QED
    BY <1>1, <1>2, <1>3, <1>4

LEMMA AreaInPlace ==
  ASSUME NEW p, Layout(p), NEW k \in DOMAIN p.areas, NEW a \in Nat, Base(k) <= a, a <= End(p, k)
  PROVE  InPlace(k, a)
  BY AreaFacts DEF InPlace, Layout

LEMMA IsAreaIs ==
  ASSUME NEW p, Layout(p), NEW c \in DOMAIN p.tag, p.tag[c].size > 0, IsArea(p, c)
  PROVE  \E k \in DOMAIN p.areas : Base(k) = c /\ End(p, k) = c + p.tag[c].size
  <1> DEFINE e == c + p.tag[c].size
  <1>1. c \in Nat /\ e \in Nat /\ c < e /\ e \in DOMAIN p.tag /\ SpanOf(p, c, e)
    BY ChunkFacts
  <1>2. p.prevTag[c].size = 0 /\ p.tag[e].size = 0
    BY EndMarkIs DEF IsArea
  <1> HIDE DEF e
  <1>3. PICK k \in DOMAIN p.areas : Base(k) <= c /\ e <= End(p, k)
    BY <1>1 DEF SpanOf
  <1>4. PICK i \in DOMAIN p.areas : Base(i) <= c /\ c <= End(p, i) /\ c = Base(i)
    BY <1>2 DEF Layout, InAreas
  <1>5. PICK j \in DOMAIN p.areas : Base(j) <= e /\ e <= End(p, j) /\ e = End(p, j)
    BY <1>1, <1>2 DEF Layout, InAreas
  <1>6. /\ k \in Nat /\ Base(k) \in Nat /\ End(p, k) \in Nat
        /\ i \in Nat /\ j \in Nat
    BY AreaFacts DEF Layout
  <1>7. Base(k) <= e /\ c <= End(p, k)
    BY <1>1, <1>3, <1>6
  <1>8. InPlace(k, c) /\ InPlace(k, e) /\ InPlace(i, c) /\ InPlace(j, e)
    BY <1>1, <1>3, <1>4, <1>5, <1>7, AreaInPlace
  <1>9. i = k /\ j = k
    BY <1>1, <1>6, <1>8, OnePlace
  <1> QED
    BY <1>4, <1>5, <1>9 DEF e

AreaRemoved(p, q, k) ==
  /\ Record(q)
  /\ DOMAIN q.tag = DOMAIN p.tag \ (Base(k) .. End(p, k)) /\ DOMAIN q.prevTag = DOMAIN q.tag
  /\ \A a \in DOMAIN q.tag : q.tag[a] = p.tag[a] /\ q.prevTag[a] = p.prevTag[a]
  /\ DOMAIN q.areas = DOMAIN p.areas \ {k}
  /\ \A j \in DOMAIN q.areas : q.areas[j] = p.areas[j]
  /\ q.areaMore = p.areaMore /\ q.bins = p.bins /\ q.marked = p.marked

LEMMA FreeAreaIs ==
  ASSUME NEW p, Record(p), Layout(p), NEW k \in DOMAIN p.areas
  PROVE  AreaRemoved(p, FreeArea(p, Base(k)), k)
  <1> DEFINE c == Base(k)
             h == CHOOSE j \in DOMAIN p.areas : Base(j) = c
             outside == DOMAIN p.tag \ (c .. c + p.areas[h])
             T == Restrict(p.tag, outside)
             P == Restrict(p.prevTag, outside)
             A == Restrict(p.areas, DOMAIN p.areas \ {h})
             q == FreeArea(p, c)
  <1>1. h = k
    <2>1. h \in DOMAIN p.areas /\ Base(h) = c
      OBVIOUS
    <2> HIDE DEF h
    <2>2. /\ h \in Nat /\ k \in Nat /\ Base(k) \in Nat /\ Base(k) <= Base(k) /\ Base(k) <= End(p, k)
          /\ Base(h) <= End(p, h)
      <3>1. AreasFit(p)
        BY DEF Layout
      <3>2. /\ k \in Nat /\ Base(k) \in Nat /\ End(p, k) \in Nat /\ Base(k) + MinSize <= End(p, k) /\ MinSize = 2
            /\ h \in Nat /\ Base(h) \in Nat /\ End(p, h) \in Nat /\ Base(h) + MinSize <= End(p, h)
        BY <2>1, <3>1, AreaFacts
      <3> QED
        BY <3>2
    <2>3. InPlace(k, c) /\ InPlace(h, c)
      BY <2>1, <2>2, AreaInPlace
    <2> QED
      BY <2>2, <2>3, OnePlace
  <1>2. q = [p EXCEPT !.tag = T, !.prevTag = P, !.areas = A]
    BY DEF FreeArea
  <1> HIDE DEF h
  <1>3. c + p.areas[h] = End(p, k)
    BY <1>1 DEF End
  <1>4. /\ DOMAIN T = outside /\ DOMAIN P = outside
        /\ \A a \in outside : T[a] = p.tag[a] /\ P[a] = p.prevTag[a]
    BY DEF Restrict
  <1>5. DOMAIN A = DOMAIN p.areas \ {k} /\ \A j \in DOMAIN A : A[j] = p.areas[j]
    BY <1>1 DEF Restrict
  <1>6. Record(q) /\ q.tag = T /\ q.prevTag = P /\ q.areas = A
        /\ q.areaMore = p.areaMore /\ q.bins = p.bins /\ q.marked = p.marked
    <2> DEFINE o == [p EXCEPT !.tag = T, !.prevTag = P]
    <2>1. o = [p EXCEPT !.tag = T, !.prevTag = P] /\ q = [o EXCEPT !.areas = A]
      BY <1>2
    <2> HIDE DEF T, P, A, o, q
    <2>2. /\ Record(o) /\ o.tag = T /\ o.prevTag = P
          /\ o.areaMore = p.areaMore /\ o.bins = p.bins /\ o.marked = p.marked
      BY <2>1 DEF Record
    <2> QED
      BY <2>1, <2>2 DEF Record
  <1> HIDE DEF T, P, A, q
  <1>7. outside = DOMAIN p.tag \ (Base(k) .. End(p, k))
    BY <1>3
  <1> HIDE DEF outside
  <1> QED
    BY <1>4, <1>5, <1>6, <1>7 DEF AreaRemoved, q

LEMMA RemovedLayout ==
  ASSUME NEW p, Layout(p), NEW k \in DOMAIN p.areas, NEW q, AreaRemoved(p, q, k)
  PROVE  Layout(q)
  <1>1. /\ DOMAIN q.tag = DOMAIN p.tag \ (Base(k) .. End(p, k)) /\ DOMAIN q.prevTag = DOMAIN q.tag
        /\ \A a \in DOMAIN q.tag : q.tag[a] = p.tag[a] /\ q.prevTag[a] = p.prevTag[a]
        /\ DOMAIN q.areas = DOMAIN p.areas \ {k}
        /\ \A j \in DOMAIN q.areas : q.areas[j] = p.areas[j]
    BY DEF AreaRemoved
  <1>2. /\ DOMAIN p.tag \subseteq Nat /\ AreasFit(p)
        /\ \A j \in DOMAIN p.areas : j \in Nat /\ Base(j) \in Nat /\ End(p, j) \in Nat
    BY AreaFacts DEF Layout, TagsFit
  <1>3. \A j \in DOMAIN q.areas : End(q, j) = End(p, j)
    BY <1>1 DEF End
  \* An area keeps its headers, or loses them all.
  <1>4. ASSUME NEW j \in DOMAIN p.areas, NEW a \in DOMAIN p.tag, Base(j) <= a, a <= End(p, j)
        PROVE  a \in DOMAIN q.tag <=> j # k
    <2>1. a \in Nat
      BY <1>2
    <2>2. CASE j = k
      BY <1>1, <1>2, <1>4, <2>1, <2>2
    <2>3. CASE j # k
      <3>1. ~(Base(k) <= a /\ a <= End(p, k))
        BY <1>2, <1>4, <2>1, <2>3, OneArea
      <3> QED
        BY <1>1, <1>2, <2>1, <2>3, <3>1
    <2> QED
      BY <2>2, <2>3
  <1>5. AreasFit(q)
    BY <1>1 DEF Layout, AreasFit
  <1>6. TagsFit(q)
    BY <1>1 DEF Layout, TagsFit
  <1>7. MarksSet(q)
    <2> SUFFICES ASSUME NEW j \in DOMAIN q.areas
                 PROVE  /\ Base(j) \in DOMAIN q.tag /\ q.prevTag[Base(j)] = EndMark
                        /\ End(q, j) \in DOMAIN q.tag /\ q.tag[End(q, j)] = EndMark
      BY DEF MarksSet
    <2>1. j \in DOMAIN p.areas /\ j # k /\ End(q, j) = End(p, j)
      BY <1>1, <1>3
    <2>2. /\ Base(j) \in DOMAIN p.tag /\ p.prevTag[Base(j)] = EndMark
          /\ End(p, j) \in DOMAIN p.tag /\ p.tag[End(p, j)] = EndMark
      BY <2>1 DEF Layout, MarksSet
    <2>3. Base(j) <= Base(j) /\ Base(j) <= End(p, j) /\ End(p, j) <= End(p, j)
      <3>1. Base(j) \in Nat /\ End(p, j) \in Nat /\ Base(j) + MinSize <= End(p, j) /\ MinSize = 2
        BY <1>2, <2>1, AreaFacts
      <3> QED
        BY <3>1
    <2>4. Base(j) \in DOMAIN q.tag /\ End(p, j) \in DOMAIN q.tag
      BY <1>4, <2>1, <2>2, <2>3
    <2> QED
      BY <1>1, <2>1, <2>2, <2>4
  <1>8. InAreas(q)
    <2> SUFFICES ASSUME NEW a \in DOMAIN q.tag
                 PROVE  \E j \in DOMAIN q.areas : /\ Base(j) <= a /\ a <= End(q, j)
                                                  /\ q.tag[a].size = 0 => a = End(q, j)
                                                  /\ q.prevTag[a].size = 0 => a = Base(j)
      BY DEF InAreas
    <2>1. a \in DOMAIN p.tag
      BY <1>1
    <2>2. PICK j \in DOMAIN p.areas : /\ Base(j) <= a /\ a <= End(p, j)
                                      /\ p.tag[a].size = 0 => a = End(p, j)
                                      /\ p.prevTag[a].size = 0 => a = Base(j)
      BY <2>1 DEF Layout, InAreas
    <2>3. j \in DOMAIN q.areas
      BY <1>1, <1>4, <2>1, <2>2
    <2> QED
      BY <1>1, <1>3, <2>2, <2>3
  <1>9. Forward(q)
    <2> SUFFICES ASSUME NEW c \in DOMAIN q.tag, q.tag[c].size > 0
                 PROVE  /\ c + q.tag[c].size \in DOMAIN q.tag
                        /\ q.prevTag[c + q.tag[c].size] = q.tag[c]
                        /\ \A d \in DOMAIN q.tag : d <= c \/ d >= c + q.tag[c].size
      BY DEF Forward
    <2> DEFINE e == c + p.tag[c].size
    <2>1. c \in DOMAIN p.tag /\ q.tag[c] = p.tag[c]
      BY <1>1
    <2>2. /\ c \in Nat /\ e \in Nat /\ c < e /\ e \in DOMAIN p.tag /\ SpanOf(p, c, e)
          /\ p.prevTag[e] = p.tag[c]
          /\ \A a \in DOMAIN p.tag : a <= c \/ a >= e
      BY <2>1, ChunkFacts
    <2> HIDE DEF e
    <2>3. PICK j \in DOMAIN p.areas : Base(j) <= c /\ e <= End(p, j)
      BY <2>2 DEF SpanOf
    <2>4. Base(j) <= e /\ c <= End(p, j)
      BY <1>2, <2>2, <2>3
    <2>5. e \in DOMAIN q.tag
      BY <1>4, <2>1, <2>2, <2>3, <2>4
    <2> QED
      BY <1>1, <2>1, <2>2, <2>5 DEF e
  <1>10. Backward(q)
    <2> SUFFICES ASSUME NEW x \in DOMAIN q.tag, q.prevTag[x].size > 0
                 PROVE  /\ x - q.prevTag[x].size \in DOMAIN q.tag
                        /\ q.tag[x - q.prevTag[x].size] = q.prevTag[x]
      BY DEF Backward
    <2> DEFINE c == x - p.prevTag[x].size
    <2>1. x \in DOMAIN p.tag /\ q.prevTag[x] = p.prevTag[x]
      BY <1>1
    <2>2. /\ c \in Nat /\ c \in DOMAIN p.tag /\ p.tag[c] = p.prevTag[x] /\ c + p.tag[c].size = x
          /\ p.tag[c].size > 0 /\ x \in Nat
      BY <2>1, BeforeFacts
    <2> HIDE DEF c
    <2>3. SpanOf(p, c, x) /\ c < x
      <3>1. SpanOf(p, c, c + p.tag[c].size) /\ c < c + p.tag[c].size
        BY <2>2, ChunkFacts
      <3> QED
        BY <2>2, <3>1
    <2>4. PICK j \in DOMAIN p.areas : Base(j) <= c /\ x <= End(p, j)
      BY <2>3 DEF SpanOf
    <2>5. Base(j) <= x /\ c <= End(p, j)
      BY <1>2, <2>2, <2>3, <2>4
    <2>6. c \in DOMAIN q.tag
      BY <1>4, <2>1, <2>2, <2>4, <2>5
    <2> QED
      BY <1>1, <2>1, <2>2, <2>6 DEF c
  <1> QED
    BY <1>5, <1>6, <1>7, <1>8, <1>9, <1>10 DEF Layout

LEMMA RemovedSound ==
  ASSUME NEW p, NEW k \in DOMAIN p.areas, Loose(p, Base(k)), End(p, k) = Base(k) + p.tag[Base(k)].size,
         NEW q, AreaRemoved(p, q, k)
  PROVE  /\ Sound(q) /\ UsedOf(q) = UsedOf(p)
         /\ \A u \in UsedOf(p) : q.tag[u] = p.tag[u]
  <1> DEFINE c == Base(k)
             e == End(p, k)
             F == FreeOf(p) \ {c}
  <1>1. Record(p) /\ Layout(p) /\ Coalesced(p) /\ c \in FreeOf(p) /\ Binned(p, F)
    BY DEF Loose
  <1>2. c \in DOMAIN p.tag /\ ~p.tag[c].used
    BY <1>1 DEF FreeOf, FreeIn
  <1>3. /\ c \in Nat /\ e \in Nat /\ c <= e /\ e \in DOMAIN p.tag /\ DOMAIN p.tag \subseteq Nat
        /\ \A a \in DOMAIN p.tag : a <= c \/ a >= e
    BY <1>1, <1>2, ChunkFacts DEF Layout, TagsFit
  <1>4. p.tag[e].used /\ ~(p.tag[e].size > 0)
    <2>1. p.tag[e] = EndMark
      BY <1>1 DEF Layout, MarksSet
    <2> QED
      BY <2>1, EndMarkIs
  <1>5. /\ Record(q) /\ DOMAIN q.tag = DOMAIN p.tag \ (c .. e)
        /\ \A a \in DOMAIN q.tag : q.tag[a] = p.tag[a] /\ q.prevTag[a] = p.prevTag[a]
        /\ q.bins = p.bins /\ q.marked = p.marked
    BY DEF AreaRemoved
  <1> HIDE DEF c, e
  <1>6. \A a \in DOMAIN p.tag : a \in DOMAIN q.tag <=> a # c /\ a # e
    BY <1>3, <1>5
  <1>7. FreeOf(q) = F
    BY <1>2, <1>4, <1>5, <1>6 DEF FreeOf, FreeIn
  <1>8. UsedOf(q) = UsedOf(p)
    BY <1>2, <1>4, <1>5, <1>6 DEF UsedOf, UsedIn
  <1>9. \A u \in UsedOf(p) : q.tag[u] = p.tag[u]
    BY <1>5, <1>8 DEF UsedOf, UsedIn
  <1>10. Layout(q)
    BY <1>1, RemovedLayout
  <1>11. Coalesced(q)
    <2> SUFFICES ASSUME NEW x \in FreeOf(q)
                 PROVE  q.tag[x].size >= MinSize /\ q.prevTag[x].used /\ q.tag[x + q.tag[x].size].used
      BY DEF Coalesced
    <2>1. x \in DOMAIN q.tag /\ ~q.tag[x].used
      BY DEF FreeOf, FreeIn
    <2>2. x \in FreeOf(p)
      BY <1>7
    <2>3. x + q.tag[x].size \in DOMAIN q.tag
      BY <1>10, <2>1, ChunkFacts
    <2> QED
      BY <1>1, <1>5, <2>1, <2>2, <2>3 DEF Coalesced
  <1>12. Binned(q, F)
    <2>1. \A x \in F : q.tag[x].size = p.tag[x].size
      BY <1>5, <1>7 DEF FreeOf, FreeIn
    <2> QED
      BY <1>1, <1>5, <2>1, BinnedSame
  <1>13. Sound(q)
    BY <1>5, <1>7, <1>10, <1>11, <1>12 DEF Sound
  <1> QED
    BY <1>8, <1>9, <1>13

-----------------------------------------------------------------------------
(***************************************************************************)
(* Free.  A loose chunk goes into a bin, or back to the system with its    *)
(* area: then something is in use in the area that stays.                  *)
(***************************************************************************)
InUse(p, k) == \E u \in UsedOf(p) : InPlace(k, u)

Settled(p, q, c) ==
  /\ Sound(q) /\ UsedOf(q) = UsedOf(p)
  /\ \A u \in UsedOf(p) : q.tag[u] = p.tag[u]
  /\ q.areaMore = p.areaMore /\ DOMAIN q.areas \subseteq DOMAIN p.areas
  /\ p.areaMore = 0 => q.areas = p.areas
  /\ p.areaMore # 0 => \A k \in DOMAIN q.areas : InPlace(k, c) => InUse(q, k)

\* An area in which nothing is used is one free chunk.
LEMMA UnusedArea ==
  ASSUME NEW p, Layout(p), Coalesced(p), NEW k \in DOMAIN p.areas, ~InUse(p, k),
         NEW c \in FreeOf(p), InPlace(k, c)
  PROVE  c = Base(k) /\ IsArea(p, c)
  <1> DEFINE b == Base(k)
             m == b + p.tag[b].size
  <1>1. /\ k \in Nat /\ b \in Nat /\ End(p, k) \in Nat /\ b + MinSize <= End(p, k) /\ MinSize = 2
        /\ DOMAIN p.tag \subseteq Nat
    BY AreaFacts DEF Layout, TagsFit
  <1>2. /\ b \in DOMAIN p.tag /\ p.prevTag[b] = EndMark
        /\ End(p, k) \in DOMAIN p.tag /\ p.tag[End(p, k)] = EndMark
    BY DEF Layout, MarksSet
  <1>3. \A j \in DOMAIN p.areas, a \in DOMAIN p.tag :
          InPlace(k, a) /\ Base(j) <= a /\ a <= End(p, j) => j = k
    <2> SUFFICES ASSUME NEW j \in DOMAIN p.areas, NEW a \in DOMAIN p.tag,
                        InPlace(k, a), Base(j) <= a, a <= End(p, j)
                 PROVE  j = k
      OBVIOUS
    <2>1. a \in Nat /\ j \in Nat
      BY <1>1, AreaFacts DEF Layout
    <2>2. InPlace(j, a)
      BY <2>1, AreaInPlace
    <2> QED
      BY <1>1, <2>1, <2>2, OnePlace
  <1>4. \A a \in DOMAIN p.tag :
          InPlace(k, a) =>
            /\ b <= a /\ a <= End(p, k)
            /\ p.tag[a].size = 0 => a = End(p, k)
    <2> SUFFICES ASSUME NEW a \in DOMAIN p.tag, InPlace(k, a)
                 PROVE  /\ b <= a /\ a <= End(p, k)
                        /\ p.tag[a].size = 0 => a = End(p, k)
      OBVIOUS
    <2>1. PICK j \in DOMAIN p.areas : /\ Base(j) <= a /\ a <= End(p, j)
                                      /\ p.tag[a].size = 0 => a = End(p, j)
      BY DEF Layout, InAreas
    <2>2. j = k
      BY <1>3, <2>1
    <2> QED
      BY <2>1, <2>2
  <1>5. InPlace(k, b) /\ InPlace(k, End(p, k))
    <2>1. b <= b /\ b <= End(p, k) /\ End(p, k) <= End(p, k)
      BY <1>1
    <2> HIDE DEF b
    <2> QED
      BY <1>1, <2>1, AreaInPlace DEF b
  <1>6. \A a \in DOMAIN p.tag : InPlace(k, a) => ~p.tag[a].used \/ a = End(p, k)
    <2> SUFFICES ASSUME NEW a \in DOMAIN p.tag, InPlace(k, a), p.tag[a].used
                 PROVE  a = End(p, k)
      OBVIOUS
    <2>1. p.tag[a].size \in Nat
      BY TagFields DEF Layout, TagsFit
    <2>2. ~(p.tag[a].size > 0)
      BY DEF InUse, UsedOf, UsedIn
    <2>3. p.tag[a].size = 0
      BY <2>1, <2>2
    <2> QED
      BY <1>4, <2>3
  <1>7. ~p.tag[b].used /\ b # End(p, k)
    <2>1. b # End(p, k)
      BY <1>1
    <2> QED
      BY <1>2, <1>5, <1>6, <2>1
  <1>8. /\ m \in Nat /\ b < m /\ m \in DOMAIN p.tag /\ SpanOf(p, b, m)
        /\ \A a \in DOMAIN p.tag : a <= b \/ a >= m
    BY <1>2, <1>7, ChunkFacts
  <1>9. p.tag[m].used
    BY <1>2, <1>7 DEF Coalesced, FreeOf, FreeIn
  <1> HIDE DEF m
  <1>10. InPlace(k, m)
    <2>1. PICK j \in DOMAIN p.areas : Base(j) <= b /\ m <= End(p, j)
      BY <1>8 DEF SpanOf
    <2>2. Base(j) \in Nat /\ End(p, j) \in Nat
      BY AreaFacts DEF Layout
    <2>3. b <= End(p, j) /\ b <= m
      BY <1>1, <1>8, <2>1, <2>2
    <2>4. j = k
      BY <1>2, <1>3, <1>5, <2>1, <2>3
    <2> HIDE DEF b
    <2> QED
      BY <1>8, <2>1, <2>3, <2>4, AreaInPlace DEF b
  <1>11. m = End(p, k)
    BY <1>6, <1>8, <1>9, <1>10
  <1>12. c \in DOMAIN p.tag /\ ~p.tag[c].used
    BY DEF FreeOf, FreeIn
  <1>13. c # End(p, k)
    BY <1>2, <1>12, EndMarkIs
  <1>14. c = b
    <2>1. c \in Nat /\ b <= c /\ c <= End(p, k)
      BY <1>1, <1>4, <1>12
    <2>2. c <= b \/ c >= End(p, k)
      BY <1>8, <1>11, <1>12
    <2> HIDE DEF b
    <2> QED
      BY <1>1, <1>13, <2>1, <2>2
  <1>15. IsArea(p, c)
    BY <1>2, <1>11, <1>14 DEF IsArea, m
  <1> QED
    BY <1>14, <1>15

LEMMA Settles ==
  ASSUME NEW p, NEW c, Loose(p, c)
  PROVE  Settled(p, IF p.areaMore # 0 /\ IsArea(p, c) THEN FreeArea(p, c) ELSE LinkFree(p, c), c)
  <1>1. Record(p) /\ Layout(p) /\ Coalesced(p) /\ c \in FreeOf(p)
    BY DEF Loose
  <1>2. c \in DOMAIN p.tag /\ ~p.tag[c].used
    BY <1>1 DEF FreeOf, FreeIn
  <1>3. c \in Nat /\ p.tag[c].size > 0
    BY <1>1, <1>2, ChunkFacts
  <1>4. CASE p.areaMore # 0 /\ IsArea(p, c)
    <2> DEFINE q == FreeArea(p, c)
    <2>1. PICK k \in DOMAIN p.areas : Base(k) = c /\ End(p, k) = c + p.tag[c].size
      BY <1>1, <1>2, <1>3, <1>4, IsAreaIs
    <2>2. AreaRemoved(p, q, k)
      BY <1>1, <2>1, FreeAreaIs
    <2> HIDE DEF q
    <2>3. Sound(q) /\ UsedOf(q) = UsedOf(p) /\ \A u \in UsedOf(p) : q.tag[u] = p.tag[u]
      BY <2>1, <2>2, RemovedSound
    <2>4. q.areaMore = p.areaMore /\ DOMAIN q.areas = DOMAIN p.areas \ {k}
      BY <2>2 DEF AreaRemoved
    <2>5. \A j \in DOMAIN q.areas : ~InPlace(j, c)
      <3> SUFFICES ASSUME NEW j \in DOMAIN q.areas, InPlace(j, c) PROVE FALSE
        OBVIOUS
      <3>1. j \in DOMAIN p.areas /\ j # k
        BY <2>4
      <3>2. j \in Nat /\ k \in Nat
        BY <1>1, <3>1, AreaFacts DEF Layout
      <3>3. InPlace(k, c)
        <4>1. c <= c /\ c <= End(p, k)
          BY <1>1, <1>2, <1>3, <2>1, ChunkFacts
        <4> QED
          BY <1>1, <1>3, <2>1, <4>1, AreaInPlace
      <3> QED
        BY <1>3, <3>1, <3>2, <3>3, OnePlace
    <2>6. Settled(p, q, c)
      BY <1>4, <2>3, <2>4, <2>5 DEF Settled
    <2> QED
      BY <1>4, <2>6 DEF q
  <1>5. CASE ~(p.areaMore # 0 /\ IsArea(p, c))
    <2> DEFINE q == LinkFree(p, c)
    <2>1. Sound(q) /\ SameTags(p, q)
      BY Linked
    <2> HIDE DEF q
    <2>2. UsedOf(q) = UsedOf(p)
      BY <2>1, SameTagsKeep
    <2>3. p.areaMore # 0 => \A k \in DOMAIN q.areas : InPlace(k, c) => InUse(q, k)
      <3> SUFFICES ASSUME p.areaMore # 0, NEW k \in DOMAIN q.areas, InPlace(k, c), ~InUse(q, k) PROVE FALSE
        OBVIOUS
      <3>1. k \in DOMAIN p.areas /\ ~InUse(p, k)
        BY <2>1, <2>2 DEF SameTags, InUse
      <3> QED
        BY <1>1, <1>5, <3>1, UnusedArea
    <2>4. Settled(p, q, c)
      BY <2>1, <2>2, <2>3 DEF Settled, SameTags
    <2> QED
      BY <1>5, <2>4 DEF q
  <1> QED
    BY <1>4, <1>5

\* q is p without the used chunk c.
Returned(p, q, c) ==
  /\ Sound(q) /\ UsedOf(q) = UsedOf(p) \ {c}
  /\ \A u \in UsedOf(q) : q.tag[u] = p.tag[u]
  /\ q.areaMore = p.areaMore /\ DOMAIN q.areas \subseteq DOMAIN p.areas
  /\ p.areaMore = 0 => q.areas = p.areas
  /\ p.areaMore # 0 => \A k \in DOMAIN q.areas : InPlace(k, c) => InUse(q, k)

LEMMA Releases ==
  ASSUME NEW p, Sound(p), NEW c \in UsedOf(p), p.tag[c].size >= MinSize
  PROVE  Returned(p, Release(p, c), c)
  <1> DEFINE no == FALSE
             n == p.tag[c].size
             m == c + n
             before == ~p.prevTag[c].used
             after == ~p.tag[m].used
             first == IF before THEN c - p.prevTag[c].size ELSE c
             end == IF after THEN m + p.tag[m].size ELSE m
             p1 == IF before THEN UnlinkFree(p, first) ELSE p
             p2 == IF after THEN UnlinkFree(p1, m) ELSE p1
             p3 == SetSize(p2, first, end - first, no)
             q == IF p.areaMore # 0 /\ IsArea(p3, first) THEN FreeArea(p3, first) ELSE LinkFree(p3, first)
             F == FreeOf(p)
  <1>1. Release(p, c) = q
    BY DEF Release
  <1>2. Record(p) /\ Layout(p) /\ Coalesced(p) /\ Binned(p, F)
    BY DEF Sound
  <1>3. c \in DOMAIN p.tag /\ p.tag[c].used /\ p.tag[c].size > 0
    BY DEF UsedOf, UsedIn
  <1>4. /\ c \in Nat /\ n \in Nat /\ n >= 2 /\ m \in Nat /\ c < m
        /\ m \in DOMAIN p.tag /\ p.prevTag[m] = p.tag[c] /\ SpanOf(p, c, m)
        /\ DOMAIN p.tag \subseteq Nat
    BY <1>2, <1>3, ChunkFacts DEF Layout, TagsFit, MinSize
  <1>5. \A a \in DOMAIN p.tag : a = c \/ a < c \/ a >= m
    BY <1>2, <1>3, ChunkAlone
  <1> HIDE DEF no, F, n
  <1>6. /\ first \in Nat /\ first <= c /\ first \in DOMAIN p.tag
        /\ first = c \/ (first \in F /\ SpanOf(p, first, c))
        /\ p.prevTag[first].used
        /\ \A a \in DOMAIN p.tag : a = first \/ a < first \/ a >= c
        /\ before <=> first # c
    <2>1. CASE before
      <3> DEFINE b == c - p.prevTag[c].size
      <3>1. /\ b \in Nat /\ b \in DOMAIN p.tag /\ p.tag[b] = p.prevTag[c] /\ b + p.tag[b].size = c
            /\ p.tag[b].size > 0 /\ p.tag[b].size \in Nat /\ ~p.tag[b].used
        BY <1>2, <1>3, <2>1, BeforeFacts
      <3> HIDE DEF b
      <3>2. b < c
        BY <1>4, <3>1
      <3>3. /\ SpanOf(p, b, b + p.tag[b].size)
            /\ \A a \in DOMAIN p.tag : a = b \/ a < b \/ a >= b + p.tag[b].size
        BY <1>2, <3>1, ChunkFacts, ChunkAlone
      <3>4. b \in F /\ p.prevTag[b].used
        BY <1>2, <3>1 DEF F, FreeOf, FreeIn, Coalesced
      <3>5. first = b
        BY <2>1 DEF b
      <3> HIDE DEF first
      <3> QED
        BY <1>4, <2>1, <3>1, <3>2, <3>3, <3>4, <3>5
    <2>2. CASE ~before
      <3>1. first = c
        BY <2>2
      <3> HIDE DEF first
      <3> QED
        BY <1>3, <1>4, <2>2, <3>1
    <2> QED
      BY <2>1, <2>2
  <1>7. /\ end \in Nat /\ m <= end /\ end \in DOMAIN p.tag
        /\ end = m \/ (m \in F /\ SpanOf(p, m, end))
        /\ p.tag[end].used
        /\ \A a \in DOMAIN p.tag : a = m \/ a < m \/ a >= end
        /\ after <=> end # m
        /\ after <=> m \in F
    <2> HIDE DEF m
    <2>1. CASE after
      <3> DEFINE e == m + p.tag[m].size
      <3>1. /\ e \in Nat /\ m < e /\ e \in DOMAIN p.tag /\ SpanOf(p, m, e)
            /\ \A a \in DOMAIN p.tag : a = m \/ a < m \/ a >= e
        BY <1>2, <1>4, <2>1, ChunkFacts, ChunkAlone
      <3>2. m \in F /\ p.tag[e].used
        BY <1>2, <1>4, <2>1 DEF F, FreeOf, FreeIn, Coalesced
      <3>3. end = e
        BY <2>1
      <3> HIDE DEF end, e
      <3> QED
        BY <1>4, <2>1, <3>1, <3>2, <3>3
    <2>2. CASE ~after
      <3>1. end = m /\ m \notin F
        BY <2>2 DEF F, FreeOf, FreeIn
      <3> HIDE DEF end
      <3>2. p.tag[m].used /\ m <= m /\ \A a \in DOMAIN p.tag : a = m \/ a < m \/ a >= m
        BY <1>4, <2>2
      <3> QED
        BY <1>4, <2>2, <3>1, <3>2
    <2> QED
      BY <2>1, <2>2
  <1> HIDE DEF first, end, m
  <1>8. c \notin F
    BY <1>3 DEF F, FreeOf, FreeIn
  <1>9. Record(p1) /\ SameTags(p, p1) /\ Binned(p1, F \ {first})
    <2>1. CASE before
      <3>1. Record(UnlinkFree(p, first)) /\ SameTags(p, UnlinkFree(p, first)) /\ Binned(UnlinkFree(p, first), F \ {first})
        BY <1>2, <1>6, <2>1, UnlinkFreeBins
      <3> QED
        BY <2>1, <3>1
    <2>2. CASE ~before
      <3>1. F \ {first} = F
        BY <1>6, <1>8, <2>2
      <3> QED
        BY <1>2, <2>2, <3>1 DEF SameTags
    <2> QED
      BY <2>1, <2>2
  <1> HIDE DEF p1
  <1>10. Record(p2) /\ SameTags(p, p2) /\ Binned(p2, F \ {first, m})
    <2>1. F \ {first, m} = (F \ {first}) \ {m} /\ m # first
      BY <1>4, <1>6
    <2>2. CASE after
      <3>1. m \in F \ {first}
        BY <1>7, <2>1, <2>2
      <3>2. /\ Record(UnlinkFree(p1, m)) /\ SameTags(p1, UnlinkFree(p1, m))
            /\ Binned(UnlinkFree(p1, m), (F \ {first}) \ {m})
        BY <1>9, <3>1, UnlinkFreeBins
      <3> QED
        BY <1>9, <2>1, <2>2, <3>2 DEF SameTags
    <2>3. CASE ~after
      <3>1. (F \ {first}) \ {m} = F \ {first}
        BY <1>7, <2>3
      <3> QED
        BY <1>9, <2>1, <2>3, <3>1
    <2> QED
      BY <2>2, <2>3
  <1> HIDE DEF p2, before, after
  <1>11. /\ Layout(p2) /\ Coalesced(p2) /\ FreeOf(p2) = F /\ UsedOf(p2) = UsedOf(p)
         /\ SpanOf(p2, first, end)
    <2>1. SpanOf(p, first, m)
      BY <1>2, <1>4, <1>6, SpanJoined
    <2>2. SpanOf(p, first, end)
      BY <1>2, <1>7, <2>1, SpanJoined
    <2> QED
      BY <1>2, <1>10, <2>2, SameTagsKeep DEF F
  <1>12. end - first \in Nat /\ end - first >= MinSize /\ first < end
    <2>1. m = c + n
      BY DEF m
    <2> QED
      BY <1>4, <1>6, <1>7, <2>1 DEF MinSize
  <1>13. ~Tag(end - first, no).used /\ Tag(end - first, no).size = end - first /\ no \in BOOLEAN
    BY DEF Tag, no
  <1>14. InOne(p2, p3, first, end, Tag(end - first, no))
    BY <1>10, <1>11, <1>13, Merge
  <1> HIDE DEF p3
  <1>15. /\ Record(p3) /\ SameBins(p2, p3) /\ Layout(p3) /\ Outside(p2, p3, first, end, {})
         /\ p3.tag[first] = Tag(end - first, no) /\ p3.prevTag[end] = Tag(end - first, no)
    BY <1>14 DEF InOne
  <1>16. Inside({}, first, end)
    BY DEF Inside
  <1>17. Redivided(p2, p3, first, end, {})
    BY <1>11, <1>15, <1>16, Views
  <1>18. FreeIn(p3, {} \union {first}) = {first} /\ UsedIn(p3, {} \union {first}) = {}
    BY <1>13, <1>15 DEF FreeIn, UsedIn
  <1>19. \A a \in DOMAIN p.tag : a < first \/ a = first \/ a = c \/ a = m \/ a >= end
    BY <1>4, <1>5, <1>6, <1>7
  <1>20. OutsideOf(F, first, end) = F \ {first, m}
    <2>1. \A x \in F : x \in DOMAIN p.tag /\ x # c
      BY <1>8 DEF F, FreeOf, FreeIn
    <2>2. \A x \in F : x < first \/ x >= end <=> x \notin {first, m}
      <3> TAKE x \in F
      <3>1. CASE x = first
        BY <1>6, <1>7, <1>12, <3>1
      <3>2. CASE x = m
        BY <1>4, <1>6, <1>7, <3>2
      <3>3. CASE x # first /\ x # m
        BY <1>19, <2>1, <3>3
      <3> QED
        BY <3>1, <3>2, <3>3
    <2> QED
      BY <2>2 DEF OutsideOf
  <1>21. OutsideOf(UsedOf(p), first, end) = UsedOf(p) \ {c}
    <2>1. \A x \in UsedOf(p) : x \in DOMAIN p.tag /\ x \notin F
      BY DEF F, FreeOf, FreeIn, UsedOf, UsedIn
    <2>2. \A x \in UsedOf(p) : x < first \/ x >= end <=> x # c
      <3> TAKE x \in UsedOf(p)
      <3>1. CASE x = c
        BY <1>4, <1>6, <1>7, <3>1
      <3>2. CASE x # c
        <4>1. x # first
          BY <1>6, <2>1, <3>2
        <4>2. x = m => x >= end
          BY <1>7, <2>1
        <4> QED
          BY <1>19, <2>1, <3>2, <4>1, <4>2
      <3> QED
        BY <3>1, <3>2
    <2> QED
      BY <2>2 DEF OutsideOf
  <1>22. FreeOf(p3) = (F \ {first, m}) \union {first} /\ UsedOf(p3) = UsedOf(p) \ {c}
    BY <1>11, <1>17, <1>18, <1>20, <1>21 DEF Redivided
  <1>23. \A x \in DOMAIN p.tag : x < first \/ x >= end => p3.tag[x] = p.tag[x]
    BY <1>10, <1>17 DEF Redivided, SameTags
  <1>24. Coalesced(p3)
    <2>1. p2.prevTag[first].used \/ p3.tag[first].used
      BY <1>6, <1>10 DEF SameTags
    <2>2. p2.tag[end].used \/ p3.prevTag[end].used
      BY <1>7, <1>10 DEF SameTags
    <2>3. p3.prevTag[first].used /\ p3.tag[end].used
      <3>1. first \in DOMAIN p2.tag /\ end \in DOMAIN p2.tag /\ first <= first /\ end >= end
        BY <1>6, <1>7, <1>10 DEF SameTags
      <3>2. p3.prevTag[first] = p2.prevTag[first] /\ p3.tag[end] = p2.tag[end]
        BY <1>15, <3>1 DEF Outside
      <3> QED
        BY <1>6, <1>7, <1>10, <3>2 DEF SameTags
    <2>4. p3.tag[first].size >= MinSize /\ first + p3.tag[first].size = end
      BY <1>6, <1>7, <1>12, <1>13, <1>15
    <2>5. \A x \in {} \union {first} :
            ~p3.tag[x].used => p3.tag[x].size >= MinSize /\ p3.prevTag[x].used /\ p3.tag[x + p3.tag[x].size].used
      BY <2>3, <2>4
    <2> QED
      BY <1>11, <1>15, <1>16, <2>1, <2>2, <2>5, KeptCoalesced
  <1>25. Loose(p3, first)
    <2>1. FreeOf(p3) \ {first} = F \ {first, m} /\ first \in FreeOf(p3)
      BY <1>22
    <2>2. Binned(p3, F \ {first, m})
      <3>1. \A x \in F \ {first, m} : p3.tag[x].size = p2.tag[x].size
        <4>1. \A x \in F \ {first, m} : x \in DOMAIN p.tag /\ (x < first \/ x >= end)
          BY <1>20 DEF OutsideOf, F, FreeOf, FreeIn
        <4> QED
          BY <1>10, <1>23, <4>1 DEF SameTags
      <3>2. p3.bins = p2.bins /\ p3.marked = p2.marked
        BY <1>15 DEF SameBins
      <3> QED
        BY <1>10, <3>1, <3>2, BinnedSame
    <2> QED
      BY <1>15, <1>24, <2>1, <2>2 DEF Loose
  <1>26. p3.areaMore = p.areaMore /\ p3.areas = p.areas
    BY <1>10, <1>15 DEF SameBins, SameTags
  <1>27. Settled(p3, q, first)
    <2>1. Settled(p3, IF p3.areaMore # 0 /\ IsArea(p3, first) THEN FreeArea(p3, first) ELSE LinkFree(p3, first), first)
      BY <1>25, Settles
    <2> QED
      BY <1>26, <2>1
  <1> HIDE DEF q
  <1>28. \A u \in UsedOf(q) : q.tag[u] = p.tag[u]
    <2>1. \A u \in UsedOf(p) \ {c} : p3.tag[u] = p.tag[u]
      BY <1>21, <1>23 DEF OutsideOf, UsedOf, UsedIn
    <2> QED
      BY <1>22, <1>27, <2>1 DEF Settled
  <1>29. \A k \in DOMAIN p.areas : InPlace(k, c) => InPlace(k, first)
    <2> SUFFICES ASSUME NEW k \in DOMAIN p.areas, InPlace(k, c) PROVE InPlace(k, first)
      OBVIOUS
    <2>1. SpanOf(p, first, end)
      BY <1>10, <1>11, SameTagsKeep DEF SameTags, SpanOf, End
    <2>2. PICK j \in DOMAIN p.areas : Base(j) <= first /\ end <= End(p, j)
      BY <2>1 DEF SpanOf
    <2>3. j \in Nat /\ Base(j) \in Nat /\ End(p, j) \in Nat /\ k \in Nat
      BY <1>2, AreaFacts DEF Layout
    <2>4. Base(j) <= c /\ c <= End(p, j) /\ first <= End(p, j)
      BY <1>4, <1>6, <1>7, <1>12, <2>2, <2>3
    <2>5. InPlace(j, c) /\ InPlace(j, first)
      BY <1>2, <1>4, <1>6, <2>2, <2>4, AreaInPlace
    <2>6. j = k
      BY <1>4, <2>3, <2>5, OnePlace
    <2> QED
      BY <2>5, <2>6
  <1>30. Returned(p, q, c)
    BY <1>22, <1>26, <1>27, <1>28, <1>29 DEF Settled, Returned
  <1> QED
    BY <1>1, <1>30

-----------------------------------------------------------------------------
(***************************************************************************)
(* The end of Realloc: a span of which nothing is in a bin becomes one     *)
(* used chunk, or a used one and a tail that is released.                  *)
(***************************************************************************)
Spanned(p, d, e) ==
  /\ Record(p) /\ Layout(p) /\ Coalesced(p) /\ SpanOf(p, d, e)
  /\ Binned(p, OutsideOf(FreeOf(p), d, e))

Fitted(p, q, d, e, n) ==
  /\ Sound(q) /\ UsedOf(q) = OutsideOf(UsedOf(p), d, e) \union {d}
  /\ \A u \in OutsideOf(UsedOf(p), d, e) : q.tag[u] = p.tag[u]
  /\ q.tag[d].size \in {n, n + 1}
  /\ q.areaMore = p.areaMore /\ DOMAIN q.areas \subseteq DOMAIN p.areas
  /\ p.areaMore = 0 => q.areas = p.areas

LEMMA SpanNumbers ==
  ASSUME NEW p, Layout(p), NEW d, NEW e, SpanOf(p, d, e)
  PROVE  /\ d \in Nat /\ e \in Nat /\ d < e /\ d \in DOMAIN p.tag /\ e \in DOMAIN p.tag
         /\ DOMAIN p.tag \subseteq Nat /\ DOMAIN p.prevTag = DOMAIN p.tag
         /\ e - d \in Nat /\ e - d > 0 /\ d + (e - d) = e
  BY DEF Layout, TagsFit, SpanOf

\* All of the span is in use: no free chunk is touched, and none comes to touch another.
LEMMA SpanInUse ==
  ASSUME NEW p, NEW d, NEW e, Spanned(p, d, e), NEW q, NEW I, Record(q), Layout(q),
         Inside(I, d, e), Outside(p, q, d, e, I), q.bins = p.bins, q.marked = p.marked,
         \A c \in I \union {d} : q.tag[c].used /\ q.tag[c].size > 0, q.prevTag[e].used
  PROVE  /\ Sound(q) /\ UsedOf(q) = OutsideOf(UsedOf(p), d, e) \union (I \union {d})
         /\ \A u \in OutsideOf(UsedOf(p), d, e) : q.tag[u] = p.tag[u]
  <1>1. /\ Record(p) /\ Layout(p) /\ Coalesced(p) /\ SpanOf(p, d, e)
        /\ Binned(p, OutsideOf(FreeOf(p), d, e))
    BY DEF Spanned
  <1>2. Redivided(p, q, d, e, I)
    BY <1>1, Views
  <1>3. FreeIn(q, I \union {d}) = {} /\ UsedIn(q, I \union {d}) = I \union {d}
    BY DEF FreeIn, UsedIn
  <1>4. /\ FreeOf(q) = OutsideOf(FreeOf(p), d, e)
        /\ UsedOf(q) = OutsideOf(UsedOf(p), d, e) \union (I \union {d})
    BY <1>2, <1>3 DEF Redivided
  <1>5. Coalesced(q)
    <2>1. p.prevTag[d].used \/ q.tag[d].used
      OBVIOUS
    <2>2. p.tag[e].used \/ q.prevTag[e].used
      OBVIOUS
    <2>3. \A c \in I \union {d} :
            ~q.tag[c].used => q.tag[c].size >= MinSize /\ q.prevTag[c].used /\ q.tag[c + q.tag[c].size].used
      OBVIOUS
    <2> QED
      BY <1>1, <2>1, <2>2, <2>3, KeptCoalesced
  <1>6. \A x \in OutsideOf(FreeOf(p), d, e) : q.tag[x].size = p.tag[x].size
    BY <1>2 DEF Redivided, OutsideOf, FreeOf, FreeIn
  <1>7. \A u \in OutsideOf(UsedOf(p), d, e) : q.tag[u] = p.tag[u]
    BY <1>2 DEF Redivided, OutsideOf, UsedOf, UsedIn
  <1>8. Binned(q, OutsideOf(FreeOf(p), d, e))
    BY <1>1, <1>6, BinnedSame
  <1>9. Sound(q)
    BY <1>4, <1>5, <1>8 DEF Sound
  <1> QED
    BY <1>4, <1>7, <1>9

LEMMA ShrinkFits ==
  ASSUME NEW p, NEW d, NEW e, Spanned(p, d, e), NEW n \in Nat, n >= MinSize, n <= e - d
  PROVE  Fitted(p, Shrink(p, d, e - d, n), d, e, n)
  <1>1. /\ Record(p) /\ Layout(p) /\ SpanOf(p, d, e)
    BY DEF Spanned
  <1>2. /\ d \in Nat /\ e \in Nat /\ d < e /\ d \in DOMAIN p.tag /\ e \in DOMAIN p.tag
        /\ e - d \in Nat /\ e - d > 0 /\ d + (e - d) = e
    BY <1>1, SpanNumbers
  <1> DEFINE yes == TRUE
             m == d + n
             r == SetSize(p, m, e - m, yes)
             s == SetSize(r, d, m - d, yes)
             w == SetSize(p, d, e - d, yes)
  <1>3. /\ m \in Nat /\ m - d = n /\ e - m = (e - d) - n /\ m <= e /\ d < m
    BY <1>2 DEF MinSize
  <1>4. Shrink(p, d, e - d, n) = IF e - m >= MinSize THEN Release(s, m) ELSE w
    <2> DEFINE k == e - d
    <2>1. e - m = k - n
      BY <1>3
    <2>2. Shrink(p, d, k, n)
            = IF k - n >= MinSize
              THEN Release(SetSize(SetSize(p, d + n, k - n, TRUE), d, n, TRUE), d + n)
              ELSE SetSize(p, d, k, TRUE)
      <3> HIDE DEF k
      <3> QED
        BY DEF Shrink
    <2> QED
      BY <1>3, <2>1, <2>2
  <1>5. /\ Tag(e - m, yes).used /\ Tag(e - m, yes).size = e - m
        /\ Tag(m - d, yes).used /\ Tag(m - d, yes).size = m - d
        /\ Tag(e - d, yes).used /\ Tag(e - d, yes).size = e - d /\ yes \in BOOLEAN
    BY DEF Tag
  <1> HIDE DEF m, yes
  <1>6. CASE e - m >= MinSize
    <2>1. m < e /\ e - m > 0
      BY <1>2, <1>3, <1>6 DEF MinSize
    <2>2. Record(r) /\ SameBins(p, r) /\ SameTags(r, r)
      <3> DEFINE k == e - m
      <3> HIDE DEF k
      <3>1. Record(SetSize(p, m, k, yes)) /\ SameBins(p, SetSize(p, m, k, yes))
        BY <1>1, SetSizeIs
      <3> QED
        BY <3>1 DEF k, SameTags
    <2>3. InTwo(p, r, s, d, m, e, Tag(m - d, yes), Tag(e - m, yes))
      BY <1>1, <1>3, <1>5, <2>1, <2>2, Cut
    <2> HIDE DEF r, s
    <2>4. /\ Record(s) /\ SameBins(r, s) /\ Layout(s) /\ Outside(p, s, d, e, {m})
          /\ s.tag[d] = Tag(m - d, yes) /\ s.prevTag[m] = Tag(m - d, yes)
          /\ s.tag[m] = Tag(e - m, yes) /\ s.prevTag[e] = Tag(e - m, yes)
      BY <2>3 DEF InTwo
    <2>5. Inside({m}, d, e)
      BY <1>2, <1>3, <2>1 DEF Inside
    <2>6. s.bins = p.bins /\ s.marked = p.marked /\ s.areaMore = p.areaMore /\ s.areas = p.areas
      BY <2>2, <2>4 DEF SameBins
    <2>7. m - d > 0
      BY <1>2, <1>3
    <2>8. \A c \in {m} \union {d} : s.tag[c].used /\ s.tag[c].size > 0
      BY <1>5, <2>1, <2>4, <2>7
    <2>9. s.prevTag[e].used
      BY <1>5, <2>4
    <2>10. /\ Sound(s) /\ UsedOf(s) = OutsideOf(UsedOf(p), d, e) \union ({m} \union {d})
           /\ \A u \in OutsideOf(UsedOf(p), d, e) : s.tag[u] = p.tag[u]
      BY <2>4, <2>5, <2>6, <2>8, <2>9, SpanInUse
    <2>11. m \in UsedOf(s) /\ s.tag[m].size >= MinSize
      BY <1>5, <1>6, <2>4, <2>10
    <2>12. Returned(s, Release(s, m), m)
      BY <2>10, <2>11, Releases
    <2> DEFINE q == Release(s, m)
    <2> HIDE DEF q
    <2>13. m \notin OutsideOf(UsedOf(p), d, e) /\ m # d
      BY <1>2, <1>3, <2>1 DEF OutsideOf
    <2>14. UsedOf(q) = OutsideOf(UsedOf(p), d, e) \union {d}
      BY <2>10, <2>12, <2>13 DEF Returned, q
    <2>15. /\ Sound(q) /\ \A u \in UsedOf(q) : q.tag[u] = s.tag[u]
           /\ q.areaMore = s.areaMore /\ DOMAIN q.areas \subseteq DOMAIN s.areas
           /\ s.areaMore = 0 => q.areas = s.areas
      BY <2>12 DEF Returned, q
    <2>16. q.tag[d].size = n
      BY <1>3, <1>5, <2>4, <2>14, <2>15
    <2>17. Fitted(p, q, d, e, n)
      BY <2>6, <2>10, <2>14, <2>15, <2>16 DEF Fitted
    <2> QED
      BY <1>4, <1>6, <2>17 DEF q
  <1>7. CASE ~(e - m >= MinSize)
    <2>1. InOne(p, w, d, e, Tag(e - d, yes))
      BY <1>1, <1>5, Merge
    <2> HIDE DEF w
    <2>2. /\ Record(w) /\ SameBins(p, w) /\ Layout(w) /\ Outside(p, w, d, e, {})
          /\ w.tag[d] = Tag(e - d, yes) /\ w.prevTag[e] = Tag(e - d, yes)
      BY <2>1 DEF InOne
    <2>3. Inside({}, d, e)
      BY DEF Inside
    <2>4. w.bins = p.bins /\ w.marked = p.marked /\ w.areaMore = p.areaMore /\ w.areas = p.areas
      BY <2>2 DEF SameBins
    <2>5. \A c \in {} \union {d} : w.tag[c].used /\ w.tag[c].size > 0
      BY <1>2, <1>5, <2>2
    <2>6. w.prevTag[e].used
      BY <1>5, <2>2
    <2>7. /\ Sound(w) /\ UsedOf(w) = OutsideOf(UsedOf(p), d, e) \union ({} \union {d})
          /\ \A u \in OutsideOf(UsedOf(p), d, e) : w.tag[u] = p.tag[u]
      BY <2>2, <2>3, <2>4, <2>5, <2>6, SpanInUse
    <2>8. {} \union {d} = {d}
      OBVIOUS
    <2>9. w.tag[d].size \in {n, n + 1}
      <3>1. e - d = n \/ e - d = n + 1
        BY <1>2, <1>3, <1>7 DEF MinSize
      <3> QED
        BY <1>5, <2>2, <3>1
    <2>10. Fitted(p, w, d, e, n)
      BY <2>4, <2>7, <2>8, <2>9 DEF Fitted
    <2> QED
      BY <1>4, <1>7, <2>10
  <1> QED
    BY <1>6, <1>7

\* A used chunk from c to m, with the free chunks before and after it, or without.
Around(p, c, d, e) ==
  LET m == c + p.tag[c].size
  IN  /\ d = c \/ (d \in FreeOf(p) /\ d + p.tag[d].size = c)
      /\ e = m \/ (m \in FreeOf(p) /\ e = m + p.tag[m].size)

\* The free chunks that Realloc has not taken out of their bins.
FreeAround(p, c, d, e) ==
  {x \in FreeOf(p) : x # d /\ (x # c + p.tag[c].size \/ x = e)}

LEMMA AroundIs ==
  ASSUME NEW p, Sound(p), NEW c \in UsedOf(p), NEW d, NEW e, Around(p, c, d, e),
         NEW u, Record(u), SameTags(p, u), Binned(u, FreeAround(p, c, d, e))
  PROVE  /\ Spanned(u, d, e) /\ UsedOf(u) = UsedOf(p)
         /\ OutsideOf(UsedOf(u), d, e) = UsedOf(p) \ {c}
         /\ c \in Nat /\ d \in Nat /\ e \in Nat /\ d <= c /\ c < e
         /\ \A k \in DOMAIN p.areas : InPlace(k, c) => InPlace(k, d)
  <1> DEFINE m == c + p.tag[c].size
             F == FreeOf(p)
  <1>1. Record(p) /\ Layout(p) /\ Coalesced(p)
    BY DEF Sound
  <1>2. c \in DOMAIN p.tag /\ p.tag[c].used /\ p.tag[c].size > 0
    BY DEF UsedOf, UsedIn
  <1>3. /\ c \in Nat /\ m \in Nat /\ c < m /\ m \in DOMAIN p.tag /\ SpanOf(p, c, m) /\ DOMAIN p.tag \subseteq Nat
        /\ \A a \in DOMAIN p.tag : a = c \/ a < c \/ a >= m
    BY <1>1, <1>2, ChunkFacts, ChunkAlone DEF Layout, TagsFit
  <1>4. d = c \/ (d \in F /\ d + p.tag[d].size = c)
    BY DEF Around
  <1>5. e = m \/ (m \in F /\ e = m + p.tag[m].size)
    BY DEF Around
  <1>6. \A x \in F : x \in DOMAIN p.tag /\ ~p.tag[x].used /\ x \in Nat /\ x # c
    BY <1>2, <1>3 DEF F, FreeOf, FreeIn
  <1> HIDE DEF m, F
  <1>7. /\ d \in Nat /\ d <= c
        /\ d = c \/ (d \in F /\ SpanOf(p, d, c))
        /\ \A a \in DOMAIN p.tag : a = d \/ a < d \/ a >= c
    <2>1. CASE d = c
      BY <1>3, <2>1
    <2>2. CASE d \in F /\ d + p.tag[d].size = c
      <3>1. /\ d \in Nat /\ d < d + p.tag[d].size /\ SpanOf(p, d, d + p.tag[d].size)
            /\ \A a \in DOMAIN p.tag : a = d \/ a < d \/ a >= d + p.tag[d].size
        <4>1. p.tag[d].size \in Nat /\ p.tag[d].size > 0 /\ d \in Nat
          BY <1>1, <1>6, <2>2, ChunkFacts
        <4> QED
          BY <1>1, <1>6, <2>2, <4>1, ChunkFacts, ChunkAlone
      <3> QED
        BY <1>3, <2>2, <3>1
    <2> QED
      BY <1>4, <2>1, <2>2
  <1>8. /\ e \in Nat /\ m <= e
        /\ e = m \/ (m \in F /\ m < e /\ SpanOf(p, m, e))
        /\ \A a \in DOMAIN p.tag : a = m \/ a < m \/ a >= e
    <2>1. CASE e = m
      <3>1. m <= m /\ \A a \in DOMAIN p.tag : a = m \/ a < m \/ a >= m
        BY <1>3
      <3> QED
        BY <1>3, <2>1, <3>1
    <2>2. CASE m \in F /\ e = m + p.tag[m].size
      <3>1. /\ p.tag[m].size \in Nat /\ p.tag[m].size > 0 /\ SpanOf(p, m, m + p.tag[m].size)
            /\ \A a \in DOMAIN p.tag : a = m \/ a < m \/ a >= m + p.tag[m].size
        BY <1>1, <1>6, <2>2, ChunkFacts, ChunkAlone
      <3>2. m + p.tag[m].size \in Nat /\ m < m + p.tag[m].size /\ m <= m + p.tag[m].size
        BY <1>3, <3>1
      <3> QED
        BY <2>2, <3>1, <3>2
    <2> QED
      BY <1>5, <2>1, <2>2
  <1>9. SpanOf(p, d, e)
    <2>1. SpanOf(p, d, m)
      BY <1>1, <1>3, <1>7, SpanJoined
    <2> QED
      BY <1>1, <1>8, <2>1, SpanJoined
  <1>10. d < e /\ c < e /\ d < m
    BY <1>3, <1>7, <1>8
  <1>11. OutsideOf(F, d, e) = FreeAround(p, c, d, e)
    <2>1. \A x \in F : (x < d \/ x >= e) <=> (x # d /\ (x # m \/ x = e))
      <3> TAKE x \in F
      <3>1. x \in Nat /\ x \in DOMAIN p.tag /\ x # c
        BY <1>6
      <3>2. CASE x = d
        BY <1>7, <1>8, <1>10, <3>2
      <3>3. CASE x = m
        <4>1. x # d
          BY <1>3, <1>7, <1>10, <3>3
        <4> QED
          BY <1>3, <1>7, <1>8, <1>10, <3>3, <4>1
      <3>4. CASE x # d /\ x # m
        <4>1. x < d \/ x >= c
          BY <1>7, <3>1, <3>4
        <4>2. x < c \/ x >= m
          BY <1>3, <3>1
        <4>3. x < m \/ x >= e
          BY <1>8, <3>1, <3>4
        <4> QED
          BY <1>3, <1>7, <1>8, <3>1, <3>4, <4>1, <4>2, <4>3
      <3> QED
        BY <3>2, <3>3, <3>4
    <2> QED
      BY <2>1 DEF OutsideOf, FreeAround, m, F
  <1>12. OutsideOf(UsedOf(p), d, e) = UsedOf(p) \ {c}
    <2>1. \A x \in UsedOf(p) : x \in DOMAIN p.tag /\ x \notin F /\ x \in Nat
      BY <1>3 DEF F, FreeOf, FreeIn, UsedOf, UsedIn
    <2>2. \A x \in UsedOf(p) : (x < d \/ x >= e) <=> x # c
      <3> TAKE x \in UsedOf(p)
      <3>1. CASE x = c
        BY <1>3, <1>7, <1>8, <1>10, <3>1
      <3>2. CASE x # c
        <4>1. x # d /\ (x = m => x >= e)
          BY <1>3, <1>7, <1>8, <2>1, <3>2
        <4>2. x < d \/ x >= c
          BY <1>7, <2>1, <4>1
        <4>3. x < c \/ x >= m
          BY <1>3, <2>1, <3>2
        <4>4. x = m \/ x < m \/ x >= e
          BY <1>8, <2>1
        <4> QED
          BY <1>3, <1>7, <1>8, <2>1, <3>2, <4>1, <4>2, <4>3, <4>4
      <3> QED
        BY <3>1, <3>2
    <2> QED
      BY <2>2 DEF OutsideOf
  <1>13. /\ Layout(u) /\ Coalesced(u) /\ FreeOf(u) = F /\ UsedOf(u) = UsedOf(p) /\ SpanOf(u, d, e)
    BY <1>1, <1>9, SameTagsKeep DEF F
  <1>14. Spanned(u, d, e)
    BY <1>11, <1>13 DEF Spanned
  <1>15. \A k \in DOMAIN p.areas : InPlace(k, c) => InPlace(k, d)
    <2> SUFFICES ASSUME NEW k \in DOMAIN p.areas, InPlace(k, c) PROVE InPlace(k, d)
      OBVIOUS
    <2>1. PICK j \in DOMAIN p.areas : Base(j) <= d /\ e <= End(p, j)
      BY <1>9 DEF SpanOf
    <2>2. j \in Nat /\ Base(j) \in Nat /\ End(p, j) \in Nat /\ k \in Nat
      BY <1>1, AreaFacts DEF Layout
    <2>3. Base(j) <= c /\ c <= End(p, j) /\ d <= End(p, j)
      BY <1>3, <1>7, <1>8, <1>10, <2>1, <2>2
    <2>4. InPlace(j, c) /\ InPlace(j, d)
      BY <1>1, <1>3, <1>7, <2>1, <2>3, AreaInPlace
    <2>5. j = k
      BY <1>3, <2>2, <2>4, OnePlace
    <2> QED
      BY <2>4, <2>5
  <1> QED
    BY <1>3, <1>7, <1>8, <1>10, <1>12, <1>13, <1>14, <1>15

-----------------------------------------------------------------------------
(***************************************************************************)
(* The invariant, and what the callers hold after each operation.          *)
(***************************************************************************)
HeldBy(p, l) ==
  /\ UsedOf(p) = DOMAIN l
  /\ \A c \in DOMAIN l : l[c] \in Sizes /\ p.tag[c].size \in {l[c], l[c] + 1}

IInv == Sound(pool) /\ Grown(pool) /\ HeldBy(pool, live)

Moved(l, c, d, n) == Written(Restrict(l, DOMAIN l \ {c}), {d}, n)

LEMMA SizeFacts ==
  ASSUME NEW n \in Sizes
  PROVE  n \in Nat /\ n >= MinSize /\ n > 0 /\ MinSize = 2 /\ n # 0
  BY SizesAssumption DEF MinSize

LEMMA HeldFacts ==
  ASSUME NEW p, NEW l, HeldBy(p, l), NEW c \in DOMAIN l
  PROVE  /\ c \in UsedOf(p) /\ p.tag[c].size \in Nat /\ p.tag[c].size >= MinSize
         /\ l[c] \in Nat /\ l[c] <= p.tag[c].size
  <1>1. l[c] \in Sizes /\ p.tag[c].size \in {l[c], l[c] + 1} /\ c \in UsedOf(p)
    BY DEF HeldBy
  <1>2. l[c] \in Nat /\ l[c] >= MinSize /\ MinSize = 2
    BY <1>1, SizeFacts
  <1> QED
    BY <1>1, <1>2

LEMMA HeldAlloc ==
  ASSUME NEW p, NEW l, HeldBy(p, l), NEW q, NEW c, NEW n \in Sizes, Given(p, q, c, n)
  PROVE  HeldBy(q, Written(l, {c}, n))
  <1> DEFINE k == Written(l, {c}, n)
  <1>1. DOMAIN k = DOMAIN l \union {c} /\ k[c] = n /\ \A x \in DOMAIN l : x # c => k[x] = l[x]
    BY DEF Written
  <1> HIDE DEF k
  <1>2. /\ c \notin UsedOf(p) /\ UsedOf(q) = UsedOf(p) \union {c}
        /\ \A u \in UsedOf(p) : q.tag[u] = p.tag[u]
        /\ q.tag[c].size \in {n, n + 1}
    BY DEF Given
  <1>3. /\ UsedOf(p) = DOMAIN l
        /\ \A x \in DOMAIN l : l[x] \in Sizes /\ p.tag[x].size \in {l[x], l[x] + 1}
    BY DEF HeldBy
  <1>4. \A x \in DOMAIN k : k[x] \in Sizes /\ q.tag[x].size \in {k[x], k[x] + 1}
    <2> TAKE x \in DOMAIN k
    <2>1. CASE x = c
      BY <1>1, <1>2, <2>1
    <2>2. CASE x # c
      BY <1>1, <1>2, <1>3, <2>2
    <2> QED
      BY <2>1, <2>2
  <1> QED
    BY <1>1, <1>2, <1>3, <1>4 DEF HeldBy, k

LEMMA HeldFree ==
  ASSUME NEW p, NEW l, HeldBy(p, l), NEW q, NEW c, Returned(p, q, c)
  PROVE  HeldBy(q, Restrict(l, DOMAIN l \ {c}))
  <1> DEFINE k == Restrict(l, DOMAIN l \ {c})
  <1>1. DOMAIN k = DOMAIN l \ {c} /\ \A x \in DOMAIN k : k[x] = l[x]
    BY DEF Restrict
  <1> HIDE DEF k
  <1>2. UsedOf(q) = UsedOf(p) \ {c} /\ \A u \in UsedOf(q) : q.tag[u] = p.tag[u]
    BY DEF Returned
  <1>3. /\ UsedOf(p) = DOMAIN l
        /\ \A x \in DOMAIN l : l[x] \in Sizes /\ p.tag[x].size \in {l[x], l[x] + 1}
    BY DEF HeldBy
  <1>4. UsedOf(q) = DOMAIN k
    BY <1>1, <1>2, <1>3
  <1>5. \A x \in DOMAIN k : k[x] \in Sizes /\ q.tag[x].size \in {k[x], k[x] + 1}
    <2> TAKE x \in DOMAIN k
    <2>1. x \in DOMAIN l /\ x \in UsedOf(q) /\ k[x] = l[x]
      BY <1>1, <1>4
    <2>2. q.tag[x] = p.tag[x]
      BY <1>2, <2>1
    <2> QED
      BY <1>3, <2>1, <2>2
  <1> QED
    BY <1>4, <1>5 DEF HeldBy, k

\* The chunk c has become d, of n units; the others are as they were.
LEMMA HeldMoved ==
  ASSUME NEW p, NEW l, HeldBy(p, l), NEW q, NEW c, NEW d, NEW n \in Sizes,
         UsedOf(q) = (UsedOf(p) \ {c}) \union {d}, q.tag[d].size \in {n, n + 1},
         \A u \in UsedOf(p) \ {c} : u # d => q.tag[u] = p.tag[u]
  PROVE  HeldBy(q, Moved(l, c, d, n))
  <1> DEFINE k == Moved(l, c, d, n)
  <1>1. /\ DOMAIN k = (DOMAIN l \ {c}) \union {d} /\ k[d] = n
        /\ \A x \in DOMAIN l \ {c} : x # d => k[x] = l[x]
    BY DEF Moved, Written, Restrict
  <1> HIDE DEF k
  <1>2. /\ UsedOf(p) = DOMAIN l
        /\ \A x \in DOMAIN l : l[x] \in Sizes /\ p.tag[x].size \in {l[x], l[x] + 1}
    BY DEF HeldBy
  <1>3. \A x \in DOMAIN k : k[x] \in Sizes /\ q.tag[x].size \in {k[x], k[x] + 1}
    <2> TAKE x \in DOMAIN k
    <2>1. CASE x = d
      BY <1>1, <2>1
    <2>2. CASE x # d
      <3>1. x \in DOMAIN l \ {c} /\ x \in UsedOf(p) \ {c} /\ k[x] = l[x]
        BY <1>1, <1>2, <2>2
      <3>2. q.tag[x] = p.tag[x]
        BY <2>2, <3>1
      <3> QED
        BY <1>2, <3>1, <3>2
    <2> QED
      BY <2>1, <2>2
  <1>4. UsedOf(q) = DOMAIN k
    BY <1>1, <1>2
  <1> QED
    BY <1>3, <1>4 DEF HeldBy, k

\* What is in use in an area that stays is not all given back.
Stays(p, q) == \A k \in DOMAIN q.areas : InUse(p, k) => InUse(q, k)

LEMMA AllocKeeps ==
  ASSUME IInv, NoShortTails, NEW n \in Sizes, Alloc(n)
  PROVE  IInv' /\ Stays(pool, pool')
  <1> DEFINE r == Take(pool, n)
  <1>1. Sound(pool) /\ Grown(pool) /\ HeldBy(pool, live)
    BY DEF IInv
  <1>2. pool' = r.pool /\ live' = Written(live, r.chunk, n)
    BY DEF Alloc
  <1>3. Taken(pool, r, n)
    BY <1>1, TakeGives
  <1> HIDE DEF r
  <1>4. CASE r.chunk = {} /\ r.pool = pool
    <2>1. live' = Written(live, {}, n) /\ pool' = pool
      BY <1>2, <1>4
    <2>2. DOMAIN live' = DOMAIN live /\ \A c \in DOMAIN live : live'[c] = live[c]
      BY <2>1 DEF Written
    <2>3. HeldBy(pool, live')
      BY <1>1, <2>2 DEF HeldBy
    <2> QED
      BY <1>1, <2>1, <2>3 DEF IInv, Stays
  <1>5. ASSUME NEW c, r.chunk = {c}, Given(pool, r.pool, c, n) PROVE IInv' /\ Stays(pool, pool')
    <2>1. pool' = r.pool /\ live' = Written(live, {c}, n)
      BY <1>2, <1>5
    <2>2. HeldBy(pool', live')
      BY <1>1, <1>5, <2>1, HeldAlloc
    <2>3. /\ Sound(pool') /\ UsedOf(pool) \subseteq UsedOf(pool')
          /\ pool'.areaMore = pool.areaMore /\ DOMAIN pool.areas \subseteq DOMAIN pool'.areas
      BY <1>5, <2>1 DEF Given
    <2>4. Grown(pool')
      BY <1>1, <2>3 DEF Grown
    <2>5. Stays(pool, pool')
      BY <2>3 DEF Stays, InUse
    <2> QED
      BY <2>2, <2>3, <2>4, <2>5 DEF IInv
  <1> QED
    BY <1>3, <1>4, <1>5 DEF Taken

LEMMA FreeKeeps ==
  ASSUME IInv, NEW c \in DOMAIN live, Free(c)
  PROVE  IInv' /\ (pool.areaMore # 0 => Stays(pool, pool'))
  <1>1. Sound(pool) /\ Grown(pool) /\ HeldBy(pool, live)
    BY DEF IInv
  <1>2. pool' = Release(pool, c) /\ live' = Restrict(live, DOMAIN live \ {c})
    BY DEF Free
  <1>3. c \in UsedOf(pool) /\ pool.tag[c].size >= MinSize
    BY <1>1, HeldFacts
  <1>4. Returned(pool, pool', c)
    BY <1>1, <1>2, <1>3, Releases
  <1>5. HeldBy(pool', live')
    BY <1>1, <1>2, <1>4, HeldFree
  <1>6. /\ Sound(pool') /\ UsedOf(pool') = UsedOf(pool) \ {c}
        /\ pool'.areaMore = pool.areaMore
        /\ pool.areaMore = 0 => pool'.areas = pool.areas
        /\ pool.areaMore # 0 => \A k \in DOMAIN pool'.areas : InPlace(k, c) => InUse(pool', k)
    BY <1>4 DEF Returned
  <1>7. Grown(pool')
    BY <1>1, <1>6 DEF Grown
  <1>8. pool.areaMore # 0 => Stays(pool, pool')
    <2> SUFFICES ASSUME pool.areaMore # 0, NEW k \in DOMAIN pool'.areas, NEW u \in UsedOf(pool), InPlace(k, u)
                 PROVE  InUse(pool', k)
      BY DEF Stays, InUse
    <2>1. CASE u = c
      BY <1>6, <2>1
    <2>2. CASE u # c
      BY <1>6, <2>2 DEF InUse
    <2> QED
      BY <2>1, <2>2
  <1> QED
    BY <1>5, <1>6, <1>7, <1>8 DEF IInv

LEMMA FittedKeeps ==
  ASSUME IInv, NEW c \in DOMAIN live, NEW n \in Sizes, NEW d, NEW e, Around(pool, c, d, e),
         NEW u, Record(u), SameTags(pool, u), Binned(u, FreeAround(pool, c, d, e)), n <= e - d,
         pool' = Shrink(u, d, e - d, n), live' = Moved(live, c, d, n)
  PROVE  IInv' /\ Stays(pool, pool')
  <1>1. Sound(pool) /\ Grown(pool) /\ HeldBy(pool, live)
    BY DEF IInv
  <1>2. c \in UsedOf(pool)
    BY <1>1, HeldFacts
  <1>3. /\ Spanned(u, d, e) /\ UsedOf(u) = UsedOf(pool)
        /\ OutsideOf(UsedOf(u), d, e) = UsedOf(pool) \ {c}
        /\ \A k \in DOMAIN pool.areas : InPlace(k, c) => InPlace(k, d)
    BY <1>1, <1>2, AroundIs
  <1>4. n \in Nat /\ n >= MinSize
    BY SizeFacts
  <1>5. Fitted(u, pool', d, e, n)
    BY <1>3, <1>4, ShrinkFits
  <1>6. /\ Sound(pool') /\ UsedOf(pool') = (UsedOf(pool) \ {c}) \union {d}
        /\ \A x \in UsedOf(pool) \ {c} : pool'.tag[x] = pool.tag[x]
        /\ pool'.tag[d].size \in {n, n + 1}
        /\ pool'.areaMore = pool.areaMore /\ DOMAIN pool'.areas \subseteq DOMAIN pool.areas
        /\ pool.areaMore = 0 => pool'.areas = pool.areas
    BY <1>3, <1>5 DEF Fitted, SameTags
  <1>7. HeldBy(pool', live')
    BY <1>1, <1>6, HeldMoved
  <1>8. Grown(pool')
    BY <1>1, <1>6 DEF Grown
  <1>9. Stays(pool, pool')
    <2> SUFFICES ASSUME NEW k \in DOMAIN pool'.areas, NEW x \in UsedOf(pool), InPlace(k, x)
                 PROVE  InUse(pool', k)
      BY DEF Stays, InUse
    <2>1. CASE x = c
      <3>1. k \in DOMAIN pool.areas /\ InPlace(k, d) /\ d \in UsedOf(pool')
        BY <1>3, <1>6, <2>1
      <3> QED
        BY <3>1 DEF InUse
    <2>2. CASE x # c
      BY <1>6, <2>2 DEF InUse
    <2> QED
      BY <2>1, <2>2
  <1> QED
    BY <1>6, <1>7, <1>8, <1>9 DEF IInv

LEMMA NextHeader ==
  ASSUME IInv, NEW c \in DOMAIN live
  PROVE  LET next == c + pool.tag[c].size
         IN  /\ Record(pool) /\ Layout(pool) /\ Binned(pool, FreeOf(pool))
             /\ c \in DOMAIN pool.tag /\ c \in Nat /\ c \notin FreeOf(pool) /\ pool.tag[c].size \in Nat
             /\ next \in Nat /\ c < next /\ next \in DOMAIN pool.tag
             /\ pool.tag[next].used \/ /\ next \in FreeOf(pool)
                                       /\ pool.tag[next].size \in Nat /\ pool.tag[next].size > 0
  <1> DEFINE next == c + pool.tag[c].size
  <1>1. Record(pool) /\ Layout(pool) /\ Binned(pool, FreeOf(pool)) /\ HeldBy(pool, live)
    BY DEF IInv, Sound
  <1>2. c \in UsedOf(pool)
    BY <1>1, HeldFacts
  <1>3. c \in DOMAIN pool.tag /\ pool.tag[c].used /\ pool.tag[c].size > 0
    BY <1>2 DEF UsedOf, UsedIn
  <1>4. c \in Nat /\ pool.tag[c].size \in Nat /\ next \in Nat /\ c < next /\ next \in DOMAIN pool.tag
    BY <1>1, <1>3, ChunkFacts
  <1> HIDE DEF next
  <1>5. c \notin FreeOf(pool)
    BY <1>3 DEF FreeOf, FreeIn
  <1>6. ASSUME ~pool.tag[next].used
        PROVE  next \in FreeOf(pool) /\ pool.tag[next].size \in Nat /\ pool.tag[next].size > 0
    BY <1>1, <1>4, <1>6, ChunkFacts DEF FreeOf, FreeIn
  <1> QED
    BY <1>1, <1>3, <1>4, <1>5, <1>6 DEF next

LEMMA ReallocInPlaceKeeps ==
  ASSUME IInv, NEW c \in DOMAIN live, NEW n \in Sizes, ReallocInPlace(c, n)
  PROVE  IInv' /\ Stays(pool, pool')
  <1> DEFINE old == pool.tag[c].size
             next == c + old
             F == FreeOf(pool)
  <1>1. /\ Record(pool) /\ Layout(pool) /\ Binned(pool, F)
        /\ c \in Nat /\ c \notin F /\ old \in Nat
        /\ next \in Nat /\ c < next
        /\ pool.tag[next].used \/ /\ next \in F
                                  /\ pool.tag[next].size \in Nat /\ pool.tag[next].size > 0
    BY NextHeader
  <1>2. n \in Nat
    BY SizeFacts
  <1>3. live' = Moved(live, c, c, n)
    <2>1. live' = [live EXCEPT ![c] = n]
      BY DEF ReallocInPlace
    <2> QED
      BY <2>1 DEF Moved, Written, Restrict
  <1>4. CASE old < n
    <2> DEFINE e == next + pool.tag[next].size
               u == UnlinkFree(pool, next)
    <2>1. ~pool.tag[next].used /\ old + pool.tag[next].size >= n /\ pool' = Shrink(u, c, old + pool.tag[next].size, n)
      BY <1>4 DEF ReallocInPlace
    <2>2. next \in F /\ pool.tag[next].size \in Nat /\ pool.tag[next].size > 0
      BY <1>1, <2>1
    <2>3. e \in Nat /\ e # next /\ e - c = old + pool.tag[next].size
      BY <1>1, <2>2
    <2>4. Record(u) /\ SameTags(pool, u) /\ Binned(u, F \ {next})
      BY <1>1, <2>2, UnlinkFreeBins
    <2>5. Around(pool, c, c, e)
      BY <2>2 DEF Around
    <2>6. FreeAround(pool, c, c, e) = F \ {next}
      BY <1>1, <2>3 DEF FreeAround
    <2> HIDE DEF u, e
    <2>7. n <= e - c /\ pool' = Shrink(u, c, e - c, n)
      BY <1>1, <1>2, <2>1, <2>2, <2>3
    <2> QED
      BY <1>3, <2>4, <2>5, <2>6, <2>7, FittedKeeps
  <1>5. CASE ~(old < n)
    <2>1. pool' = Shrink(pool, c, old + 0, n)
      BY <1>5 DEF ReallocInPlace
    <2>2. next - c = old /\ old + 0 = old /\ n <= old
      BY <1>1, <1>2, <1>5
    <2>3. Around(pool, c, c, next)
      BY DEF Around
    <2>4. FreeAround(pool, c, c, next) = F
      BY <1>1 DEF FreeAround
    <2>5. SameTags(pool, pool)
      BY DEF SameTags
    <2> HIDE DEF next
    <2>6. n <= next - c /\ pool' = Shrink(pool, c, next - c, n)
      BY <2>1, <2>2
    <2> QED
      BY <1>1, <1>3, <2>3, <2>4, <2>5, <2>6, FittedKeeps
  <1> QED
    BY <1>4, <1>5

LEMMA ReallocBackwardKeeps ==
  ASSUME IInv, NEW c \in DOMAIN live, NEW n \in Sizes, ReallocBackward(c, n)
  PROVE  IInv' /\ Stays(pool, pool')
  <1> DEFINE old == pool.tag[c].size
             next == c + old
             forward == IF pool.tag[next].used THEN 0 ELSE pool.tag[next].size
             prev == c - pool.prevTag[c].size
             room == (c - prev) + old + forward
             p == IF pool.tag[next].used THEN pool ELSE UnlinkFree(pool, next)
             u == UnlinkFree(p, prev)
             F == FreeOf(pool)
             e == next + forward
  <1>1. /\ Record(pool) /\ Layout(pool) /\ Binned(pool, F)
        /\ c \in DOMAIN pool.tag /\ c \in Nat /\ c \notin F /\ old \in Nat
        /\ next \in Nat /\ c < next
        /\ pool.tag[next].used \/ /\ next \in F
                                  /\ pool.tag[next].size \in Nat /\ pool.tag[next].size > 0
    BY NextHeader
  <1>2. /\ ~pool.prevTag[c].used /\ room >= n
        /\ pool' = Shrink(u, prev, room, n)
        /\ live' = Moved(live, c, prev, n)
    BY DEF ReallocBackward, Moved
  <1>3. /\ prev \in Nat /\ prev \in DOMAIN pool.tag /\ prev + pool.tag[prev].size = c
        /\ pool.tag[prev] = pool.prevTag[c] /\ pool.prevTag[c].size \in Nat /\ pool.prevTag[c].size > 0
    BY <1>1, <1>2, BeforeFacts
  <1> HIDE DEF prev
  <1>4. prev \in F /\ prev < c
    <2>1. prev \in F
      BY <1>2, <1>3 DEF FreeOf, FreeIn
    <2> QED
      BY <1>1, <1>3, <2>1
  <1>5. forward \in Nat /\ e \in Nat /\ (pool.tag[next].used => e = next) /\ (~pool.tag[next].used => next < e)
    BY <1>1
  <1>6. e - prev = room
    BY <1>1, <1>3, <1>5
  <1>7. Around(pool, c, prev, e)
    BY <1>1, <1>3, <1>4 DEF Around
  <1> HIDE DEF e, room, forward
  <1>8. Record(u) /\ SameTags(pool, u) /\ Binned(u, FreeAround(pool, c, prev, e))
    <2>1. CASE pool.tag[next].used
      <3>1. Record(u) /\ SameTags(pool, u) /\ Binned(u, F \ {prev})
        BY <1>1, <1>4, <2>1, UnlinkFreeBins
      <3>2. FreeAround(pool, c, prev, e) = F \ {prev}
        BY <1>5, <2>1 DEF FreeAround
      <3> QED
        BY <3>1, <3>2
    <2>2. CASE ~pool.tag[next].used
      <3>1. Record(p) /\ SameTags(pool, p) /\ Binned(p, F \ {next})
        BY <1>1, <2>2, UnlinkFreeBins
      <3>2. prev # next
        BY <1>1, <1>3, <1>4
      <3>3. prev \in F \ {next}
        BY <1>4, <3>2
      <3> HIDE DEF p
      <3>4. Record(u) /\ SameTags(p, u) /\ Binned(u, (F \ {next}) \ {prev})
        BY <3>1, <3>3, UnlinkFreeBins
      <3> HIDE DEF u
      <3>5. next # e
        BY <1>1, <1>5, <2>2
      <3>6. FreeAround(pool, c, prev, e) = (F \ {next}) \ {prev}
        BY <3>5 DEF FreeAround
      <3> QED
        BY <3>1, <3>4, <3>6 DEF SameTags
    <2> QED
      BY <2>1, <2>2
  <1> HIDE DEF u
  <1>9. n <= e - prev /\ pool' = Shrink(u, prev, e - prev, n)
    <2>1. n \in Nat /\ e - prev \in Int
      BY SizeFacts, <1>3, <1>5
    <2> QED
      BY <1>2, <1>6, <2>1
  <1> QED
    BY <1>2, <1>7, <1>8, <1>9, FittedKeeps

LEMMA ReallocByCopyKeeps ==
  ASSUME IInv, NoShortTails, NEW c \in DOMAIN live, NEW n \in Sizes, ReallocByCopy(c, n)
  PROVE  IInv' /\ (pool.areaMore # 0 => Stays(pool, pool'))
  <1> DEFINE r == Take(pool, n)
  <1>1. Sound(pool) /\ Grown(pool) /\ HeldBy(pool, live)
    BY DEF IInv
  <1>2. c \in UsedOf(pool) /\ pool.tag[c].size >= MinSize
    BY <1>1, HeldFacts
  <1>3. Taken(pool, r, n)
    BY <1>1, TakeGives
  <1>4. IF r.chunk = {} THEN pool' = pool /\ live' = live
        ELSE /\ pool' = Release(r.pool, c)
             /\ live' = Written(Restrict(live, DOMAIN live \ {c}), r.chunk, n)
    BY DEF ReallocByCopy
  <1> HIDE DEF r
  <1>5. CASE r.chunk = {}
    BY <1>1, <1>4, <1>5 DEF IInv, Stays
  <1>6. ASSUME NEW d, r.chunk = {d}, Given(pool, r.pool, d, n)
        PROVE  IInv' /\ (pool.areaMore # 0 => Stays(pool, pool'))
    <2> DEFINE s == r.pool
    <2>1. /\ Sound(s) /\ d \notin UsedOf(pool) /\ UsedOf(s) = UsedOf(pool) \union {d}
          /\ \A u \in UsedOf(pool) : s.tag[u] = pool.tag[u]
          /\ s.tag[d].size \in {n, n + 1}
          /\ s.areaMore = pool.areaMore /\ DOMAIN pool.areas \subseteq DOMAIN s.areas
      BY <1>6 DEF Given
    <2>2. pool' = Release(s, c) /\ live' = Moved(live, c, d, n)
      BY <1>4, <1>6 DEF Moved
    <2> HIDE DEF s
    <2>3. c \in UsedOf(s) /\ s.tag[c].size >= MinSize /\ c # d
      BY <1>2, <2>1
    <2>4. Returned(s, pool', c)
      BY <2>1, <2>2, <2>3, Releases
    <2>5. /\ Sound(pool') /\ UsedOf(pool') = UsedOf(s) \ {c}
          /\ \A u \in UsedOf(pool') : pool'.tag[u] = s.tag[u]
          /\ pool'.areaMore = s.areaMore
          /\ s.areaMore = 0 => pool'.areas = s.areas
          /\ s.areaMore # 0 => \A k \in DOMAIN pool'.areas : InPlace(k, c) => InUse(pool', k)
      BY <2>4 DEF Returned
    <2>6. UsedOf(pool') = (UsedOf(pool) \ {c}) \union {d}
      BY <2>1, <2>3, <2>5
    <2>7. pool'.tag[d].size \in {n, n + 1}
      BY <2>1, <2>5, <2>6
    <2>8. \A u \in UsedOf(pool) \ {c} : pool'.tag[u] = pool.tag[u]
      BY <2>1, <2>5, <2>6
    <2>9. HeldBy(pool', live')
      BY <1>1, <2>2, <2>6, <2>7, <2>8, HeldMoved
    <2>10. Grown(pool')
      BY <1>1, <2>1, <2>5 DEF Grown
    <2>11. pool.areaMore # 0 => Stays(pool, pool')
      <3> SUFFICES ASSUME pool.areaMore # 0, NEW k \in DOMAIN pool'.areas, NEW u \in UsedOf(pool), InPlace(k, u)
                   PROVE  InUse(pool', k)
        BY DEF Stays, InUse
      <3>1. CASE u = c
        BY <2>1, <2>5, <3>1
      <3>2. CASE u # c
        BY <2>6, <3>2 DEF InUse
      <3> QED
        BY <3>1, <3>2
    <2> QED
      BY <2>5, <2>9, <2>10, <2>11 DEF IInv
  <1> QED
    BY <1>3, <1>5, <1>6 DEF Taken

-----------------------------------------------------------------------------
(***************************************************************************)
(* FreeAll and FreeAllInternal: nothing is in use.  The second makes the   *)
(* areas anew one by one; AreasMade is that recursion.                     *)
(***************************************************************************)
AreaMade(p, area, f, i) ==
  IF i = 0 THEN EmptyPool(p.areaMore)
  ELSE LinkFree(NewArea(f[i - 1], area[i], p.areas[area[i]]), Base(area[i]))
AreasMade(p, area, f, n) == f = [i \in 0 .. n |-> AreaMade(p, area, f, i)]

LEMMA AreasMadeExists ==
  ASSUME NEW p, NEW area, NEW n \in Nat
  PROVE  \E f : AreasMade(p, area, f, n)
  <1> DEFINE Bad == {k \in Nat : ~ \E f : AreasMade(p, area, f, k)}
  <1> SUFFICES ASSUME Bad # {} PROVE FALSE
    OBVIOUS
  <1>1. PICK k \in Bad : \A m \in Bad : k <= m
    <2>1. Bad \in SUBSET Nat
      OBVIOUS
    <2> HIDE DEF Bad
    <2> QED
      BY <2>1, LeastNat
  <1>2. CASE k = 0
    <2> DEFINE g == [i \in 0 .. 0 |-> AreaMade(p, area, 0, 0)]
    <2>1. \A i \in 0 .. 0 : AreaMade(p, area, g, i) = AreaMade(p, area, 0, 0)
      BY DEF AreaMade
    <2>2. AreasMade(p, area, g, 0)
      BY <2>1 DEF AreasMade
    <2> HIDE DEF g
    <2> QED
      BY <1>1, <1>2, <2>2
  <1>3. CASE k # 0
    <2>1. k \in Nat /\ k - 1 \in Nat /\ k - 1 \notin Bad
      <3>1. Bad \subseteq Nat
        OBVIOUS
      <3> HIDE DEF Bad
      <3> QED
        BY <1>1, <1>3, <3>1
    <2>2. PICK f : AreasMade(p, area, f, k - 1)
      BY <2>1
    <2> DEFINE last == AreaMade(p, area, f, k)
               g == [i \in 0 .. k |-> IF i = k THEN last ELSE f[i]]
    <2>3. \A i \in 0 .. k : g[i] = AreaMade(p, area, g, i)
      <3> TAKE i \in 0 .. k
      <3>1. i # 0 => i - 1 \in 0 .. k /\ i - 1 # k
        BY <2>1
      <3>2. i # 0 => g[i - 1] = f[i - 1]
        BY <3>1
      <3>3. g[i] = IF i = k THEN last ELSE f[i]
        OBVIOUS
      <3> HIDE DEF g, last
      <3>4. AreaMade(p, area, g, i) = AreaMade(p, area, f, i)
        BY <3>2 DEF AreaMade
      <3>5. i # k => f[i] = AreaMade(p, area, f, i)
        <4>1. i # k => i \in 0 .. k - 1
          BY <2>1
        <4> QED
          BY <2>2, <4>1 DEF AreasMade
      <3> QED
        BY <3>3, <3>4, <3>5 DEF last
    <2>4. AreasMade(p, area, g, k)
      <3>1. g = [i \in 0 .. k |-> g[i]]
        OBVIOUS
      <3> HIDE DEF g
      <3> QED
        BY <2>3, <3>1 DEF AreasMade
    <2> QED
      BY <1>1, <2>4
  <1> QED
    BY <1>2, <1>3

\* The first areas are made and in the bins; the others are not yet.
Cleared(p, q, area, i, n) ==
  /\ Sound(q) /\ UsedOf(q) = {} /\ q.areaMore = p.areaMore
  /\ \A j \in i + 1 .. n : area[j] \notin DOMAIN q.areas

LEMMA AreasCleared ==
  ASSUME NEW p, AreasFit(p), NEW n \in Nat, NEW area \in Bijection(1 .. n, DOMAIN p.areas),
         NEW f, AreasMade(p, area, f, n), NEW i \in 0 .. n
  PROVE  Cleared(p, f[i], area, i, n)
  <1> DEFINE Bad == {k \in Nat : k <= n /\ ~Cleared(p, f[k], area, k, n)}
  <1> SUFFICES ASSUME Bad # {} PROVE FALSE
    <2>1. i \in Nat /\ i <= n
      OBVIOUS
    <2> QED
      BY <2>1
  <1>1. PICK k \in Bad : \A m \in Bad : k <= m
    <2>1. Bad \in SUBSET Nat
      OBVIOUS
    <2> HIDE DEF Bad
    <2> QED
      BY <2>1, LeastNat
  <1>2. k \in Nat /\ k <= n /\ k \in 0 .. n /\ ~Cleared(p, f[k], area, k, n)
    BY <1>1
  <1>3. f[k] = AreaMade(p, area, f, k)
    BY <1>2 DEF AreasMade
  <1>4. /\ \A j \in 1 .. n : area[j] \in DOMAIN p.areas
        /\ \A j, m \in 1 .. n : area[j] = area[m] => j = m
    BY DEF Bijection, Injection, IsInjective
  <1>5. CASE k = 0
    <2>1. f[k] = EmptyPool(p.areaMore)
      BY <1>3, <1>5 DEF AreaMade
    <2>2. Sound(f[k]) /\ DOMAIN f[k].areas = {} /\ UsedOf(f[k]) = {} /\ f[k].areaMore = p.areaMore
      BY <2>1, EmptyIsSound
    <2> QED
      BY <1>2, <2>2 DEF Cleared
  <1>6. CASE k # 0
    <2> DEFINE a == area[k]
               size == p.areas[a]
               o == f[k - 1]
               q == NewArea(o, a, size)
    <2>1. k - 1 \in Nat /\ k - 1 <= n /\ k - 1 \notin Bad /\ k \in 1 .. n
      <3>1. k - 1 \in Nat /\ k - 1 <= n /\ k \in 1 .. n /\ ~(k <= k - 1)
        BY <1>2, <1>6
      <3> HIDE DEF Bad
      <3> QED
        BY <1>1, <3>1
    <2>2. Cleared(p, o, area, k - 1, n)
      BY <2>1
    <2>3. Sound(o) /\ UsedOf(o) = {} /\ o.areaMore = p.areaMore /\ \A j \in k .. n : area[j] \notin DOMAIN o.areas
      <3>1. (k - 1) + 1 = k
        BY <1>2
      <3> HIDE DEF o
      <3> QED
        BY <2>2, <3>1 DEF Cleared
    <2>4. f[k] = LinkFree(q, Base(a))
      BY <1>3, <1>6 DEF AreaMade
    <2>5. a \in Areas \union {0} /\ size \in MinSize .. (Stride - 1)
      BY <1>4, <2>1 DEF AreasFit
    <2>6. a \notin DOMAIN o.areas
      <3>1. k \in k .. n
        BY <1>2
      <3> QED
        BY <2>3, <3>1
    <2> HIDE DEF a, size, o, q
    <2>7. AreaAdded(o, q, a, size)
      BY <2>3, <2>5, <2>6, NewAreaIs DEF Sound, q
    <2>8. Loose(q, Base(a)) /\ UsedOf(q) = {}
      BY <2>3, <2>5, <2>6, <2>7, AddedLoose
    <2>9. Sound(f[k]) /\ SameTags(q, f[k])
      BY <2>4, <2>8, Linked
    <2>10. UsedOf(f[k]) = {}
      BY <2>8, <2>9, SameTagsKeep
    <2>11. f[k].areaMore = p.areaMore /\ DOMAIN f[k].areas = DOMAIN o.areas \union {a}
      BY <2>3, <2>7, <2>9 DEF SameTags, AreaAdded
    <2>12. \A j \in k + 1 .. n : area[j] \notin DOMAIN f[k].areas
      <3> TAKE j \in k + 1 .. n
      <3>1. j \in k .. n /\ j \in 1 .. n /\ j # k
        BY <1>2, <2>1
      <3>2. area[j] \notin DOMAIN o.areas /\ area[j] # a
        BY <1>4, <2>1, <2>3, <3>1 DEF a
      <3> QED
        BY <2>11, <3>2
    <2> QED
      BY <1>2, <2>9, <2>10, <2>11, <2>12 DEF Cleared
  <1> QED
    BY <1>5, <1>6

\* Nothing is in use: no caller holds anything.
LEMMA NothingHeld ==
  ASSUME IInv, Sound(pool'), UsedOf(pool') = {}, pool.areaMore # 0, pool'.areaMore = pool.areaMore, live' = <<>>
  PROVE  IInv'
  <1>1. DOMAIN live' = {}
    OBVIOUS
  <1>2. HeldBy(pool', live')
    BY <1>1 DEF HeldBy
  <1>3. Grown(pool')
    BY DEF IInv, Grown
  <1> QED
    BY <1>2, <1>3 DEF IInv

LEMMA FreeAllKeeps ==
  ASSUME IInv, FreeAll
  PROVE  IInv' /\ DOMAIN pool'.areas = {}
  BY EmptyIsSound, NothingHeld DEF FreeAll

LEMMA FreeAllInternalKeeps ==
  ASSUME IInv, FreeAllInternal
  PROVE  IInv'
  <1> DEFINE n == Cardinality(DOMAIN pool.areas)
             F(area) == CHOOSE f : AreasMade(pool, area, f, n)
  <1>1. AreasFit(pool)
    BY DEF IInv, Sound, Layout
  <1>2. n \in Nat
    <2>1. IsFiniteSet(Areas \union {0})
      BY SizesAssumption, FS_AddElement
    <2>2. IsFiniteSet(DOMAIN pool.areas)
      BY <1>1, <2>1, FS_Subset DEF AreasFit
    <2> QED
      BY <2>2, FS_CardinalityType
  <1>3. pool.areaMore # 0 /\ live' = <<>>
    BY DEF FreeAllInternal
  <1>4. PICK area \in Bijection(1 .. n, DOMAIN pool.areas) : pool' = F(area)[n]
    BY DEF FreeAllInternal, AreasMade, AreaMade
  <1> HIDE DEF n
  <1>5. AreasMade(pool, area, F(area), n)
    BY <1>2, AreasMadeExists
  <1> HIDE DEF F
  <1>6. n \in 0 .. n
    BY <1>2
  <1>7. Cleared(pool, F(area)[n], area, n, n)
    BY <1>1, <1>2, <1>5, <1>6, AreasCleared
  <1>8. Sound(pool') /\ UsedOf(pool') = {} /\ pool'.areaMore = pool.areaMore
    BY <1>4, <1>7 DEF Cleared
  <1> QED
    BY <1>3, <1>8, NothingHeld

-----------------------------------------------------------------------------
(***************************************************************************)
(* The invariant says what PoolWhole says.                                 *)
(***************************************************************************)
LEMMA ChunksAre ==
  ASSUME Layout(pool)
  PROVE  /\ \A c \in DOMAIN pool.tag : c \in Chunks <=> pool.tag[c].size > 0
         /\ Chunks \subseteq DOMAIN pool.tag
         /\ FreeChunks = FreeOf(pool) /\ Chunks \ FreeChunks = UsedOf(pool)
  <1>1. \A c \in DOMAIN pool.tag : /\ pool.tag[c] = EndMark <=> ~(pool.tag[c].size > 0)
                                   /\ ~pool.tag[c].used => pool.tag[c].size > 0
    <2> TAKE c \in DOMAIN pool.tag
    <2> DEFINE t == pool.tag[c]
    <2>1. t \in TagSet
      BY DEF Layout, TagsFit
    <2> HIDE DEF t
    <2>2. t.size \in Nat /\ (t = EndMark <=> t.size = 0) /\ (t.size = 0 => t.used)
      BY <2>1, TagFields
    <2>3. (t = EndMark <=> ~(t.size > 0)) /\ (~t.used => t.size > 0)
      BY <2>2
    <2> QED
      BY <2>3 DEF t
  <1>2. \A c \in DOMAIN pool.tag : c \in Chunks <=> pool.tag[c].size > 0
    BY <1>1 DEF Chunks
  <1>3. Chunks \subseteq DOMAIN pool.tag
    BY DEF Chunks
  <1>4. FreeChunks = FreeOf(pool)
    BY <1>1, <1>2, <1>3 DEF FreeChunks, FreeOf, FreeIn
  <1>5. Chunks \ FreeChunks = UsedOf(pool)
    BY <1>2, <1>3 DEF FreeChunks, UsedOf, UsedIn
  <1> QED
    BY <1>2, <1>3, <1>4, <1>5

LEMMA HeadersAre ==
  ASSUME Layout(pool)
  PROVE  HeadersAgree
  <1> DEFINE bases == {Base(k) : k \in DOMAIN pool.areas}
             ends == {c + pool.tag[c].size : c \in Chunks}
  <1>1. /\ \A c \in DOMAIN pool.tag : c \in Chunks <=> pool.tag[c].size > 0
        /\ Chunks \subseteq DOMAIN pool.tag
    BY ChunksAre
  <1>2. DOMAIN pool.prevTag = DOMAIN pool.tag
    BY DEF Layout, TagsFit
  <1>3. \A c \in Chunks : /\ c + pool.tag[c].size \in DOMAIN pool.tag
                          /\ pool.prevTag[c + pool.tag[c].size] = pool.tag[c]
    BY <1>1 DEF Layout, Forward
  <1>4. bases \subseteq DOMAIN pool.tag
    BY DEF Layout, MarksSet
  <1>5. ASSUME NEW e \in DOMAIN pool.tag PROVE e \in bases \/ e \in ends
    <2>1. CASE pool.prevTag[e].size = 0
      <3>1. PICK k \in DOMAIN pool.areas : e = Base(k)
        BY <2>1 DEF Layout, InAreas
      <3> QED
        BY <3>1
    <2>2. CASE pool.prevTag[e].size # 0
      <3> DEFINE c == e - pool.prevTag[e].size
      <3>1. pool.prevTag[e].size \in Nat
        BY TagFields DEF Layout, TagsFit
      <3>2. pool.prevTag[e].size > 0
        BY <2>2, <3>1
      <3>3. c + pool.prevTag[e].size = e /\ c \in DOMAIN pool.tag /\ pool.tag[c] = pool.prevTag[e]
        BY <3>2, BeforeFacts
      <3> HIDE DEF c
      <3>4. c \in Chunks /\ e = c + pool.tag[c].size
        BY <1>1, <3>2, <3>3
      <3> QED
        BY <3>4
    <2> QED
      BY <2>1, <2>2
  <1>6. DOMAIN pool.tag = bases \union ends
    BY <1>3, <1>4, <1>5
  <1> QED
    BY <1>2, <1>3, <1>6 DEF HeadersAgree

LEMMA BinsAre ==
  ASSUME Binned(pool, FreeChunks)
  PROVE  BinsExact
  <1> SUFFICES ASSUME NEW i \in Index
               PROVE  LET bin == pool.bins[i]
                      IN  /\ i \in pool.marked <=> bin # <<>>
                          /\ ToSet(bin) = {c \in FreeChunks : BinIndex(pool.tag[c].size) = i}
                          /\ \A k \in DOMAIN bin : \A j \in 1 .. k - 1 :
                               bin[j] # bin[k] /\ pool.tag[bin[j]].size >= pool.tag[bin[k]].size
    BY DEF BinsExact
  <1> DEFINE bin == pool.bins[i]
  <1>1. bin \in Seq(Nat) /\ (i \in pool.marked <=> bin # <<>>) /\ InBin(pool, FreeChunks, i, bin)
    BY DEF Binned
  <1> HIDE DEF bin
  <1>2. DOMAIN bin = 1 .. Len(bin) /\ Len(bin) \in Nat
    BY <1>1
  <1>3. ToSet(bin) = {c \in FreeChunks : BinIndex(pool.tag[c].size) = i}
    BY <1>1, <1>2 DEF ToSet, InBin
  <1>4. ASSUME NEW k \in DOMAIN bin, NEW j \in 1 .. k - 1
        PROVE  bin[j] # bin[k] /\ pool.tag[bin[j]].size >= pool.tag[bin[k]].size
    <2>1. k \in 1 .. Len(bin) /\ j \in 1 .. Len(bin) /\ j < k
      BY <1>2
    <2> QED
      BY <1>1, <2>1 DEF InBin
  <1> QED
    BY <1>1, <1>3, <1>4 DEF bin

LEMMA WholeByInvariant ==
  ASSUME IInv
  PROVE  PoolWhole
  <1>1. Layout(pool) /\ Coalesced(pool) /\ Binned(pool, FreeOf(pool)) /\ HeldBy(pool, live)
    BY DEF IInv, Sound
  <1>2. FreeChunks = FreeOf(pool) /\ Chunks \ FreeChunks = UsedOf(pool)
    BY <1>1, ChunksAre
  <1>3. HeadersAgree
    BY <1>1, HeadersAre
  <1>4. Consolidated
    BY <1>1, <1>2 DEF Consolidated, Coalesced
  <1>5. BinsExact
    BY <1>1, <1>2, BinsAre
  <1>6. RoomGiven
    BY <1>1, <1>2 DEF RoomGiven, HeldBy
  <1> QED
    BY <1>3, <1>4, <1>5, <1>6 DEF PoolWhole

-----------------------------------------------------------------------------
(***************************************************************************)
(* The theorems.                                                           *)
(***************************************************************************)
LEMMA InitKeeps ==
  ASSUME Init
  PROVE  IInv
  <1>1. PICK more \in AreaMores :
          pool = IF AreaInit = 0 THEN EmptyPool(more)
                 ELSE LinkFree(NewArea(EmptyPool(more), 0, AreaInit), Base(0))
    BY DEF Init
  <1>2. DOMAIN live = {}
    BY DEF Init
  <1> DEFINE o == EmptyPool(more)
             q == NewArea(o, 0, AreaInit)
  <1>3. Sound(o) /\ DOMAIN o.areas = {} /\ UsedOf(o) = {} /\ o.areaMore = more
    BY EmptyIsSound
  <1>4. CASE AreaInit = 0
    <2>1. pool = o
      BY <1>1, <1>4
    <2>2. Grown(pool)
      BY <1>3, <1>4, <2>1 DEF Grown
    <2>3. HeldBy(pool, live)
      BY <1>2, <1>3, <2>1 DEF HeldBy
    <2> QED
      BY <1>3, <2>1, <2>2, <2>3 DEF IInv
  <1>5. CASE AreaInit # 0
    <2>1. pool = LinkFree(q, Base(0))
      BY <1>1, <1>5
    <2>2. AreaInit \in MinSize .. (Stride - 1) /\ 0 \in Areas \union {0}
      BY <1>5, SizesAssumption
    <2> HIDE DEF o, q
    <2>3. 0 \notin DOMAIN o.areas
      BY <1>3
    <2>4. AreaAdded(o, q, 0, AreaInit)
      BY <1>3, <2>2, <2>3, NewAreaIs DEF Sound, q
    <2>5. Loose(q, Base(0)) /\ UsedOf(q) = {}
      BY <1>3, <2>2, <2>3, <2>4, AddedLoose
    <2>6. Sound(pool) /\ SameTags(q, pool)
      BY <2>1, <2>5, Linked
    <2>7. UsedOf(pool) = {}
      BY <2>5, <2>6, SameTagsKeep
    <2>8. Grown(pool)
      BY <1>3, <2>4, <2>6 DEF Grown, SameTags, AreaAdded
    <2>9. HeldBy(pool, live)
      BY <1>2, <2>7 DEF HeldBy
    <2> QED
      BY <2>6, <2>8, <2>9 DEF IInv
  <1> QED
    BY <1>4, <1>5

\* Every step keeps the invariant, and all but FreeAll and FreeAllInternal keep an area that is
\* in use and stays in use.
LEMMA NextKeeps ==
  ASSUME IInv, NoShortTails, Next
  PROVE  /\ IInv'
         /\ pool.areaMore # 0 => Stays(pool, pool') \/ FreeAll \/ FreeAllInternal
  <1>1. ASSUME NEW n \in Sizes, Alloc(n) PROVE IInv' /\ Stays(pool, pool')
    BY <1>1, AllocKeeps
  <1>2. ASSUME NEW c \in DOMAIN live, Free(c) PROVE IInv' /\ (pool.areaMore # 0 => Stays(pool, pool'))
    BY <1>2, FreeKeeps
  <1>3. ASSUME NEW c \in DOMAIN live, NEW n \in Sizes, ReallocInPlace(c, n)
        PROVE  IInv' /\ Stays(pool, pool')
    BY <1>3, ReallocInPlaceKeeps
  <1>4. ASSUME NEW c \in DOMAIN live, NEW n \in Sizes, ReallocBackward(c, n)
        PROVE  IInv' /\ Stays(pool, pool')
    BY <1>4, ReallocBackwardKeeps
  <1>5. ASSUME NEW c \in DOMAIN live, NEW n \in Sizes, ReallocByCopy(c, n)
        PROVE  IInv' /\ (pool.areaMore # 0 => Stays(pool, pool'))
    BY <1>5, ReallocByCopyKeeps
  <1>6. FreeAll => IInv'
    BY FreeAllKeeps
  <1>7. FreeAllInternal => IInv'
    BY FreeAllInternalKeeps
  <1> QED
    BY <1>1, <1>2, <1>3, <1>4, <1>5, <1>6, <1>7 DEF Next

LEMMA Invariance ==
  ASSUME NoShortTails
  PROVE  Spec => []IInv
  <1>1. Init => IInv
    BY InitKeeps
  <1>2. IInv /\ [Next]_vars => IInv'
    <2> SUFFICES ASSUME IInv, [Next]_vars PROVE IInv'
      OBVIOUS
    <2>1. CASE Next
      BY <2>1, NextKeeps
    <2>2. CASE UNCHANGED vars
      BY <2>2 DEF IInv, vars
    <2> QED
      BY <2>1, <2>2
  <1> QED
    BY <1>1, <1>2, PTL DEF Spec

\* After every call of the allocator, and whatever the sizes, the areas and the bins are: the
\* headers divide the areas and agree with each other, no two free chunks touch, the bins hold
\* exactly the free chunks in their order, and the chunks in use are those that callers hold.
THEOREM PoolStaysWhole == ASSUME NoShortTails PROVE Spec => []PoolWhole
  BY Invariance, WholeByInvariant, PTL

\* What a caller was given lies in one area, it is the caller's alone, and no header of the
\* allocator is in it but the caller's own.
MemoryApart ==
  \A c \in DOMAIN live :
    LET units == c .. c + live[c] - 1
    IN  /\ \E k \in DOMAIN pool.areas : units \subseteq Base(k) .. Base(k) + pool.areas[k] - 1
        /\ units \intersect DOMAIN pool.tag = {c}
        /\ \A d \in DOMAIN live \ {c} : units \intersect (d .. d + live[d] - 1) = {}

LEMMA UnitsInChunk ==
  ASSUME IInv, NEW c \in DOMAIN live
  PROVE  LET e == c + pool.tag[c].size
         IN  /\ c \in Nat /\ e \in Nat /\ live[c] \in Nat /\ live[c] > 0 /\ c + live[c] <= e
             /\ c \in DOMAIN pool.tag /\ DOMAIN pool.tag \subseteq Nat
             /\ \A a \in DOMAIN pool.tag : a <= c \/ a >= e
             /\ SpanOf(pool, c, e)
  <1>1. Layout(pool) /\ HeldBy(pool, live) /\ live[c] \in Sizes
    BY DEF IInv, Sound, HeldBy
  <1>2. /\ c \in UsedOf(pool) /\ pool.tag[c].size \in Nat /\ live[c] <= pool.tag[c].size
        /\ live[c] \in Nat /\ live[c] > 0
    BY <1>1, HeldFacts, SizeFacts
  <1>3. c \in DOMAIN pool.tag /\ pool.tag[c].size > 0
    BY <1>2 DEF UsedOf, UsedIn
  <1>4. /\ c \in Nat /\ \A a \in DOMAIN pool.tag : a <= c \/ a >= c + pool.tag[c].size
        /\ SpanOf(pool, c, c + pool.tag[c].size)
    BY <1>1, <1>3, ChunkFacts
  <1>5. DOMAIN pool.tag \subseteq Nat
    BY <1>1 DEF Layout, TagsFit
  <1> QED
    BY <1>2, <1>3, <1>4, <1>5

LEMMA ApartByInvariant ==
  ASSUME IInv
  PROVE  MemoryApart
  <1> SUFFICES ASSUME NEW c \in DOMAIN live
               PROVE  LET units == c .. c + live[c] - 1
                      IN  /\ \E k \in DOMAIN pool.areas :
                               units \subseteq Base(k) .. Base(k) + pool.areas[k] - 1
                          /\ units \intersect DOMAIN pool.tag = {c}
                          /\ \A d \in DOMAIN live \ {c} : units \intersect (d .. d + live[d] - 1) = {}
    BY DEF MemoryApart
  <1> DEFINE units == c .. c + live[c] - 1
             e == c + pool.tag[c].size
  <1>1. /\ c \in Nat /\ e \in Nat /\ live[c] \in Nat /\ live[c] > 0 /\ c + live[c] <= e
        /\ c \in DOMAIN pool.tag /\ DOMAIN pool.tag \subseteq Nat
        /\ \A a \in DOMAIN pool.tag : a <= c \/ a >= e
        /\ SpanOf(pool, c, e)
    BY UnitsInChunk
  <1> HIDE DEF e
  <1>2. \E k \in DOMAIN pool.areas : units \subseteq Base(k) .. Base(k) + pool.areas[k] - 1
    <2>1. PICK k \in DOMAIN pool.areas : Base(k) <= c /\ e <= End(pool, k)
      BY <1>1 DEF SpanOf
    <2>2. Base(k) \in Nat /\ pool.areas[k] \in Nat
      BY AreaFacts DEF IInv, Sound, Layout
    <2>3. \A x \in units : x \in Base(k) .. Base(k) + pool.areas[k] - 1
      BY <1>1, <2>1, <2>2 DEF End
    <2> QED
      BY <2>3
  <1>3. units \intersect DOMAIN pool.tag = {c}
    <2>1. c \in units
      BY <1>1
    <2>2. \A a \in DOMAIN pool.tag : a \in units => a = c
      BY <1>1
    <2> QED
      BY <1>1, <2>1, <2>2
  <1>4. ASSUME NEW d \in DOMAIN live \ {c}, NEW x \in units PROVE x \notin d .. d + live[d] - 1
    <2>1. /\ d \in Nat /\ live[d] \in Nat /\ d + live[d] <= d + pool.tag[d].size
          /\ d \in DOMAIN pool.tag
          /\ \A a \in DOMAIN pool.tag : a <= d \/ a >= d + pool.tag[d].size
      BY UnitsInChunk
    <2>2. d + pool.tag[d].size \in Nat
      BY UnitsInChunk
    <2>3. d < c => c >= d + live[d]
      BY <1>1, <2>1, <2>2
    <2>4. c < d => d >= c + live[c]
      BY <1>1, <2>1
    <2> QED
      BY <1>1, <2>1, <2>3, <2>4
  <1> QED
    BY <1>2, <1>3, <1>4

THEOREM CallersKeepApart == ASSUME NoShortTails PROVE Spec => []MemoryApart
  BY Invariance, ApartByInvariant, PTL

\* A request that some free chunk can meet is met by the smallest of those.
THEOREM SmallestIsTaken == ASSUME NoShortTails PROVE Spec => BestFit
  <1> DEFINE Best ==
        \A n \in Sizes :
          LET enough == {c \in FreeChunks : pool.tag[c].size >= n}
              given == DOMAIN live' \ DOMAIN live
          IN  (Alloc(n) /\ enough # {}) =>
                \E c \in given : c \in enough /\ \A d \in enough : pool.tag[c].size <= pool.tag[d].size
  <1>1. ASSUME IInv PROVE Best
    <2>1. Sound(pool) /\ HeldBy(pool, live) /\ Layout(pool)
      BY <1>1 DEF IInv, Sound
    <2>2. FreeChunks = FreeOf(pool)
      BY <2>1, ChunksAre
    <2> SUFFICES ASSUME NEW n \in Sizes, Alloc(n), Enough(pool, n) # {}
                 PROVE  \E c \in DOMAIN live' \ DOMAIN live :
                          /\ c \in Enough(pool, n)
                          /\ \A d \in Enough(pool, n) : pool.tag[c].size <= pool.tag[d].size
      BY <2>2 DEF Enough
    <2>3. n \in Nat /\ n > 0
      BY SizeFacts
    <2>4. PICK c \in Enough(pool, n) : /\ FirstFit(pool, n) = {c}
                                       /\ \A d \in Enough(pool, n) : pool.tag[c].size <= pool.tag[d].size
      BY <2>1, <2>3, FirstFitBest DEF Sound
    <2>5. c \in FreeOf(pool) /\ pool.tag[c].size >= n
      BY DEF Enough
    <2>6. Take(pool, n) = TakeFree(pool, c, n)
      BY <2>4 DEF Take
    <2>7. TakeFree(pool, c, n).chunk = {c}
      BY <2>1, <2>3, <2>5, TakeFreeGives
    <2>8. live' = Written(live, {c}, n)
      BY <2>6, <2>7 DEF Alloc
    <2>9. c \in DOMAIN live'
      BY <2>8 DEF Written
    <2>10. c \notin DOMAIN live
      BY <2>1, <2>5 DEF HeldBy, FreeOf, FreeIn, UsedOf, UsedIn
    <2> QED
      BY <2>4, <2>9, <2>10
  <1>2. Spec => []IInv
    BY Invariance
  <1>3. Spec => [][Best]_vars
    <2>1. IInv => Best
      BY <1>1
    <2> HIDE DEF Best
    <2>2. IInv => [Best]_vars
      BY <2>1
    <2> QED
      BY <1>2, <2>2, PTL
  <1> QED
    BY <1>3, PTL DEF BestFit

\* A pool that grows keeps no area whose last chunk in use has been given back.
THEOREM AreasAreGivenBack == ASSUME NoShortTails PROVE Spec => AreasGivenBack
  <1> DEFINE Back == pool.areaMore # 0 /\ ~FreeAllInternal =>
                       \A k \in DOMAIN pool'.areas : Occupied(k) => Occupied(k)'
  <1>1. ASSUME IInv, Next PROVE Back
    <2>1. IInv' /\ (pool.areaMore # 0 => Stays(pool, pool') \/ FreeAll \/ FreeAllInternal)
      BY <1>1, NextKeeps
    <2>2. UsedOf(pool) = DOMAIN live /\ UsedOf(pool') = DOMAIN live'
      BY <1>1, <2>1 DEF IInv, HeldBy
    <2>3. \A k : (Occupied(k) <=> InUse(pool, k)) /\ (Occupied(k)' <=> InUse(pool', k))
      BY <2>2 DEF Occupied, InUse, InPlace, Base
    <2>4. FreeAll => DOMAIN pool'.areas = {}
      BY <1>1, FreeAllKeeps
    <2> QED
      BY <2>1, <2>3, <2>4 DEF Stays
  <1>2. Spec => []IInv
    BY Invariance
  <1>3. Spec => [][Back]_vars
    <2>1. IInv /\ [Next]_vars => [Back]_vars
      BY <1>1
    <2> HIDE DEF Back
    <2> QED
      BY <1>2, <2>1, PTL DEF Spec
  <1> QED
    BY <1>3 DEF AreasGivenBack
=============================================================================
